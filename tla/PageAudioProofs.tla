-------------------------- MODULE PageAudioProofs --------------------------
(***************************************************************************)
(* Proofs about the page and its audio engine, for any number of units,    *)
(* clicks, handlers and contexts.                                          *)
(***************************************************************************)
EXTENDS PageAudio, SequenceTheorems, FiniteSetTheorems, TLAPS

-----------------------------------------------------------------------------
(***************************************************************************)
(* Types, and what a step does to the handlers.                            *)
(***************************************************************************)
InStates == Starting \cup {"closing"}
UnitState == [key : Keys, bindings : Keys \cup {"none"}, designated : BOOLEAN, loopback : BOOLEAN]
ContextState == [open : BOOLEAN, chain : BOOLEAN, playback : BOOLEAN]
HandlerState == [kind : {"add", "change", "designate", "drop", "loopback", "delete", "click",
                         "rebuild", "over"},
                 at : InStates \cup {"loading", "done"}, on : Nat, unit : Nat,
                 key : Keys \cup {"none"}]

\* Handler i, perhaps a new one, is h now, and the others are what they were.
Step(i, h) ==
  /\ ops' \in Seq(HandlerState) /\ i \in 1 .. Len(ops') /\ ops'[i] = h
  /\ \/ i \in 1 .. Len(ops) /\ Len(ops') = Len(ops)
     \/ i = Len(ops) + 1 /\ Len(ops') = Len(ops) + 1
  /\ \A j \in 1 .. Len(ops) : j # i => ops'[j] = ops[j]

\* A handler goes on.
LEMMA Put ==
  ASSUME ops \in Seq(HandlerState), NEW i \in 1 .. Len(ops), NEW h \in HandlerState,
         ops' = [ops EXCEPT ![i] = h]
  PROVE  Step(i, h)
<1>1. /\ [ops EXCEPT ![i] = h] \in Seq(HandlerState)
      /\ Len([ops EXCEPT ![i] = h]) = Len(ops)
      /\ \A j \in 1 .. Len(ops) : [ops EXCEPT ![i] = h][j] = IF j = i THEN h ELSE ops[j]
  BY ExceptSeq
<1> QED
  BY <1>1 DEF Step

\* A new one comes.
LEMMA PutLast ==
  ASSUME ops \in Seq(HandlerState), NEW h \in HandlerState, ops' = Append(ops, h)
  PROVE  Step(Len(ops) + 1, h)
<1>1. /\ Append(ops, h) \in Seq(HandlerState) /\ Len(Append(ops, h)) = Len(ops) + 1
      /\ \A j \in 1 .. Len(ops) : Append(ops, h)[j] = ops[j]
      /\ Append(ops, h)[Len(ops) + 1] = h
  BY AppendProperties
<1>2. Len(ops) \in Nat
  BY LenProperties
<1> QED
  BY <1>1, <1>2 DEF Step

-----------------------------------------------------------------------------
(***************************************************************************)
(* The chain of units.                                                     *)
(***************************************************************************)
\* Places of a chain of at most MaxUnits units, all different, of the first n.
Chain(us, n) ==
  /\ us \in Seq(Nat) /\ Len(us) <= MaxUnits
  /\ \A k \in 1 .. Len(us) : us[k] \in 1 .. n
  /\ \A j, k \in 1 .. Len(us) : us[j] = us[k] => j = k

\* The units of a chain.
LEMMA ChainSet ==
  ASSUME NEW us \in Seq(Nat)
  PROVE  /\ Len(us) \in Nat /\ DOMAIN us = 1 .. Len(us)
         /\ ToSet(us) = {us[k] : k \in 1 .. Len(us)}
<1>1. Len(us) \in Nat /\ DOMAIN us = 1 .. Len(us)
  BY LenProperties
<1> QED
  BY <1>1 DEF ToSet

\* The place of a unit.
LEMMA PlaceOf ==
  ASSUME units \in Seq(Nat), NEW u \in ToSet(units)
  PROVE  Place(u) \in 1 .. Len(units) /\ units[Place(u)] = u
<1>1. \E k \in DOMAIN units : units[k] = u
  BY DEF ToSet
<1>2. Place(u) \in DOMAIN units /\ units[Place(u)] = u
  BY <1>1 DEF Place
<1> QED
  BY <1>2, ChainSet

\* One place is cut out.
LEMMA CutOut ==
  ASSUME NEW us \in Seq(Nat), NEW k \in 1 .. Len(us)
  PROVE  /\ RemoveAt(us, k) \in Seq(Nat) /\ Len(RemoveAt(us, k)) = Len(us) - 1
         /\ \A j \in 1 .. Len(us) - 1 : RemoveAt(us, k)[j] = IF j < k THEN us[j] ELSE us[j + 1]
<1> DEFINE a == SubSeq(us, 1, k - 1)
           b == SubSeq(us, k + 1, Len(us))
           l == Len(us)
<1>1. l \in Nat /\ k \in Nat /\ \A j \in 1 .. l : us[j] \in Nat
  BY LenProperties, ElementOfSeq
<1>2. a \in Seq(Nat) /\ Len(a) = k - 1 /\ \A j \in 1 .. k - 1 : a[j] = us[j]
  <2>1. \A j \in 1 .. k - 1 : us[j] \in Nat
    BY <1>1
  <2>2. /\ a \in Seq(Nat) /\ Len(a) = IF 1 <= k - 1 THEN k - 1 - 1 + 1 ELSE 0
        /\ \A j \in 1 .. k - 1 - 1 + 1 : a[j] = us[1 + j - 1]
    BY <1>1, <2>1, SubSeqProperties
  <2> HIDE DEF a
  <2>3. \A j \in 1 .. k - 1 : j \in 1 .. k - 1 - 1 + 1 /\ 1 + j - 1 = j
    BY <1>1
  <2> QED
    BY <1>1, <2>2, <2>3
<1>3. b \in Seq(Nat) /\ Len(b) = l - k /\ \A j \in 1 .. l - k : b[j] = us[k + j]
  <2>1. \A j \in k + 1 .. l : us[j] \in Nat
    BY <1>1
  <2>2. /\ b \in Seq(Nat) /\ Len(b) = IF k + 1 <= l THEN l - (k + 1) + 1 ELSE 0
        /\ \A j \in 1 .. l - (k + 1) + 1 : b[j] = us[k + 1 + j - 1]
    BY <1>1, <2>1, SubSeqProperties
  <2> HIDE DEF b
  <2>3. \A j \in 1 .. l - k : j \in 1 .. l - (k + 1) + 1 /\ k + 1 + j - 1 = k + j
    BY <1>1
  <2> QED
    BY <1>1, <2>2, <2>3
<1> HIDE DEF a, b
<1>4. /\ a \o b \in Seq(Nat) /\ Len(a \o b) = Len(a) + Len(b)
      /\ \A j \in 1 .. Len(a) + Len(b) : (a \o b)[j] = IF j <= Len(a) THEN a[j] ELSE b[j - Len(a)]
  BY <1>2, <1>3, ConcatProperties
<1>5. Len(a) + Len(b) = l - 1
  BY <1>1, <1>2, <1>3
<1>6. ASSUME NEW j \in 1 .. l - 1
      PROVE  (a \o b)[j] = IF j < k THEN us[j] ELSE us[j + 1]
  <2>1. CASE j < k
    <3>1. j \in 1 .. k - 1 /\ j <= Len(a)
      BY <1>1, <1>2, <2>1
    <3> QED
      BY <1>2, <1>4, <1>5, <2>1, <3>1
  <2>2. CASE ~(j < k)
    <3>1. ~(j <= Len(a)) /\ j - Len(a) \in 1 .. l - k /\ k + (j - Len(a)) = j + 1
      BY <1>1, <1>2, <2>2
    <3> QED
      BY <1>3, <1>4, <1>5, <2>2, <3>1
  <2> QED
    BY <2>1, <2>2
<1>7. RemoveAt(us, k) = a \o b
  BY DEF RemoveAt, a, b
<1> QED
  BY <1>4, <1>5, <1>6, <1>7

\* A unit is put into a place.
LEMMA PutIn ==
  ASSUME NEW us \in Seq(Nat), NEW k \in 1 .. Len(us) + 1, NEW u \in Nat
  PROVE  /\ InsertAt(us, k, u) \in Seq(Nat) /\ Len(InsertAt(us, k, u)) = Len(us) + 1
         /\ \A j \in 1 .. Len(us) + 1 :
              InsertAt(us, k, u)[j] = IF j < k THEN us[j] ELSE IF j = k THEN u ELSE us[j - 1]
<1> DEFINE a == SubSeq(us, 1, k - 1)
           b == SubSeq(us, k, Len(us))
           c == <<u>>
           l == Len(us)
<1>1. l \in Nat /\ k \in Nat /\ \A j \in 1 .. l : us[j] \in Nat
  BY LenProperties, ElementOfSeq
<1>2. a \in Seq(Nat) /\ Len(a) = k - 1 /\ \A j \in 1 .. k - 1 : a[j] = us[j]
  <2>1. \A j \in 1 .. k - 1 : us[j] \in Nat
    BY <1>1
  <2>2. /\ a \in Seq(Nat) /\ Len(a) = IF 1 <= k - 1 THEN k - 1 - 1 + 1 ELSE 0
        /\ \A j \in 1 .. k - 1 - 1 + 1 : a[j] = us[1 + j - 1]
    BY <1>1, <2>1, SubSeqProperties
  <2> HIDE DEF a
  <2>3. \A j \in 1 .. k - 1 : j \in 1 .. k - 1 - 1 + 1 /\ 1 + j - 1 = j
    BY <1>1
  <2> QED
    BY <1>1, <2>2, <2>3
<1>3. b \in Seq(Nat) /\ Len(b) = l - k + 1 /\ \A j \in 1 .. l - k + 1 : b[j] = us[k + j - 1]
  <2>1. \A j \in k .. l : us[j] \in Nat
    BY <1>1
  <2>2. /\ b \in Seq(Nat) /\ Len(b) = IF k <= l THEN l - k + 1 ELSE 0
        /\ \A j \in 1 .. l - k + 1 : b[j] = us[k + j - 1]
    BY <1>1, <2>1, SubSeqProperties
  <2> HIDE DEF b
  <2> QED
    BY <1>1, <2>2
<1>4. c \in Seq(Nat) /\ Len(c) = 1 /\ c[1] = u
  OBVIOUS
<1> HIDE DEF a, b, c
<1>5. /\ a \o c \in Seq(Nat) /\ Len(a \o c) = k
      /\ \A j \in 1 .. k : (a \o c)[j] = IF j < k THEN us[j] ELSE u
  <2>1. /\ a \o c \in Seq(Nat) /\ Len(a \o c) = Len(a) + Len(c)
        /\ \A j \in 1 .. Len(a) + Len(c) : (a \o c)[j] = IF j <= Len(a) THEN a[j] ELSE c[j - Len(a)]
    BY <1>2, <1>4, ConcatProperties
  <2>2. Len(a) + Len(c) = k
    BY <1>1, <1>2, <1>4
  <2>3. ASSUME NEW j \in 1 .. k PROVE (a \o c)[j] = IF j < k THEN us[j] ELSE u
    <3>1. CASE j < k
      <4>1. j \in 1 .. k - 1 /\ j <= Len(a)
        BY <1>1, <1>2, <3>1
      <4> QED
        BY <1>2, <2>1, <2>2, <3>1, <4>1
    <3>2. CASE ~(j < k)
      <4>1. ~(j <= Len(a)) /\ j - Len(a) = 1
        BY <1>1, <1>2, <3>2
      <4> QED
        BY <1>4, <2>1, <2>2, <3>2, <4>1
    <3> QED
      BY <3>1, <3>2
  <2> QED
    BY <2>1, <2>2, <2>3
<1> DEFINE d == a \o c
<1>6. d \in Seq(Nat) /\ Len(d) = k /\ \A j \in 1 .. k : d[j] = IF j < k THEN us[j] ELSE u
  BY <1>5
<1>7. InsertAt(us, k, u) = d \o b
  BY DEF InsertAt, a, b, c
<1> HIDE DEF d
<1>8. /\ d \o b \in Seq(Nat) /\ Len(d \o b) = Len(d) + Len(b)
      /\ \A j \in 1 .. Len(d) + Len(b) : (d \o b)[j] = IF j <= Len(d) THEN d[j] ELSE b[j - Len(d)]
  BY <1>3, <1>6, ConcatProperties
<1>9. Len(d) + Len(b) = l + 1
  BY <1>1, <1>3, <1>6
<1>10. ASSUME NEW j \in 1 .. l + 1
       PROVE  (d \o b)[j] = IF j < k THEN us[j] ELSE IF j = k THEN u ELSE us[j - 1]
  <2>1. CASE j <= k
    <3>1. j \in 1 .. k /\ j <= Len(d)
      BY <1>1, <1>6, <2>1
    <3>2. (d \o b)[j] = IF j < k THEN us[j] ELSE u
      BY <1>6, <1>8, <1>9, <3>1
    <3> QED
      BY <1>1, <2>1, <3>2
  <2>2. CASE ~(j <= k)
    <3>1. /\ ~(j <= Len(d)) /\ j - Len(d) \in 1 .. l - k + 1 /\ k + (j - Len(d)) - 1 = j - 1
          /\ ~(j < k) /\ j # k
      BY <1>1, <1>6, <2>2
    <3> QED
      BY <1>3, <1>8, <1>9, <3>1
  <2> QED
    BY <2>1, <2>2
<1> QED
  BY <1>7, <1>8, <1>9, <1>10

\* A chain without one of its units.
LEMMA ChainWithout ==
  ASSUME NEW n \in Nat, Chain(units, n), NEW u \in ToSet(units)
  PROVE  /\ Chain(RemoveAt(units, Place(u)), n)
         /\ Len(RemoveAt(units, Place(u))) = Len(units) - 1
         /\ ToSet(RemoveAt(units, Place(u))) \subseteq ToSet(units) \ {u}
<1> DEFINE us == RemoveAt(units, Place(u))
           k == Place(u)
           l == Len(units)
<1>1. /\ units \in Seq(Nat) /\ l \in Nat /\ l <= MaxUnits /\ MaxUnits \in Nat
      /\ \A j \in 1 .. l : units[j] \in 1 .. n
      /\ \A i, j \in 1 .. l : units[i] = units[j] => i = j
      /\ ToSet(units) = {units[j] : j \in 1 .. l}
  BY ChainSet, PageAssumption DEF Chain
<1>2. k \in 1 .. l /\ units[k] = u
  BY <1>1, PlaceOf
<1>3. /\ us \in Seq(Nat) /\ Len(us) = l - 1
      /\ \A j \in 1 .. l - 1 : us[j] = IF j < k THEN units[j] ELSE units[j + 1]
  BY <1>1, <1>2, CutOut
<1> HIDE DEF us, k, l
<1>4. ToSet(us) = {us[j] : j \in 1 .. l - 1}
  BY <1>3, ChainSet
<1>5. \A j \in 1 .. l - 1 : (j < k => j \in 1 .. l) /\ (~(j < k) => j + 1 \in 1 .. l /\ j + 1 # k) /\ j \in Nat
  BY <1>1, <1>2
<1>6. ASSUME NEW i \in 1 .. l - 1, NEW j \in 1 .. l - 1, us[i] = us[j] PROVE i = j
  <2>1. CASE i < k /\ j < k
    BY <1>1, <1>3, <1>5, <1>6, <2>1
  <2>2. CASE ~(i < k) /\ ~(j < k)
    <3>1. i + 1 = j + 1
      BY <1>1, <1>3, <1>5, <1>6, <2>2
    <3> QED
      BY <1>5, <3>1
  <2>3. CASE i < k /\ ~(j < k)
    <3>1. i = j + 1
      BY <1>1, <1>3, <1>5, <1>6, <2>3
    <3> QED
      BY <1>1, <1>2, <1>5, <2>3, <3>1
  <2>4. CASE ~(i < k) /\ j < k
    <3>1. i + 1 = j
      BY <1>1, <1>3, <1>5, <1>6, <2>4
    <3> QED
      BY <1>1, <1>2, <1>5, <2>4, <3>1
  <2> QED
    BY <2>1, <2>2, <2>3, <2>4
<1>7. ASSUME NEW j \in 1 .. l - 1 PROVE us[j] \in 1 .. n /\ us[j] \in ToSet(units) /\ us[j] # u
  <2>1. CASE j < k
    <3>1. j \in 1 .. l /\ j # k /\ us[j] = units[j]
      BY <1>1, <1>2, <1>3, <1>5, <2>1
    <3> QED
      BY <1>1, <1>2, <3>1
  <2>2. CASE ~(j < k)
    <3>1. j + 1 \in 1 .. l /\ j + 1 # k /\ us[j] = units[j + 1]
      BY <1>3, <1>5, <2>2
    <3> QED
      BY <1>1, <1>2, <3>1
  <2> QED
    BY <2>1, <2>2
<1>8. Len(us) <= MaxUnits
  BY <1>1, <1>3
<1>9. Chain(us, n)
  BY <1>3, <1>6, <1>7, <1>8 DEF Chain
<1>10. ToSet(us) \subseteq ToSet(units) \ {u}
  BY <1>4, <1>7
<1> QED
  BY <1>3, <1>9, <1>10 DEF us, k, l

\* A unit dropped on the place of another one.
LEMMA ChainMoved ==
  ASSUME NEW n \in Nat, Chain(units, n), NEW u \in ToSet(units), NEW v \in ToSet(units)
  PROVE  /\ Chain(InsertAt(RemoveAt(units, Place(u)), Place(v), u), n)
         /\ ToSet(InsertAt(RemoveAt(units, Place(u)), Place(v), u)) \subseteq ToSet(units)
         /\ InsertAt(RemoveAt(units, Place(u)), Place(v), u) # <<>>
<1> DEFINE s == RemoveAt(units, Place(u))
           k == Place(v)
           us == InsertAt(s, k, u)
           l == Len(units)
<1>1. /\ units \in Seq(Nat) /\ l \in Nat /\ l <= MaxUnits /\ MaxUnits \in Nat
      /\ \A j \in 1 .. l : units[j] \in 1 .. n
      /\ ToSet(units) = {units[j] : j \in 1 .. l}
  BY ChainSet, PageAssumption DEF Chain
<1>2. k \in 1 .. l
  BY <1>1, PlaceOf
<1>3. /\ s \in Seq(Nat) /\ Len(s) = l - 1 /\ u \in 1 .. n
      /\ \A j \in 1 .. l - 1 : s[j] \in 1 .. n /\ s[j] # u /\ s[j] \in ToSet(units)
      /\ \A i, j \in 1 .. l - 1 : s[i] = s[j] => i = j
  <2>1. Chain(s, n) /\ Len(s) = l - 1 /\ ToSet(s) \subseteq ToSet(units) \ {u}
    BY ChainWithout
  <2>2. s \in Seq(Nat)
    BY <2>1 DEF Chain
  <2>3. ToSet(s) = {s[j] : j \in 1 .. Len(s)}
    BY <2>2, ChainSet
  <2> HIDE DEF s
  <2>4. u \in 1 .. n
    BY <1>1
  <2> QED
    BY <2>1, <2>2, <2>3, <2>4 DEF Chain
<1> HIDE DEF s, k, us
<1>4. /\ us \in Seq(Nat) /\ Len(us) = l
      /\ \A j \in 1 .. l : us[j] = IF j < k THEN s[j] ELSE IF j = k THEN u ELSE s[j - 1]
  <2>1. k \in 1 .. Len(s) + 1 /\ Len(s) + 1 = l /\ u \in Nat
    BY <1>1, <1>2, <1>3
  <2> QED
    BY <1>3, <2>1, PutIn DEF us
<1>5. \A j \in 1 .. l : /\ j < k => j \in 1 .. l - 1
                        /\ ~(j < k) /\ j # k => j - 1 \in 1 .. l - 1
                        /\ j \in Int /\ k \in Int
  <2>1. l \in Nat /\ k \in 1 .. l
    BY <1>1, <1>2
  <2> HIDE DEF l
  <2> QED
    BY <2>1
<1>6. ASSUME NEW j \in 1 .. l PROVE us[j] \in 1 .. n /\ us[j] \in ToSet(units)
  BY <1>3, <1>4, <1>5
<1>7. ASSUME NEW i \in 1 .. l, NEW j \in 1 .. l, i < j PROVE us[i] # us[j]
  <2>1. CASE j < k
    <3>1. i < k /\ i # j
      BY <1>5, <1>7, <2>1
    <3> QED
      BY <1>3, <1>4, <1>5, <2>1, <3>1
  <2>2. CASE j = k
    <3>1. i < k /\ ~(j < k)
      BY <1>5, <1>7, <2>2
    <3>2. us[i] = s[i] /\ i \in 1 .. l - 1 /\ us[j] = u
      BY <1>4, <1>5, <2>2, <3>1
    <3> QED
      BY <1>3, <3>2
  <2>3. CASE ~(j < k) /\ j # k /\ i < k
    <3>1. PICK m \in 1 .. l - 1 : m = j - 1
      BY <1>5, <2>3
    <3>2. i # m /\ i \in 1 .. l - 1
      BY <1>5, <2>3, <3>1
    <3>3. us[i] = s[i] /\ us[j] = s[m]
      BY <1>4, <1>5, <2>3, <3>1
    <3>4. s[i] # s[m]
      BY <1>3, <3>2
    <3> QED
      BY <3>3, <3>4
  <2>4. CASE ~(j < k) /\ j # k /\ i = k
    <3>1. PICK m \in 1 .. l - 1 : m = j - 1
      BY <1>5, <2>4
    <3>2. ~(i < k)
      BY <1>5, <2>4
    <3>3. us[i] = u /\ us[j] = s[m]
      BY <1>4, <2>4, <3>1, <3>2
    <3> QED
      BY <1>3, <3>3
  <2>5. CASE ~(j < k) /\ j # k /\ ~(i < k) /\ i # k
    <3>1. PICK m \in 1 .. l - 1 : m = j - 1
      BY <1>5, <2>5
    <3>2. PICK h \in 1 .. l - 1 : h = i - 1
      BY <1>5, <2>5
    <3>3. h # m
      BY <1>5, <1>7, <3>1, <3>2
    <3>4. us[i] = s[h] /\ us[j] = s[m]
      BY <1>4, <2>5, <3>1, <3>2
    <3>5. s[h] # s[m]
      BY <1>3, <3>3
    <3> QED
      BY <3>4, <3>5
  <2> QED
    BY <2>1, <2>2, <2>3, <2>4, <2>5
<1>8. ASSUME NEW i \in 1 .. l, NEW j \in 1 .. l, us[i] = us[j] PROVE i = j
  <2>1. i < j \/ j < i \/ i = j
    BY <1>5
  <2> QED
    BY <1>7, <1>8, <2>1
<1>9. Len(us) <= MaxUnits
  BY <1>1, <1>4
<1>10. Chain(us, n)
  BY <1>4, <1>6, <1>8, <1>9 DEF Chain
<1>11. ToSet(us) = {us[j] : j \in 1 .. Len(us)}
  BY <1>4, ChainSet
<1>12. ToSet(us) \subseteq ToSet(units)
  BY <1>4, <1>6, <1>11
<1>13. us # <<>>
  <2>1. Len(us) # 0
    BY <1>1, <1>2, <1>4
  <2>2. Len(<<>>) = 0
    OBVIOUS
  <2> QED
    BY <2>1, <2>2
<1> QED
  BY <1>10, <1>12, <1>13 DEF us, s, k

\* One more unit.
LEMMA ChainAdded ==
  ASSUME NEW n \in Nat, Chain(units, n), Len(units) < MaxUnits
  PROVE  /\ Chain(Append(units, n + 1), n + 1)
         /\ ToSet(Append(units, n + 1)) = ToSet(units) \cup {n + 1}
<1> DEFINE us == Append(units, n + 1)
           l == Len(units)
<1>1. /\ units \in Seq(Nat) /\ l \in Nat /\ l < MaxUnits /\ MaxUnits \in Nat
      /\ \A j \in 1 .. l : units[j] \in 1 .. n
      /\ \A i, j \in 1 .. l : units[i] = units[j] => i = j
      /\ ToSet(units) = {units[j] : j \in 1 .. l}
  BY ChainSet, PageAssumption DEF Chain
<1>2. /\ us \in Seq(Nat) /\ Len(us) = l + 1
      /\ \A j \in 1 .. l : us[j] = units[j]
      /\ us[l + 1] = n + 1
  BY <1>1, AppendProperties
<1> HIDE DEF us, l
<1>3. ToSet(us) = {us[j] : j \in 1 .. l + 1}
  BY <1>2, ChainSet
<1>4. \A j \in 1 .. l + 1 : j \in 1 .. l \/ j = l + 1
  BY <1>1
<1>5. \A j \in 1 .. l : j \in 1 .. l + 1 /\ l + 1 \in 1 .. l + 1
  BY <1>1
<1>6. l + 1 \in 1 .. l + 1 /\ Len(us) <= MaxUnits
  BY <1>1, <1>2
<1>7. \A j \in 1 .. l : us[j] \in 1 .. n + 1 /\ us[j] # n + 1
  BY <1>1, <1>2
<1>8. ASSUME NEW i \in 1 .. l + 1, NEW j \in 1 .. l + 1, us[i] = us[j] PROVE i = j
  BY <1>1, <1>2, <1>4, <1>7, <1>8
<1>9. Chain(us, n + 1)
  <2>1. \A j \in 1 .. l + 1 : us[j] \in 1 .. n + 1
    BY <1>2, <1>4, <1>7
  <2> QED
    BY <1>2, <1>6, <1>8, <2>1 DEF Chain
<1>10. ToSet(us) = ToSet(units) \cup {n + 1}
  BY <1>1, <1>2, <1>3, <1>4, <1>5, <1>6
<1> QED
  BY <1>9, <1>10 DEF us

\* updateLoopbackVisibility changes the loopback alone.
LEMMA VisibleUnits ==
  ASSUME NEW us, NEW un \in Seq(UnitState)
  PROVE  /\ Visible(us, un) \in Seq(UnitState) /\ Len(Visible(us, un)) = Len(un)
         /\ \A v \in 1 .. Len(un) : /\ Visible(us, un)[v].key = un[v].key
                                    /\ Visible(us, un)[v].bindings = un[v].bindings
                                    /\ Visible(us, un)[v].designated = un[v].designated
<1> DEFINE new(v) == [un[v] EXCEPT !.loopback = @ /\ us # <<>> /\ v = Last(us)]
<1>1. Len(un) \in Nat /\ DOMAIN un = 1 .. Len(un)
  BY LenProperties
<1>2. ASSUME NEW v \in 1 .. Len(un)
      PROVE  /\ new(v) \in UnitState /\ new(v).key = un[v].key
             /\ new(v).bindings = un[v].bindings /\ new(v).designated = un[v].designated
  <2>1. un[v] \in UnitState
    BY ElementOfSeq
  <2> QED
    BY <2>1 DEF UnitState
<1> HIDE DEF new
<1>3. Visible(us, un) = [v \in 1 .. Len(un) |-> new(v)]
  BY <1>1 DEF Visible, new
<1>4. [v \in 1 .. Len(un) |-> new(v)] \in Seq(UnitState)
  BY <1>1, <1>2, IsASeq
<1> QED
  BY <1>1, <1>2, <1>3, <1>4

-----------------------------------------------------------------------------
(***************************************************************************)
(* The types, in the form in which the steps keep them.                    *)
(***************************************************************************)
EngineState(n, s) == [running : BOOLEAN, ctx : 0 .. n, node : 0 .. n, play : 0 .. n,
                      source : 0 .. n, mic : {None} \cup s]
OneSlot(us, un) ==
  \A u, v \in ToSet(us) : un[u].designated /\ un[v].designated => u = v

Chained ==
  /\ unit \in Seq(UnitState) /\ Chain(units, Len(unit)) /\ OneSlot(units, unit)
  /\ sampling \subseteq ToSet(units)

Linked ==
  /\ contexts \in Seq(ContextState) /\ ops \in Seq(HandlerState)
  /\ engine \in EngineState(Len(contexts), streams)
  /\ \A i \in 1 .. Len(ops) : /\ ops[i].on \in 0 .. Len(contexts)
                              /\ ops[i].at \in {"chain", "playback"} => ops[i].on # None

Loading ==
  \A i \in 1 .. Len(ops) :
    ops[i].at = "loading" => ops[i].unit \in 1 .. Len(unit) /\ ops[i].key \in Keys

Shown ==
  /\ ui \in [text : {"start", "stop"}, disabled : BOOLEAN, rebuilding : BOOLEAN]
  /\ left \in [clicks : 0 .. Clicks, fails : 0 .. Fails]
  /\ trouble \subseteq {"overlap", "failed", "cut", "crossed", "unloaded"}

\* rebuildInProgress belongs to one handler, from its stop of the engine to its end.
Rebuilds ==
  /\ \A i \in 1 .. Len(ops) : /\ InEngine(i) => ops[i].kind \in {"click", "rebuild"}
                              /\ ops[i].kind = "rebuild" => InEngine(i) /\ ui.rebuilding
  /\ ui.rebuilding => \E i \in 1 .. Len(ops) : ops[i].kind = "rebuild"
  /\ \A i, j \in 1 .. Len(ops) : ops[i].kind = "rebuild" /\ ops[j].kind = "rebuild" => i = j

Typed == Chained /\ Linked /\ Loading /\ Shown /\ Rebuilds

\* The end of a handler is a state of one.
LEMMA OverState == Over \in HandlerState /\ Over.kind = "over" /\ Over.at = "done" /\ Over.on = 0
BY DEF Over, Handler, HandlerState, None

\* What the state of a handler says of it.
LEMMA HandlerFacts ==
  ASSUME Linked, NEW i \in 1 .. Len(ops)
  PROVE  /\ ops[i] \in HandlerState /\ Len(ops) \in Nat /\ Len(contexts) \in Nat
         /\ DOMAIN ops = 1 .. Len(ops) /\ DOMAIN contexts = 1 .. Len(contexts)
BY ElementOfSeq, LenProperties DEF Linked

\* More contexts keep the numbers of the others.
LEMMA LinkedStep ==
  ASSUME Linked, NEW i, NEW h, Step(i, h), contexts' \in Seq(ContextState),
         Len(contexts) <= Len(contexts'), engine' \in EngineState(Len(contexts'), streams'),
         h.on \in 0 .. Len(contexts'), h.at \in {"chain", "playback"} => h.on # None
  PROVE  Linked'
<1>1. Len(contexts) \in Nat /\ Len(contexts') \in Nat /\ Len(ops) \in Nat
  BY LenProperties DEF Linked
<1>2. ASSUME NEW j \in 1 .. Len(ops')
      PROVE  ops'[j].on \in 0 .. Len(contexts')
             /\ (ops'[j].at \in {"chain", "playback"} => ops'[j].on # None)
  <2>1. CASE j = i
    BY <2>1 DEF Step
  <2>2. CASE j # i
    <3>1. j \in 1 .. Len(ops) /\ ops'[j] = ops[j]
      BY <1>1, <2>2 DEF Step
    <3>2. ops[j].on \in 0 .. Len(contexts)
      BY <3>1 DEF Linked
    <3>3. ops[j].on \in 0 .. Len(contexts')
      BY <1>1, <3>2
    <3> QED
      BY <3>1, <3>3 DEF Linked
  <2> QED
    BY <2>1, <2>2
<1> QED
  BY <1>2 DEF Linked, Step

\* A handler that does not wait for a module, or waits for one of a unit there is.
LEMMA LoadingStep ==
  ASSUME Linked, Loading, NEW i, NEW h, Step(i, h), Len(unit) \in Nat, Len(unit') \in Nat,
         Len(unit) <= Len(unit'),
         h.at = "loading" => h.unit \in 1 .. Len(unit') /\ h.key \in Keys
  PROVE  Loading'
<1>1. Len(ops) \in Nat
  BY LenProperties DEF Linked
<1>2. ASSUME NEW j \in 1 .. Len(ops'), ops'[j].at = "loading"
      PROVE  ops'[j].unit \in 1 .. Len(unit') /\ ops'[j].key \in Keys
  <2>1. CASE j = i
    BY <1>2, <2>1 DEF Step
  <2>2. CASE j # i
    <3>1. j \in 1 .. Len(ops) /\ ops'[j] = ops[j]
      BY <1>1, <2>2 DEF Step
    <3>2. ops[j].unit \in 1 .. Len(unit) /\ ops[j].key \in Keys
      BY <1>2, <3>1 DEF Loading
    <3>3. ops[j].unit \in 1 .. Len(unit')
      BY <3>2
    <3> QED
      BY <3>1, <3>2, <3>3
  <2> QED
    BY <2>1, <2>2
<1> QED
  BY <1>2 DEF Loading

\* The others' part in Rebuilds.
LEMMA Others ==
  ASSUME Linked, NEW i, NEW h, Step(i, h), NEW j \in 1 .. Len(ops'), j # i
  PROVE  /\ j \in 1 .. Len(ops) /\ ops'[j] = ops[j] /\ InEngine(j)' = InEngine(j)
<1>1. Len(ops) \in Nat
  BY LenProperties DEF Linked
<1>2. j \in 1 .. Len(ops) /\ ops'[j] = ops[j]
  BY <1>1 DEF Step
<1> QED
  BY <1>2 DEF InEngine

\* A handler that is none of a rebuild, before and after.
LEMMA NoRebuild ==
  ASSUME Linked, Rebuilds, NEW i, NEW h, Step(i, h), ui'.rebuilding = ui.rebuilding,
         i \in 1 .. Len(ops) => ops[i].kind # "rebuild",
         h.kind # "rebuild", h.at \in InStates => h.kind = "click"
  PROVE  Rebuilds'
<1>1. i \in 1 .. Len(ops') /\ ops'[i] = h
  BY DEF Step
<1>2. \A j \in 1 .. Len(ops') : j # i =>
        j \in 1 .. Len(ops) /\ ops'[j] = ops[j] /\ InEngine(j)' = InEngine(j)
  BY Others
<1>3. InEngine(i)' => h.kind = "click"
  BY <1>1 DEF InEngine, InStates
<1>4. \A j \in 1 .. Len(ops) : j \in 1 .. Len(ops')
  BY LenProperties DEF Step, Linked
<1>5. ASSUME ui'.rebuilding PROVE \E j \in 1 .. Len(ops') : ops'[j].kind = "rebuild"
  <2>1. PICK j \in 1 .. Len(ops) : ops[j].kind = "rebuild"
    BY <1>5 DEF Rebuilds
  <2> QED
    BY <1>2, <1>4, <2>1
<1> QED
  BY <1>1, <1>2, <1>3, <1>5 DEF Rebuilds

\* The rebuild goes on.
LEMMA RebuildGoes ==
  ASSUME Linked, Rebuilds, NEW i \in 1 .. Len(ops), NEW h, Step(i, h),
         ui'.rebuilding = ui.rebuilding, h.kind = ops[i].kind, InEngine(i), h.at \in InStates
  PROVE  Rebuilds'
<1>1. i \in 1 .. Len(ops') /\ ops'[i] = h /\ Len(ops') = Len(ops)
  <2>1. Len(ops) \in Nat
    BY LenProperties DEF Linked
  <2> QED
    BY <2>1 DEF Step
<1>2. \A j \in 1 .. Len(ops') : j # i => ops'[j] = ops[j] /\ InEngine(j)' = InEngine(j)
  BY Others
<1>3. InEngine(i)'
  BY <1>1 DEF InEngine, InStates
<1>4. \A j \in 1 .. Len(ops) : ops'[j].kind = ops[j].kind /\ (InEngine(j)' <=> InEngine(j))
  BY <1>1, <1>2, <1>3
<1> HIDE DEF InEngine
<1> QED
  BY <1>1, <1>4 DEF Rebuilds

\* It begins.
LEMMA RebuildBegins ==
  ASSUME Linked, Rebuilds, NEW i, NEW h, Step(i, h), ~ui.rebuilding, ui'.rebuilding,
         h.kind = "rebuild", h.at \in InStates
  PROVE  Rebuilds'
<1>1. i \in 1 .. Len(ops') /\ ops'[i] = h
  BY DEF Step
<1>2. \A j \in 1 .. Len(ops') : j # i =>
        j \in 1 .. Len(ops) /\ ops'[j] = ops[j] /\ InEngine(j)' = InEngine(j)
  BY Others
<1>3. InEngine(i)'
  BY <1>1 DEF InEngine, InStates
<1>4. \A j \in 1 .. Len(ops) : ops[j].kind # "rebuild"
  BY DEF Rebuilds
<1> QED
  BY <1>1, <1>2, <1>3, <1>4 DEF Rebuilds

\* It ends.
LEMMA RebuildEnds ==
  ASSUME Linked, Rebuilds, NEW i \in 1 .. Len(ops), NEW h, Step(i, h), ops[i].kind = "rebuild",
         ~ui'.rebuilding, h.kind = "over", h.at = "done"
  PROVE  Rebuilds'
<1>1. i \in 1 .. Len(ops') /\ ops'[i] = h
  BY DEF Step
<1>2. \A j \in 1 .. Len(ops') : j # i =>
        j \in 1 .. Len(ops) /\ ops'[j] = ops[j] /\ InEngine(j)' = InEngine(j)
  BY Others
<1>3. ~InEngine(i)'
  BY <1>1 DEF InEngine, Starting
<1>4. \A j \in 1 .. Len(ops) : j # i => ops[j].kind # "rebuild"
  BY DEF Rebuilds
<1> QED
  BY <1>1, <1>2, <1>3, <1>4 DEF Rebuilds

-----------------------------------------------------------------------------
(***************************************************************************)
(* The steps of a start or a stop keep the types.                          *)
(***************************************************************************)
\* The handler ends.
LEMMA Finishes ==
  ASSUME Typed, NEW i \in 1 .. Len(ops), InEngine(i), NEW e, Started(i, e) \/ Failed(i, e),
         e \in EngineState(Len(contexts'), streams'), contexts' \in Seq(ContextState),
         Len(contexts) <= Len(contexts'), UNCHANGED <<units, unit>>,
         left' \in [clicks : 0 .. Clicks, fails : 0 .. Fails]
  PROVE  Typed' /\ Step(i, Over)
<1>1. Chained /\ Linked /\ Loading /\ Shown /\ Rebuilds
  BY DEF Typed
<1>2. Step(i, Over)
  BY <1>1, OverState, Put DEF Started, Failed, Linked
<1>3. Chained'
  BY <1>1 DEF Chained, Started, Failed
<1>4. Linked'
  <2>1. engine' = e
    BY DEF Started, Failed
  <2>2. Over.on \in 0 .. Len(contexts') /\ Over.at \notin {"chain", "playback"}
    BY OverState, LenProperties
  <2> QED
    BY <1>1, <1>2, <2>1, <2>2, LinkedStep
<1>5. Loading'
  <2>1. Len(unit) \in Nat /\ unit' = unit
    BY <1>1, LenProperties DEF Chained
  <2> QED
    BY <1>1, <1>2, <2>1, OverState, LoadingStep
<1>6. Shown'
  <2>1. ui \in [text : {"start", "stop"}, disabled : BOOLEAN, rebuilding : BOOLEAN]
    BY <1>1 DEF Shown
  <2>2. ui' \in [text : {"start", "stop"}, disabled : BOOLEAN, rebuilding : BOOLEAN]
    <3>1. CASE Started(i, e)
      BY <2>1, <3>1 DEF Started
    <3>2. CASE Failed(i, e)
      BY <2>1, <3>2 DEF Failed
    <3> QED
      BY <3>1, <3>2
  <2>3. trouble' \subseteq trouble \cup {"failed"}
    BY DEF Started, Failed
  <2> QED
    BY <1>1, <2>2, <2>3 DEF Shown
<1>7. Rebuilds'
  <2>1. ops[i].kind \in {"click", "rebuild"}
    BY <1>1 DEF Rebuilds
  <2>2. ui'.rebuilding = (ui.rebuilding /\ ops[i].kind # "rebuild")
    BY <1>1, <2>1 DEF Started, Failed, Shown
  <2>3. CASE ops[i].kind = "rebuild"
    BY <1>1, <1>2, <2>2, <2>3, OverState, RebuildEnds
  <2>4. CASE ops[i].kind # "rebuild"
    <3>1. ui'.rebuilding = ui.rebuilding
      BY <1>1, <2>2, <2>4 DEF Shown
    <3>2. Over.at \notin InStates
      BY OverState DEF InStates, Starting
    <3> QED
      BY <1>1, <1>2, <2>4, <3>1, <3>2, OverState, NoRebuild
  <2> QED
    BY <2>3, <2>4
<1> QED
  BY <1>2, <1>3, <1>4, <1>5, <1>6, <1>7 DEF Typed

\* The handler goes on.
LEMMA Goes ==
  ASSUME Typed, NEW i \in 1 .. Len(ops), InEngine(i), NEW h, Step(i, h), h.kind = ops[i].kind,
         h.at \in InStates, h.on \in 0 .. Len(contexts'),
         h.at \in {"chain", "playback"} => h.on # None,
         engine' \in EngineState(Len(contexts'), streams'), contexts' \in Seq(ContextState),
         Len(contexts) <= Len(contexts'), UNCHANGED <<units, unit, sampling, ui, left>>,
         trouble' \subseteq trouble \cup {"overlap"}
  PROVE  Typed'
<1>1. Chained /\ Linked /\ Loading /\ Shown /\ Rebuilds
  BY DEF Typed
<1>2. Chained'
  BY <1>1 DEF Chained
<1>3. Linked'
  BY <1>1, LinkedStep
<1>4. Loading'
  <2>1. Len(unit) \in Nat /\ unit' = unit
    BY <1>1, LenProperties DEF Chained
  <2>2. h.at # "loading"
    BY DEF InStates, Starting
  <2> QED
    BY <1>1, <2>1, <2>2, LoadingStep
<1>5. Shown'
  BY <1>1 DEF Shown
<1>6. Rebuilds'
  BY <1>1, RebuildGoes
<1> QED
  BY <1>2, <1>3, <1>4, <1>5, <1>6 DEF Typed

\* A worklet is registered in the context it was loaded into.
LEMMA RegistersState ==
  ASSUME Linked, NEW i \in 1 .. Len(ops), ops[i].on # None,
         NEW worklet \in {"chain", "playback"}, NEW new, new = Registers(i, worklet)
  PROVE  /\ new \in Seq(ContextState) /\ Len(new) = Len(contexts)
         /\ ops[i].on \in 1 .. Len(contexts)
         /\ new[ops[i].on][worklet] = TRUE
         /\ \A c \in 1 .. Len(contexts) : new[c].open = contexts[c].open
<1>1. ops[i].on \in 1 .. Len(contexts) /\ contexts \in Seq(ContextState)
  <2>1. ops[i].on \in 0 .. Len(contexts) /\ Len(contexts) \in Nat
    BY LenProperties DEF Linked
  <2> QED
    BY <2>1 DEF Linked, None
<1> DEFINE c == [contexts[ops[i].on] EXCEPT ![worklet] = TRUE]
<1>2. contexts[ops[i].on] \in ContextState
  BY <1>1, ElementOfSeq
<1>3. c \in ContextState /\ c[worklet] = TRUE /\ c.open = contexts[ops[i].on].open
  BY <1>2 DEF ContextState
<1>4. new = [contexts EXCEPT ![ops[i].on] = c]
  BY DEF Registers
<1> HIDE DEF c
<1>5. /\ new \in Seq(ContextState) /\ Len(new) = Len(contexts)
      /\ \A d \in 1 .. Len(contexts) : new[d] = IF d = ops[i].on THEN c ELSE contexts[d]
  BY <1>1, <1>3, <1>4, ExceptSeq
<1> QED
  BY <1>1, <1>3, <1>5

\* A handler that stands at an await of the engine, with the context it waits for.
At(g, kind, at, on) == [g EXCEPT !.kind = kind, !.at = at, !.on = on]

\* Such a handler is one.
LEMMA AtState ==
  ASSUME NEW g \in HandlerState, NEW at \in InStates, NEW on \in Nat,
         NEW kind, kind \in {g.kind, "rebuild"}
  PROVE  /\ At(g, kind, at, on) \in HandlerState /\ At(g, kind, at, on).kind = kind
         /\ At(g, kind, at, on).at = at /\ At(g, kind, at, on).on = on
BY DEF HandlerState, At

\* The handlers when handler i goes there.
Forward(os, i, at, on) == [os EXCEPT ![i].at = at, ![i].on = on]

\* They change in that handler alone.
LEMMA ForwardIs ==
  ASSUME NEW os \in Seq(HandlerState), NEW i \in 1 .. Len(os), NEW at \in InStates, NEW on \in Nat
  PROVE  /\ Forward(os, i, at, on) = [os EXCEPT ![i] = At(os[i], os[i].kind, at, on)]
         /\ os[i] \in HandlerState
<1>1. os[i] \in HandlerState /\ i \in DOMAIN os
  BY ElementOfSeq, LenProperties
<1>2. At(os[i], os[i].kind, at, on) = [[os[i] EXCEPT !.at = at] EXCEPT !.on = on]
  BY <1>1 DEF HandlerState, At
<1> QED
  BY <1>1, <1>2 DEF Forward

\* A handler goes on to await at, with context on.
Onward(i, h, at, on) == Step(i, h) /\ h.kind = ops[i].kind /\ h.at = at /\ h.on = on

\* The handler that went there.
LEMMA Moves ==
  ASSUME ops \in Seq(HandlerState), NEW i \in 1 .. Len(ops), NEW at \in InStates, NEW on \in Nat,
         ops' = Forward(ops, i, at, on)
  PROVE  \E h \in HandlerState : Onward(i, h, at, on)
<1>1. PICK h : h = At(ops[i], ops[i].kind, at, on)
  OBVIOUS
<1>2. ops[i] \in HandlerState /\ ops' = [ops EXCEPT ![i] = h]
  BY <1>1, ForwardIs
<1>3. h \in HandlerState /\ h.kind = ops[i].kind /\ h.at = at /\ h.on = on
  BY <1>1, <1>2, AtState
<1>4. Step(i, h)
  BY <1>2, <1>3, Put
<1> QED
  BY <1>3, <1>4 DEF Onward

\* A start whose context has come to life.
LEMMA ResumedIs ==
  ASSUME Linked, NEW i \in 1 .. Len(ops), Resumed(i)
  PROVE  /\ ops[i].at = "resume" /\ UNCHANGED <<units, unit, slots, contexts, streams, left>>
         /\ \/ engine.ctx = None /\ Failed(i, engine)
            \/ /\ engine.ctx # None /\ UNCHANGED <<engine, ui, sampling, trouble>>
               /\ \E h \in HandlerState : Onward(i, h, "chain", engine.ctx)
<1>1. ops[i].at = "resume" /\ UNCHANGED <<units, unit, slots, contexts, streams, left>>
  BY DEF Resumed
<1>2. CASE engine.ctx = None
  BY <1>1, <1>2 DEF Resumed
<1>3. CASE engine.ctx # None
  <2>1. /\ ops' = Forward(ops, i, "chain", engine.ctx)
        /\ UNCHANGED <<engine, ui, sampling, trouble>>
    BY <1>3 DEF Resumed, Forward
  <2>2. engine.ctx \in Nat /\ ops \in Seq(HandlerState) /\ "chain" \in InStates
    BY LenProperties DEF Linked, EngineState, InStates, Starting
  <2> QED
    BY <1>1, <1>3, <2>1, <2>2, Moves
<1> QED
  BY <1>2, <1>3

\* No context opens or closes.
SameOpen ==
  /\ contexts' \in Seq(ContextState) /\ Len(contexts') = Len(contexts)
  /\ \A c \in 1 .. Len(contexts) : contexts'[c].open = contexts[c].open

\* A start whose chain worklet is there.
LEMMA ChainLoadedIs ==
  ASSUME Linked, NEW i \in 1 .. Len(ops), ChainLoaded(i)
  PROVE  /\ ops[i].at = "chain" /\ UNCHANGED <<units, unit, slots, streams, left>> /\ SameOpen
         /\ ops[i].on \in 1 .. Len(contexts) /\ contexts'[ops[i].on].chain = TRUE
         /\ \/ (engine.ctx = None \/ ~contexts'[engine.ctx].chain) /\ Failed(i, engine)
            \/ /\ engine.ctx # None /\ engine' = [engine EXCEPT !.node = engine.ctx]
               /\ UNCHANGED <<ui, sampling, trouble>>
               /\ \E h \in HandlerState : Onward(i, h, "playback", engine.ctx)
<1>1. ops[i].at = "chain" /\ UNCHANGED <<units, unit, slots, streams, left>> /\ ops[i].on # None
  BY DEF ChainLoaded, Linked
<1>2. SameOpen /\ ops[i].on \in 1 .. Len(contexts) /\ contexts'[ops[i].on].chain = TRUE
  <2>1. contexts' = Registers(i, "chain")
    BY DEF ChainLoaded
  <2> QED
    BY <1>1, <2>1, RegistersState DEF SameOpen
<1>3. CASE engine.ctx = None \/ ~contexts'[engine.ctx].chain
  BY <1>1, <1>2, <1>3 DEF ChainLoaded
<1>4. CASE ~(engine.ctx = None \/ ~contexts'[engine.ctx].chain)
  <2>1. /\ ops' = Forward(ops, i, "playback", engine.ctx)
        /\ engine' = [engine EXCEPT !.node = engine.ctx]
        /\ UNCHANGED <<ui, sampling, trouble>>
    BY <1>4 DEF ChainLoaded, Forward
  <2>2. engine.ctx \in Nat /\ ops \in Seq(HandlerState) /\ "playback" \in InStates
    BY LenProperties DEF Linked, EngineState, InStates, Starting
  <2>3. \E h \in HandlerState : Onward(i, h, "playback", engine.ctx)
    BY <2>1, <2>2, Moves
  <2> QED
    BY <1>1, <1>2, <1>4, <2>1, <2>3
<1> QED
  BY <1>3, <1>4

\* A start whose playback worklet is there.
LEMMA PlaybackLoadedIs ==
  ASSUME Linked, NEW i \in 1 .. Len(ops), PlaybackLoaded(i)
  PROVE  /\ ops[i].at = "playback" /\ UNCHANGED <<units, unit, slots, streams, left>> /\ SameOpen
         /\ ops[i].on \in 1 .. Len(contexts) /\ contexts'[ops[i].on].playback = TRUE
         /\ \/ (engine.ctx = None \/ ~contexts'[engine.ctx].playback) /\ Failed(i, engine)
            \/ /\ engine.ctx # None /\ engine.source # None
               /\ \E e : e = [engine EXCEPT !.play = engine.ctx] /\ Runs(i, e)
            \/ /\ engine.ctx # None /\ engine.source = None
               /\ engine' = [engine EXCEPT !.play = engine.ctx] /\ UNCHANGED <<ui, sampling, trouble>>
               /\ \E h \in HandlerState : Onward(i, h, "mic", ops[i].on)
<1>1. ops[i].at = "playback" /\ UNCHANGED <<units, unit, slots, streams, left>> /\ ops[i].on # None
  BY DEF PlaybackLoaded, Linked
<1>2. SameOpen /\ ops[i].on \in 1 .. Len(contexts) /\ contexts'[ops[i].on].playback = TRUE
  <2>1. contexts' = Registers(i, "playback")
    BY DEF PlaybackLoaded
  <2> QED
    BY <1>1, <2>1, RegistersState DEF SameOpen
<1>3. PICK e : e = [engine EXCEPT !.play = engine.ctx]
  OBVIOUS
<1>4. CASE engine.ctx = None \/ ~contexts'[engine.ctx].playback
  BY <1>1, <1>2, <1>4 DEF PlaybackLoaded
<1>5. CASE ~(engine.ctx = None \/ ~contexts'[engine.ctx].playback) /\ engine.source # None
  <2>1. Runs(i, e)
    BY <1>3, <1>5 DEF PlaybackLoaded
  <2> QED
    BY <1>1, <1>2, <1>3, <1>5, <2>1
<1>6. CASE ~(engine.ctx = None \/ ~contexts'[engine.ctx].playback) /\ engine.source = None
  <2>1. /\ ops' = [ops EXCEPT ![i].at = "mic"] /\ engine' = e
        /\ UNCHANGED <<ui, sampling, trouble>>
    BY <1>3, <1>6 DEF PlaybackLoaded
  <2>2. "mic" \in InStates /\ ops[i].on \in Nat /\ ops \in Seq(HandlerState)
    BY <1>2 DEF InStates, Starting, Linked
  <2>3. ops' = Forward(ops, i, "mic", ops[i].on)
    <3>1. ops[i] \in HandlerState /\ i \in DOMAIN ops
      BY HandlerFacts
    <3>2. [[ops[i] EXCEPT !.at = "mic"] EXCEPT !.on = ops[i].on] = [ops[i] EXCEPT !.at = "mic"]
      BY <3>1 DEF HandlerState
    <3> QED
      BY <2>1, <3>1, <3>2 DEF Forward
  <2>4. \E h \in HandlerState : Onward(i, h, "mic", ops[i].on)
    BY <2>2, <2>3, Moves
  <2> QED
    BY <1>1, <1>2, <1>3, <1>6, <2>1, <2>4
<1> QED
  BY <1>4, <1>5, <1>6

\* The engine after the steps of a start and a stop.
Gone(e) == [e EXCEPT !.ctx = None, !.node = None, !.play = None, !.source = None]

\* They are states of an engine, with one context more or one stream less.
LEMMA NewEngine ==
  ASSUME NEW n \in Nat, NEW s, NEW e \in EngineState(n, s)
  PROVE  /\ [e EXCEPT !.ctx = n + 1] \in EngineState(n + 1, s)
         /\ Gone(e) \in EngineState(n, s)
         /\ [e EXCEPT !.running = FALSE, !.mic = None] \in EngineState(n, s \ {e.mic})
         /\ [e EXCEPT !.node = e.ctx] \in EngineState(n, s)
         /\ [e EXCEPT !.play = e.ctx] \in EngineState(n, s)
<1>1. [e EXCEPT !.ctx = n + 1] \in EngineState(n + 1, s)
  <2>1. \A m \in 0 .. n : m \in 0 .. n + 1
    OBVIOUS
  <2>2. n + 1 \in 0 .. n + 1
    OBVIOUS
  <2>3. e \in EngineState(n + 1, s)
    BY <2>1 DEF EngineState
  <2>4. PICK m : m = n + 1
    OBVIOUS
  <2>5. [e EXCEPT !.ctx = m] \in EngineState(m, s)
    BY <2>2, <2>3, <2>4 DEF EngineState
  <2> QED
    BY <2>4, <2>5
<1>2. Gone(e) \in EngineState(n, s)
  <2>1. PICK a : a = [e EXCEPT !.ctx = None]
    OBVIOUS
  <2>2. a \in EngineState(n, s)
    BY <2>1 DEF EngineState, None
  <2>3. PICK b : b = [a EXCEPT !.node = None]
    OBVIOUS
  <2>4. b \in EngineState(n, s)
    BY <2>2, <2>3 DEF EngineState, None
  <2>5. PICK c : c = [b EXCEPT !.play = None]
    OBVIOUS
  <2>6. c \in EngineState(n, s)
    BY <2>4, <2>5 DEF EngineState, None
  <2>7. [c EXCEPT !.source = None] \in EngineState(n, s)
    BY <2>6 DEF EngineState, None
  <2> QED
    BY <2>1, <2>3, <2>5, <2>7 DEF Gone
<1>3. [e EXCEPT !.running = FALSE, !.mic = None] \in EngineState(n, s \ {e.mic})
  BY DEF EngineState, None
<1>4. [e EXCEPT !.node = e.ctx] \in EngineState(n, s)
  BY DEF EngineState
<1>5. [e EXCEPT !.play = e.ctx] \in EngineState(n, s)
  BY DEF EngineState
<1> QED
  BY <1>1, <1>2, <1>3, <1>4, <1>5

\* The steps of a start, one by one.
LEMMA ResumedTyped ==
  ASSUME Typed, NEW i \in 1 .. Len(ops), Resumed(i)
  PROVE  Typed'
<1>1. Linked /\ Shown /\ InEngine(i)
  BY DEF Typed, Resumed, InEngine, Starting
<1>2. /\ contexts \in Seq(ContextState) /\ Len(contexts) \in Nat
      /\ engine \in EngineState(Len(contexts), streams) /\ engine.ctx \in 0 .. Len(contexts)
  BY <1>1, LenProperties DEF Linked, EngineState
<1>3. UNCHANGED <<units, unit, contexts, streams, left>>
  BY DEF Resumed
<1>4. left' \in [clicks : 0 .. Clicks, fails : 0 .. Fails]
  BY <1>1, <1>3 DEF Shown
<1>5. CASE Failed(i, engine)
  BY <1>1, <1>2, <1>3, <1>4, <1>5, Finishes
<1>6. CASE /\ engine.ctx # None /\ UNCHANGED <<engine, ui, sampling, trouble>>
           /\ \E h \in HandlerState : Onward(i, h, "chain", engine.ctx)
  <2>1. PICK h : Onward(i, h, "chain", engine.ctx)
    BY <1>6
  <2>2. "chain" \in InStates
    BY DEF InStates, Starting
  <2> QED
    BY <1>1, <1>2, <1>3, <1>6, <2>1, <2>2, Goes DEF Onward
<1> QED
  BY <1>1, <1>5, <1>6, ResumedIs

\* The chain worklet is there: the types stay.
LEMMA ChainLoadedTyped ==
  ASSUME Typed, NEW i \in 1 .. Len(ops), ChainLoaded(i)
  PROVE  Typed'
<1>1. Linked /\ Shown /\ InEngine(i)
  BY DEF Typed, ChainLoaded, InEngine, Starting
<1>2. /\ Len(contexts) \in Nat /\ contexts' \in Seq(ContextState) /\ Len(contexts') = Len(contexts)
      /\ engine \in EngineState(Len(contexts), streams) /\ engine.ctx \in 0 .. Len(contexts)
  BY <1>1, ChainLoadedIs, LenProperties DEF Linked, EngineState, SameOpen
<1>3. UNCHANGED <<units, unit, streams, left>>
  BY DEF ChainLoaded
<1>4. left' \in [clicks : 0 .. Clicks, fails : 0 .. Fails]
  BY <1>1, <1>3 DEF Shown
<1>5. CASE Failed(i, engine)
  BY <1>1, <1>2, <1>3, <1>4, <1>5, Finishes
<1>6. CASE /\ engine.ctx # None /\ engine' = [engine EXCEPT !.node = engine.ctx]
           /\ UNCHANGED <<ui, sampling, trouble>>
           /\ \E h \in HandlerState : Onward(i, h, "playback", engine.ctx)
  <2>1. PICK h : Onward(i, h, "playback", engine.ctx)
    BY <1>6
  <2>2. "playback" \in InStates
    BY DEF InStates, Starting
  <2>3. engine' \in EngineState(Len(contexts'), streams')
    BY <1>2, <1>3, <1>6, NewEngine
  <2>4. Len(contexts) <= Len(contexts') /\ h.on \in 0 .. Len(contexts')
    BY <1>2, <2>1 DEF Onward
  <2> QED
    BY <1>1, <1>2, <1>3, <1>6, <2>1, <2>2, <2>3, <2>4, Goes DEF Onward
<1> QED
  BY <1>1, <1>5, <1>6, ChainLoadedIs

\* A handler whose start returns.
LEMMA RunsTyped ==
  ASSUME Typed, NEW i \in 1 .. Len(ops), InEngine(i), NEW e, Runs(i, e),
         e \in EngineState(Len(contexts'), streams'), contexts' \in Seq(ContextState),
         Len(contexts) <= Len(contexts'), UNCHANGED <<units, unit, left>>
  PROVE  Typed'
<1>1. PICK f : f = [e EXCEPT !.running = TRUE]
  OBVIOUS
<1>2. f \in EngineState(Len(contexts'), streams')
  BY <1>1 DEF EngineState
<1>3. Started(i, f) \/ Failed(i, f)
  BY <1>1 DEF Runs
<1>4. left' \in [clicks : 0 .. Clicks, fails : 0 .. Fails]
  BY DEF Typed, Shown
<1> QED
  BY <1>2, <1>3, <1>4, Finishes

\* The playback worklet is there: the types stay.
LEMMA PlaybackLoadedTyped ==
  ASSUME Typed, NEW i \in 1 .. Len(ops), PlaybackLoaded(i)
  PROVE  Typed'
<1>1. Linked /\ Shown /\ InEngine(i)
  BY DEF Typed, PlaybackLoaded, InEngine, Starting
<1>2. /\ Len(contexts) \in Nat /\ contexts' \in Seq(ContextState) /\ Len(contexts') = Len(contexts)
      /\ engine \in EngineState(Len(contexts), streams) /\ ops[i].on \in 0 .. Len(contexts)
  BY <1>1, PlaybackLoadedIs, LenProperties DEF Linked, SameOpen
<1>3. UNCHANGED <<units, unit, streams, left>>
  BY DEF PlaybackLoaded
<1>4. left' \in [clicks : 0 .. Clicks, fails : 0 .. Fails]
  BY <1>1, <1>3 DEF Shown
<1>5. CASE Failed(i, engine)
  BY <1>1, <1>2, <1>3, <1>4, <1>5, Finishes
<1>6. PICK e : e = [engine EXCEPT !.play = engine.ctx]
  OBVIOUS
<1>7. e \in EngineState(Len(contexts'), streams')
  BY <1>2, <1>3, <1>6, NewEngine
<1>8. CASE Runs(i, e)
  BY <1>1, <1>2, <1>3, <1>7, <1>8, RunsTyped
<1>9. CASE /\ engine' = e /\ UNCHANGED <<ui, sampling, trouble>>
           /\ \E h \in HandlerState : Onward(i, h, "mic", ops[i].on)
  <2>1. PICK h : Onward(i, h, "mic", ops[i].on)
    BY <1>9
  <2>2. "mic" \in InStates
    BY DEF InStates, Starting
  <2>3. Len(contexts) <= Len(contexts') /\ h.on \in 0 .. Len(contexts')
    BY <1>2, <2>1 DEF Onward
  <2> QED
    BY <1>1, <1>2, <1>3, <1>7, <1>9, <2>1, <2>2, <2>3, Goes DEF Onward
<1> QED
  BY <1>1, <1>5, <1>6, <1>8, <1>9, PlaybackLoadedIs

\* The microphone is there or not: the types stay.
LEMMA MicAnswersTyped ==
  ASSUME Typed, NEW i \in 1 .. Len(ops), NEW granted \in BOOLEAN, MicAnswers(i, granted)
  PROVE  Typed'
<1>1. Linked /\ Shown /\ InEngine(i)
  BY DEF Typed, MicAnswers, InEngine, Starting
<1>2. /\ Len(contexts) \in Nat /\ contexts' = contexts /\ contexts \in Seq(ContextState)
      /\ engine \in EngineState(Len(contexts), streams)
  BY <1>1, LenProperties DEF Linked, MicAnswers
<1>3. UNCHANGED <<units, unit, left>>
  BY DEF MicAnswers
<1>4. PICK e : e = IF granted THEN [engine EXCEPT !.mic = i, !.source = engine.ctx] ELSE engine
  OBVIOUS
<1>5. Runs(i, e) /\ streams' = IF granted THEN streams \cup {i} ELSE streams
  BY <1>4 DEF MicAnswers
<1>6. e \in EngineState(Len(contexts'), streams')
  <2>1. CASE granted
    <3>1. [engine EXCEPT !.mic = i, !.source = engine.ctx] \in EngineState(Len(contexts), streams \cup {i})
      BY <1>2 DEF EngineState
    <3> QED
      BY <1>2, <1>4, <1>5, <2>1, <3>1
  <2>2. CASE ~granted
    BY <1>2, <1>4, <1>5, <2>2
  <2> QED
    BY <2>1, <2>2
<1> QED
  <2>1. Len(contexts) <= Len(contexts') /\ contexts' \in Seq(ContextState)
    BY <1>2
  <2>2. Runs(i, e) /\ InEngine(i)
    BY <1>1, <1>5
  <2> QED
    BY <1>3, <1>6, <2>1, <2>2, RunsTyped

\* A worklet does not load: the types stay.
LEMMA WorkletFailsTyped ==
  ASSUME Typed, NEW i \in 1 .. Len(ops), WorkletFails(i)
  PROVE  Typed'
<1>1. Linked /\ Shown /\ InEngine(i)
  BY DEF Typed, WorkletFails, InEngine, Starting
<1>2. /\ Len(contexts) \in Nat /\ contexts' = contexts /\ contexts \in Seq(ContextState)
      /\ engine \in EngineState(Len(contexts), streams) /\ streams' = streams
  BY <1>1, LenProperties DEF Linked, WorkletFails
<1>3. UNCHANGED <<units, unit>> /\ Failed(i, engine)
  BY DEF WorkletFails
<1>4. left' \in [clicks : 0 .. Clicks, fails : 0 .. Fails]
  BY <1>1, PageAssumption DEF Shown, WorkletFails
<1> QED
  BY <1>1, <1>2, <1>3, <1>4, Finishes

\* A handler other than a rebuild's ends, and the engine has lost its context or none.
LEMMA ClickEnds ==
  ASSUME Typed, NEW i \in 1 .. Len(ops), ops[i].kind = "click", ops' = [ops EXCEPT ![i] = Over],
         engine' \in EngineState(Len(contexts'), streams'), contexts' \in Seq(ContextState),
         Len(contexts) <= Len(contexts'), UNCHANGED <<units, unit, sampling, left, trouble>>,
         ui' = ui \/ ui' = [ui EXCEPT !.text = "start"]
  PROVE  Typed' /\ Step(i, Over)
<1>1. Chained /\ Linked /\ Loading /\ Shown /\ Rebuilds
  BY DEF Typed
<1>2. Step(i, Over)
  BY <1>1, OverState, Put DEF Linked
<1>3. Chained'
  BY <1>1 DEF Chained
<1>4. Linked'
  <2>1. Over.on \in 0 .. Len(contexts') /\ Over.at \notin {"chain", "playback"}
    BY OverState, LenProperties
  <2> QED
    BY <1>1, <1>2, <2>1, LinkedStep
<1>5. Loading'
  <2>1. Len(unit) \in Nat /\ unit' = unit
    BY <1>1, LenProperties DEF Chained
  <2> QED
    BY <1>1, <1>2, <2>1, OverState, LoadingStep
<1>6. Shown' /\ ui'.rebuilding = ui.rebuilding
  BY <1>1 DEF Shown
<1>7. Rebuilds'
  <2>1. Over.at \notin InStates
    BY OverState DEF InStates, Starting
  <2> QED
    BY <1>1, <1>2, <1>6, <2>1, OverState, NoRebuild
<1> QED
  BY <1>2, <1>3, <1>4, <1>5, <1>6, <1>7 DEF Typed

\* The number of a new context, and what the engine and the handler hold of it.
LEMMA NewContextState ==
  ASSUME NEW i, NEW e, NEW os, NEW cs \in Seq(ContextState), NewContext(i, e, os, cs)
  PROVE  /\ Len(cs) \in Nat /\ Len(contexts') = Len(cs) + 1 /\ contexts' \in Seq(ContextState)
         /\ \A c \in 1 .. Len(cs) : contexts'[c] = cs[c]
         /\ contexts'[Len(cs) + 1] = Context
         /\ engine' = [e EXCEPT !.ctx = Len(cs) + 1]
         /\ \E at \in {"resume", "chain"} : ops' = Forward(os, i, at, Len(cs) + 1)
         /\ trouble' = trouble \cup Meets(i)
         /\ trouble \subseteq trouble' /\ trouble' \subseteq trouble \cup {"overlap"}
<1>1. Context \in ContextState
  BY DEF Context, ContextState
<1>2. contexts' = Append(cs, Context)
  BY DEF NewContext
<1>3. /\ Append(cs, Context) \in Seq(ContextState) /\ Len(Append(cs, Context)) = Len(cs) + 1
      /\ \A c \in 1 .. Len(cs) : Append(cs, Context)[c] = cs[c]
      /\ Append(cs, Context)[Len(cs) + 1] = Context
  BY <1>1, AppendProperties
<1>4. Len(contexts') = Len(cs) + 1
  BY <1>2, <1>3
<1>5. /\ engine' = [e EXCEPT !.ctx = Len(cs) + 1]
      /\ \E at \in {"resume", "chain"} : ops' = Forward(os, i, at, Len(cs) + 1)
  BY <1>4 DEF NewContext, Forward
<1>6. trouble' = trouble \cup Meets(i)
  BY DEF NewContext
<1>7. Meets(i) \subseteq {"overlap"}
  BY DEF Meets
<1> QED
  BY <1>2, <1>3, <1>5, <1>6, <1>7, LenProperties

\* A context is closed.
Shut(i) ==
  IF ops[i].on = None THEN contexts ELSE [contexts EXCEPT ![ops[i].on].open = FALSE]

\* Only that context closes.
LEMMA ClosedState ==
  ASSUME Linked, NEW i \in 1 .. Len(ops), NEW cs, cs = Shut(i)
  PROVE  /\ cs \in Seq(ContextState) /\ Len(cs) = Len(contexts)
         /\ \A c \in 1 .. Len(cs) : cs[c].open = (contexts[c].open /\ c # ops[i].on)
         /\ \A c \in 1 .. Len(cs) : cs[c].chain = contexts[c].chain /\ cs[c].playback = contexts[c].playback
<1>1. Len(contexts) \in Nat /\ contexts \in Seq(ContextState) /\ ops[i].on \in 0 .. Len(contexts)
  BY LenProperties DEF Linked
<1>2. \A c \in 1 .. Len(contexts) : contexts[c] \in ContextState
  BY <1>1, ElementOfSeq
<1>3. CASE ops[i].on = None
  <2>1. \A c \in 1 .. Len(contexts) : c # 0 /\ contexts[c].open \in BOOLEAN
    BY <1>2 DEF ContextState
  <2> QED
    BY <1>1, <1>3, <2>1 DEF None, Shut
<1>4. CASE ops[i].on # None
  <2>1. ops[i].on \in 1 .. Len(contexts)
    BY <1>1, <1>4 DEF None
  <2>2. PICK k : k = [contexts[ops[i].on] EXCEPT !.open = FALSE]
    OBVIOUS
  <2>3. /\ k \in ContextState /\ k.open = FALSE
        /\ k.chain = contexts[ops[i].on].chain /\ k.playback = contexts[ops[i].on].playback
    BY <1>2, <2>1, <2>2 DEF ContextState
  <2>4. cs = [contexts EXCEPT ![ops[i].on] = k]
    BY <1>4, <2>2 DEF Shut
  <2>5. /\ cs \in Seq(ContextState) /\ Len(cs) = Len(contexts)
        /\ \A c \in 1 .. Len(contexts) : cs[c] = IF c = ops[i].on THEN k ELSE contexts[c]
    <3>1. k \in ContextState
      BY <2>3
    <3> QED
      BY <1>1, <2>1, <2>4, <3>1, ExceptSeq
  <2>6. \A c \in 1 .. Len(contexts) : contexts[c].open \in BOOLEAN
    BY <1>2 DEF ContextState
  <2>7. ASSUME NEW c \in 1 .. Len(cs)
        PROVE  /\ cs[c].open = (contexts[c].open /\ c # ops[i].on)
               /\ cs[c].chain = contexts[c].chain /\ cs[c].playback = contexts[c].playback
    <3>1. CASE c = ops[i].on
      BY <2>3, <2>5, <3>1
    <3>2. CASE c # ops[i].on
      <4>1. cs[c] = contexts[c] /\ contexts[c].open \in BOOLEAN
        BY <2>5, <2>6, <3>2
      <4> QED
        BY <3>2, <4>1
    <3> QED
      BY <3>1, <3>2
  <2> QED
    BY <2>5, <2>7
<1> QED
  BY <1>3, <1>4

\* What Closed does, by case.
LEMMA ClosedCases ==
  ASSUME NEW i, Closed(i)
  PROVE  /\ ops[i].at = "closing" /\ UNCHANGED <<units, unit, streams, left>>
         /\ \/ /\ ~Refused(i) /\ ops[i].kind = "click" /\ engine' = Gone(engine)
               /\ contexts' = Shut(i) /\ ui' = [ui EXCEPT !.text = "start"]
               /\ ops' = [ops EXCEPT ![i] = Over] /\ UNCHANGED <<sampling, trouble, slots>>
            \/ /\ ~Refused(i) /\ ops[i].kind # "click" /\ engine.running /\ slots' = Sync(units, unit)
               /\ Started(i, Gone(engine)) /\ contexts' = Shut(i)
            \/ /\ ~Refused(i) /\ ops[i].kind # "click" /\ ~engine.running /\ slots' = Sync(units, unit)
               /\ NewContext(i, Gone(engine), ops, Shut(i)) /\ UNCHANGED <<sampling, ui>>
            \/ /\ Refused(i) /\ ops[i].kind = "rebuild" /\ Failed(i, engine)
               /\ UNCHANGED <<slots, contexts>>
            \/ /\ Refused(i) /\ ops[i].kind # "rebuild" /\ ops' = [ops EXCEPT ![i] = Over]
               /\ UNCHANGED <<engine, contexts, ui, sampling, trouble, slots>>
<1>1. ops[i].at = "closing" /\ UNCHANGED <<units, unit, streams, left>>
  BY DEF Closed
<1>2. CASE ~Refused(i)
  <2>1. AfterStop(i, engine, ops, Shut(i))
    BY <1>2 DEF Closed, Shut
  <2>2. CASE ops[i].kind = "click"
    BY <1>1, <1>2, <2>1, <2>2 DEF AfterStop, Gone
  <2>3. CASE ops[i].kind # "click"
    <3>1. slots' = Sync(units, unit)
      BY <2>1, <2>3 DEF AfterStop
    <3>2. IF Gone(engine).running
            THEN Started(i, Gone(engine)) /\ contexts' = Shut(i)
          ELSE NewContext(i, Gone(engine), ops, Shut(i)) /\ UNCHANGED <<sampling, ui>>
      BY <2>1, <2>3 DEF AfterStop, Gone
    <3>3. Gone(engine).running <=> engine.running
      BY DEF Gone
    <3> QED
      BY <1>1, <1>2, <2>3, <3>1, <3>2, <3>3
  <2> QED
    BY <2>2, <2>3
<1>3. CASE Refused(i)
  BY <1>1, <1>3 DEF Closed
<1> QED
  BY <1>2, <1>3

\* A handler that starts the engine, and stays what it is.
LEMMA StartsAgain ==
  ASSUME Typed, NEW i \in 1 .. Len(ops), InEngine(i), NEW e, NEW cs \in Seq(ContextState),
         Len(cs) = Len(contexts), e \in EngineState(Len(contexts), streams),
         NewContext(i, e, ops, cs), UNCHANGED <<units, unit, sampling, ui, left, streams>>
  PROVE  Typed'
<1>1. /\ Len(cs) \in Nat /\ Len(contexts') = Len(cs) + 1 /\ contexts' \in Seq(ContextState)
      /\ engine' = [e EXCEPT !.ctx = Len(cs) + 1]
      /\ \E at \in {"resume", "chain"} : ops' = Forward(ops, i, at, Len(cs) + 1)
      /\ trouble' \subseteq trouble \cup {"overlap"}
  BY NewContextState
<1>2. engine' \in EngineState(Len(contexts'), streams')
  BY <1>1, NewEngine
<1>3. PICK at \in {"resume", "chain"} : ops' = Forward(ops, i, at, Len(cs) + 1)
  BY <1>1
<1>4. at \in InStates /\ Len(cs) + 1 \in Nat /\ Len(cs) + 1 # None
  BY <1>1 DEF InStates, Starting, None
<1>5. ops \in Seq(HandlerState)
  BY DEF Typed, Linked
<1>6. PICK h \in HandlerState : Onward(i, h, at, Len(cs) + 1)
  BY <1>3, <1>4, <1>5, Moves
<1>7. h.on \in 0 .. Len(contexts') /\ h.on # None /\ Len(contexts) <= Len(contexts')
  BY <1>1, <1>4, <1>6 DEF Onward
<1> QED
  BY <1>1, <1>2, <1>4, <1>6, <1>7, Goes DEF Onward

\* A stop that ends keeps the types.
LEMMA ClosedTyped ==
  ASSUME Typed, NEW i \in 1 .. Len(ops), Closed(i)
  PROVE  Typed'
<1>1. Linked /\ Shown /\ InEngine(i)
  BY DEF Typed, Closed, InEngine
<1>2. /\ Len(contexts) \in Nat /\ contexts \in Seq(ContextState)
      /\ engine \in EngineState(Len(contexts), streams)
  BY <1>1, LenProperties DEF Linked
<1>3. UNCHANGED <<units, unit, streams, left>>
  BY DEF Closed
<1>4. PICK cs : cs = Shut(i)
  OBVIOUS
<1>5. cs \in Seq(ContextState) /\ Len(cs) = Len(contexts)
  BY <1>1, <1>4, ClosedState
<1>6. PICK e : e = Gone(engine)
  OBVIOUS
<1>7. e \in EngineState(Len(contexts), streams)
  BY <1>2, <1>6, NewEngine
<1>8. left' \in [clicks : 0 .. Clicks, fails : 0 .. Fails]
  BY <1>1, <1>3 DEF Shown
<1>9. CASE /\ ops[i].kind = "click" /\ engine' = e /\ contexts' = cs
           /\ ui' = [ui EXCEPT !.text = "start"] /\ ops' = [ops EXCEPT ![i] = Over]
           /\ UNCHANGED <<sampling, trouble, slots>>
  <2>1. engine' \in EngineState(Len(contexts'), streams')
    BY <1>3, <1>5, <1>7, <1>9
  <2>2. contexts' \in Seq(ContextState) /\ Len(contexts) <= Len(contexts')
    BY <1>2, <1>5, <1>9
  <2>3. UNCHANGED <<units, unit, sampling, left, trouble>>
    BY <1>3, <1>9
  <2> QED
    BY <1>9, <2>1, <2>2, <2>3, ClickEnds
<1>10. CASE Started(i, e) /\ contexts' = cs
  BY <1>1, <1>2, <1>3, <1>5, <1>7, <1>8, <1>10, Finishes
<1>11. CASE NewContext(i, e, ops, cs) /\ UNCHANGED <<sampling, ui>>
  BY <1>1, <1>3, <1>5, <1>7, <1>11, StartsAgain
<1>12. CASE Failed(i, engine) /\ UNCHANGED <<slots, contexts>>
  BY <1>1, <1>2, <1>3, <1>8, <1>12, Finishes
<1>13. CASE /\ ops[i].kind # "rebuild" /\ ops' = [ops EXCEPT ![i] = Over]
            /\ UNCHANGED <<engine, contexts, ui, sampling, trouble, slots>>
  <2>1. ops[i].kind = "click"
    BY <1>1, <1>13 DEF Typed, Rebuilds
  <2> QED
    <3>1. engine' \in EngineState(Len(contexts'), streams')
      BY <1>2, <1>3, <1>13
    <3>2. contexts' \in Seq(ContextState) /\ Len(contexts) <= Len(contexts')
      BY <1>2, <1>13
    <3>3. UNCHANGED <<units, unit, sampling, left, trouble>> /\ ui' = ui
      BY <1>3, <1>13
    <3> QED
      BY <1>13, <2>1, <3>1, <3>2, <3>3, ClickEnds
<1> QED
  BY <1>4, <1>6, <1>9, <1>10, <1>11, <1>12, <1>13, ClosedCases

-----------------------------------------------------------------------------
(***************************************************************************)
(* What the page does keeps the types.                                     *)
(***************************************************************************)
\* os are the handlers with handler i, which is outside the engine: a new one or one that waits.
Begins(i, os) ==
  /\ ops \in Seq(HandlerState) /\ os \in Seq(HandlerState) /\ i \in 1 .. Len(os)
  /\ \/ Len(os) = Len(ops)
     \/ Len(os) = Len(ops) + 1 /\ i = Len(ops) + 1
  /\ \A j \in 1 .. Len(ops) : os[j] = ops[j]
  /\ i \in 1 .. Len(ops) => os[i].at \notin InStates

\* The handler of a Begins goes on.
LEMMA BeginsStep ==
  ASSUME NEW i, NEW os, Begins(i, os), NEW h \in HandlerState, ops' = [os EXCEPT ![i] = h]
  PROVE  Step(i, h)
<1>1. os \in Seq(HandlerState) /\ i \in 1 .. Len(os) /\ Len(ops) \in Nat
  BY LenProperties DEF Begins
<1>2. /\ [os EXCEPT ![i] = h] \in Seq(HandlerState) /\ Len([os EXCEPT ![i] = h]) = Len(os)
      /\ \A j \in 1 .. Len(os) : [os EXCEPT ![i] = h][j] = IF j = i THEN h ELSE os[j]
  BY <1>1, ExceptSeq
<1>3. ops' \in Seq(HandlerState) /\ Len(ops') = Len(os) /\ ops'[i] = h
  BY <1>1, <1>2
<1>4. \A j \in 1 .. Len(ops) : j # i => ops'[j] = ops[j]
  <2>1. \A j \in 1 .. Len(ops) : j \in 1 .. Len(os)
    BY <1>1 DEF Begins
  <2> QED
    BY <1>2, <2>1 DEF Begins
<1> QED
  BY <1>1, <1>3, <1>4 DEF Step, Begins

\* A new handler may begin.
LEMMA NewBegins ==
  ASSUME ops \in Seq(HandlerState), NEW h \in HandlerState
  PROVE  Begins(Len(ops) + 1, Append(ops, h))
<1>1. /\ Append(ops, h) \in Seq(HandlerState) /\ Len(Append(ops, h)) = Len(ops) + 1
      /\ \A j \in 1 .. Len(ops) : Append(ops, h)[j] = ops[j]
      /\ Append(ops, h)[Len(ops) + 1] = h
  BY AppendProperties
<1>2. Len(ops) \in Nat
  BY LenProperties
<1> QED
  BY <1>1, <1>2 DEF Begins

\* One whose module has arrived goes on to rebuild.
LEMMA OldBegins ==
  ASSUME Linked, NEW i \in 1 .. Len(ops), ops[i].at = "loading"
  PROVE  Begins(i, ops)
<1>1. "loading" \notin InStates
  BY DEF InStates, Starting
<1> QED
  BY <1>1 DEF Begins, Linked

\* How Rebuild ends: nothing to rebuild, or the engine is stopped and the handler waits.
Skipped(i, us, t) ==
  /\ ~engine.running \/ ui.rebuilding
  /\ Step(i, Over) /\ sampling' = sampling \cap ToSet(us) /\ trouble' = trouble \cup t
  /\ UNCHANGED <<ui, engine, streams>>

Stops(i, kind, h, t) ==
  /\ engine.running
  /\ Step(i, h) /\ h.kind = kind /\ h.at = "closing" /\ h.on = engine.ctx
  /\ sampling' = {} /\ streams' = streams \ {engine.mic}
  /\ engine' = [engine EXCEPT !.running = FALSE, !.mic = None]
  /\ trouble' = trouble \cup Meets(i) \cup t

\* The stop of the engine, seen from the handler.
LEMMA StopsEngine ==
  ASSUME Linked, NEW i, NEW os, Begins(i, os), NEW kind, kind \in {os[i].kind, "rebuild"},
         NEW new, new = [os EXCEPT ![i].kind = kind], NEW t, StopEngine(i, new, t),
         engine.running, sampling' = {}
  PROVE  \E h \in HandlerState : Stops(i, kind, h, t)
<1>1. /\ os \in Seq(HandlerState) /\ os[i] \in HandlerState /\ i \in DOMAIN os
      /\ "closing" \in InStates /\ engine.ctx \in Nat
  <2>1. os[i] \in HandlerState /\ i \in DOMAIN os
    BY ElementOfSeq, LenProperties DEF Begins
  <2>2. engine.ctx \in 0 .. Len(contexts)
    BY DEF Linked, EngineState
  <2> QED
    BY <2>1, <2>2 DEF Begins, InStates
<1>2. PICK h : h = At(os[i], kind, "closing", engine.ctx)
  OBVIOUS
<1>3. h \in HandlerState /\ h.kind = kind /\ h.at = "closing" /\ h.on = engine.ctx
  BY <1>1, <1>2, AtState
<1>4. ops' = [new EXCEPT ![i].at = "closing", ![i].on = engine.ctx]
  BY DEF StopEngine
<1>5. ops' = [os EXCEPT ![i] = h]
  <2>1. h = [[[os[i] EXCEPT !.kind = kind] EXCEPT !.at = "closing"] EXCEPT !.on = engine.ctx]
    BY <1>2 DEF At
  <2> QED
    BY <1>1, <1>4, <2>1
<1>6. Step(i, h)
  BY <1>3, <1>5, BeginsStep
<1>7. Stops(i, kind, h, t)
  BY <1>3, <1>6 DEF Stops, StopEngine
<1> QED
  BY <1>3, <1>7

\* What Rebuild does, by case.
LEMMA RebuildIs ==
  ASSUME Linked, NEW i, NEW os, Begins(i, os), NEW us, NEW un, NEW t, Rebuild(i, os, us, un, t)
  PROVE  /\ units' = us /\ unit' = un /\ slots' = Sync(us, un) /\ UNCHANGED contexts
         /\ \/ Skipped(i, us, t)
            \/ /\ ~ui.rebuilding /\ ui' = [ui EXCEPT !.rebuilding = TRUE]
               /\ \E h \in HandlerState : Stops(i, "rebuild", h, t)
<1>1. CASE engine.running /\ ~ui.rebuilding
  <2>1. PICK new : new = [os EXCEPT ![i].kind = "rebuild"]
    OBVIOUS
  <2>2. StopEngine(i, new, t) /\ sampling' = {}
    BY <1>1, <2>1 DEF Rebuild
  <2>3. \E h \in HandlerState : Stops(i, "rebuild", h, t)
    BY <1>1, <2>1, <2>2, StopsEngine
  <2> QED
    BY <1>1, <2>3 DEF Rebuild
<1>2. CASE ~(engine.running /\ ~ui.rebuilding)
  <2>1. ops' = [os EXCEPT ![i] = Over]
    BY <1>2 DEF Rebuild
  <2>2. Step(i, Over)
    BY <2>1, OverState, BeginsStep
  <2> QED
    BY <1>2, <2>2 DEF Rebuild, Skipped
<1> QED
  BY <1>1, <1>2

\* The handler of a Begins is none of a rebuild.
LEMMA NotRebuilding ==
  ASSUME Linked, Rebuilds, NEW i, NEW os, Begins(i, os), i \in 1 .. Len(ops)
  PROVE  ops[i].kind # "rebuild" /\ ~InEngine(i)
<1>1. ~InEngine(i)
  BY DEF Begins, InEngine, InStates
<1> QED
  BY <1>1 DEF Rebuilds

\* Handlers that meet leave one mark.
LEMMA Meeting == ASSUME NEW i PROVE Meets(i) \subseteq {"overlap"}
BY DEF Meets

\* The stop of the engine in a page action.
LEMMA StopsTyped ==
  ASSUME Typed, NEW i, NEW os, Begins(i, os), NEW kind \in {"click", "rebuild"}, NEW h \in HandlerState,
         NEW t, t \subseteq {"cut", "crossed"}, Stops(i, kind, h, t), UNCHANGED contexts, Chained',
         Len(unit) <= Len(unit'), left' \in [clicks : 0 .. Clicks, fails : 0 .. Fails],
         kind = "click" => ui' = ui,
         kind = "rebuild" => ~ui.rebuilding /\ ui' = [ui EXCEPT !.rebuilding = TRUE]
  PROVE  Typed'
<1>1. Linked /\ Loading /\ Shown /\ Rebuilds /\ unit \in Seq(UnitState)
  BY DEF Typed, Chained
<1>2. /\ Len(contexts) \in Nat /\ contexts' = contexts /\ contexts \in Seq(ContextState)
      /\ engine \in EngineState(Len(contexts), streams)
  BY <1>1, LenProperties DEF Linked
<1>3. Step(i, h) /\ h.kind = kind /\ h.at = "closing" /\ h.on = engine.ctx
  BY DEF Stops
<1>4. Linked'
  <2>1. engine' \in EngineState(Len(contexts'), streams')
    BY <1>2, NewEngine DEF Stops
  <2>2. h.on \in 0 .. Len(contexts')
    BY <1>2, <1>3 DEF EngineState
  <2> QED
    BY <1>1, <1>2, <1>3, <2>1, <2>2, LinkedStep
<1>5. Loading'
  <2>1. Len(unit) \in Nat /\ Len(unit') \in Nat
    BY <1>1, LenProperties DEF Chained
  <2> QED
    BY <1>1, <1>3, <2>1, LoadingStep
<1>6. Shown'
  <2>1. trouble' \subseteq trouble \cup {"overlap", "cut", "crossed"}
    BY Meeting DEF Stops
  <2>2. ui' \in [text : {"start", "stop"}, disabled : BOOLEAN, rebuilding : BOOLEAN]
    BY <1>1 DEF Shown
  <2> QED
    BY <1>1, <2>1, <2>2 DEF Shown
<1>7. Rebuilds'
  <2>1. h.at \in InStates
    BY <1>3 DEF InStates
  <2>2. CASE kind = "click"
    <3>1. i \in 1 .. Len(ops) => ops[i].kind # "rebuild"
      BY <1>1, NotRebuilding
    <3>2. h.kind # "rebuild" /\ h.kind = "click" /\ ui'.rebuilding = ui.rebuilding
      BY <1>3, <2>2
    <3> QED
      BY <1>1, <1>3, <3>1, <3>2, NoRebuild
  <2>3. CASE kind = "rebuild"
    <3>1. ui'.rebuilding
      BY <1>1, <2>3 DEF Shown
    <3> QED
      BY <1>1, <1>3, <2>1, <2>3, <3>1, RebuildBegins
  <2> QED
    BY <2>2, <2>3
<1> QED
  BY <1>4, <1>5, <1>6, <1>7 DEF Typed

\* A page action that rebuilds, with or without an engine to stop.
LEMMA RebuildTyped ==
  ASSUME Typed, NEW i, NEW os, Begins(i, os), NEW us, NEW un, NEW t, Rebuild(i, os, us, un, t),
         t \subseteq {"cut", "crossed"}, un \in Seq(UnitState), Len(unit) <= Len(un),
         Chain(us, Len(un)), OneSlot(us, un), left' \in [clicks : 0 .. Clicks, fails : 0 .. Fails]
  PROVE  Typed'
<1>1. Linked /\ Loading /\ Shown /\ Rebuilds /\ unit \in Seq(UnitState)
  BY DEF Typed, Chained
<1>2. units' = us /\ unit' = un /\ UNCHANGED contexts
  BY <1>1, RebuildIs
<1>3. CASE Skipped(i, us, t)
  <2>1. Step(i, Over) /\ UNCHANGED <<ui, engine, streams>>
    BY <1>3 DEF Skipped
  <2>2. Chained'
    BY <1>2, <1>3 DEF Skipped, Chained, OneSlot
  <2>3. Linked'
    <3>1. /\ Len(contexts) \in Nat /\ contexts' = contexts /\ contexts \in Seq(ContextState)
          /\ engine' \in EngineState(Len(contexts'), streams')
      BY <1>1, <1>2, <2>1, LenProperties DEF Linked
    <3>2. Over.on \in 0 .. Len(contexts') /\ Over.at \notin {"chain", "playback"}
      BY <3>1, OverState
    <3> QED
      BY <1>1, <2>1, <3>1, <3>2, LinkedStep
  <2>4. Loading'
    <3>1. Len(unit) \in Nat /\ Len(unit') \in Nat
      BY <1>1, <1>2, LenProperties
    <3> QED
      BY <1>1, <1>2, <2>1, <3>1, OverState, LoadingStep
  <2>5. Shown'
    BY <1>1, <1>3 DEF Shown, Skipped
  <2>6. Rebuilds'
    <3>1. i \in 1 .. Len(ops) => ops[i].kind # "rebuild"
      BY <1>1, NotRebuilding
    <3>2. Over.at \notin InStates
      BY OverState DEF InStates, Starting
    <3> QED
      BY <1>1, <2>1, <3>1, <3>2, OverState, NoRebuild
  <2> QED
    BY <2>2, <2>3, <2>4, <2>5, <2>6 DEF Typed
<1>4. CASE /\ ~ui.rebuilding /\ ui' = [ui EXCEPT !.rebuilding = TRUE]
           /\ \E h \in HandlerState : Stops(i, "rebuild", h, t)
  <2>1. PICK h \in HandlerState : Stops(i, "rebuild", h, t)
    BY <1>4
  <2>2. Chained'
    BY <1>2, <2>1 DEF Stops, Chained, OneSlot
  <2>3. PICK k \in {"click", "rebuild"} : k = "rebuild"
    OBVIOUS
  <2> QED
    BY <1>2, <1>4, <2>1, <2>2, <2>3, StopsTyped
<1> QED
  BY <1>1, <1>3, <1>4, RebuildIs

\* A click takes one of those that are left.
LEMMA ClicksLeft ==
  ASSUME Shown, left.clicks > 0, left' = [left EXCEPT !.clicks = @ - 1]
  PROVE  left' \in [clicks : 0 .. Clicks, fails : 0 .. Fails]
BY PageAssumption DEF Shown

\* Units that are shown are units there are.
LEMMA UnitFacts ==
  ASSUME Chained
  PROVE  /\ Len(unit) \in Nat /\ DOMAIN unit = 1 .. Len(unit) /\ unit \in Seq(UnitState)
         /\ \A u \in 1 .. Len(unit) : unit[u] \in UnitState
         /\ \A u \in ToSet(units) : u \in 1 .. Len(unit) /\ u \in Nat
<1>1. Len(unit) \in Nat /\ DOMAIN unit = 1 .. Len(unit) /\ \A u \in 1 .. Len(unit) : unit[u] \in UnitState
  BY LenProperties, ElementOfSeq DEF Chained
<1>2. ToSet(units) = {units[k] : k \in 1 .. Len(units)}
  BY ChainSet DEF Chained, Chain
<1>3. \A u \in ToSet(units) : u \in 1 .. Len(unit)
  BY <1>2 DEF Chained, Chain
<1> QED
  BY <1>1, <1>3 DEF Chained

\* Units that keep what makes them hardware slots.
LEMMA SameSlot ==
  ASSUME Chained, NEW us, NEW un \in Seq(UnitState), Len(unit) <= Len(un),
         ToSet(us) \subseteq ToSet(units),
         \A v \in 1 .. Len(unit) : un[v].designated = unit[v].designated
  PROVE  OneSlot(us, un)
<1>1. \A v \in ToSet(us) : v \in ToSet(units) /\ v \in 1 .. Len(unit)
  BY UnitFacts
<1> QED
  BY <1>1 DEF Chained, OneSlot

\* A new handler has what it is made with.
LEMMA HandlerIs ==
  ASSUME NEW kind \in {"add", "change", "designate", "drop", "loopback", "delete", "click"},
         NEW at \in InStates \cup {"loading", "done"}, NEW u \in Nat, NEW key \in Keys \cup {"none"}
  PROVE  /\ Handler(kind, at, u, key) \in HandlerState
         /\ Handler(kind, at, u, key).kind = kind /\ Handler(kind, at, u, key).at = at
         /\ Handler(kind, at, u, key).on = None /\ Handler(kind, at, u, key).unit = u
         /\ Handler(kind, at, u, key).key = key
BY DEF Handler, HandlerState, None

\* A new handler that ends at once.
LEMMA FreshDone ==
  ASSUME Linked, NEW kind \in {"add", "change", "designate", "drop", "loopback", "delete", "click"},
         NEW u \in Nat, NEW key \in Keys \cup {"none"}
  PROVE  Begins(Fresh, New(kind, "done", u, key))
<1>1. "done" \notin InStates /\ "done" \in InStates \cup {"loading", "done"}
  BY DEF InStates, Starting
<1>2. PICK h : h = Handler(kind, "done", u, key)
  OBVIOUS
<1>3. h \in HandlerState /\ h.at = "done"
  BY <1>1, <1>2, HandlerIs
<1>4. Begins(Len(ops) + 1, Append(ops, h))
  BY <1>1, <1>3, NewBegins DEF Linked
<1> QED
  BY <1>2, <1>4 DEF Fresh, New

\* A handler that waits for its module comes.
LEMMA WaitsTyped ==
  ASSUME Typed, NEW kind \in {"add", "change", "designate"}, NEW us, NEW un \in Seq(UnitState),
         NEW u \in 1 .. Len(un), NEW key \in Keys, Waits(kind, u, key, us, un),
         Len(unit) <= Len(un), Chain(us, Len(un)), OneSlot(us, un), sampling \subseteq ToSet(us),
         left' \in [clicks : 0 .. Clicks, fails : 0 .. Fails]
  PROVE  Typed' /\ \E h \in HandlerState : /\ Step(Fresh, h) /\ Fresh = Len(ops) + 1
                                           /\ h.at = "loading" /\ h.unit = u /\ h.key = key
<1>1. Chained /\ Linked /\ Loading /\ Shown /\ Rebuilds /\ unit \in Seq(UnitState)
  BY DEF Typed, Chained
<1>2. Len(un) \in Nat /\ u \in Nat /\ Len(ops) \in Nat /\ Len(unit) \in Nat
  BY <1>1, LenProperties DEF Linked
<1>3. PICK h : h = Handler(kind, "loading", u, key)
  OBVIOUS
<1>4. /\ h \in HandlerState /\ h.kind = kind /\ h.at = "loading" /\ h.on = None /\ h.unit = u
      /\ h.key = key
  <2>1. /\ kind \in {"add", "change", "designate", "drop", "loopback", "delete", "click"}
        /\ "loading" \in InStates \cup {"loading", "done"} /\ key \in Keys \cup {"none"}
    OBVIOUS
  <2> QED
    BY <1>2, <1>3, <2>1 DEF Handler, HandlerState, None
<1>5. Step(Fresh, h)
  <2>1. ops' = Append(ops, h) /\ ops \in Seq(HandlerState)
    BY <1>1, <1>3 DEF Waits, New, Linked
  <2> QED
    BY <1>4, <2>1, PutLast DEF Fresh
<1>6. UNCHANGED <<sampling, engine, contexts, streams, ui, trouble>> /\ units' = us /\ unit' = un
  BY DEF Waits
<1>7. Chained'
  BY <1>6 DEF Chained, OneSlot
<1>8. Linked'
  <2>1. /\ Len(contexts) \in Nat /\ contexts' = contexts /\ contexts \in Seq(ContextState)
        /\ engine' \in EngineState(Len(contexts'), streams')
    BY <1>1, <1>6, LenProperties DEF Linked
  <2>2. h.on \in 0 .. Len(contexts') /\ h.at \notin {"chain", "playback"}
    BY <1>4, <2>1 DEF None
  <2> QED
    BY <1>1, <1>5, <2>1, <2>2, LinkedStep
<1>9. Loading'
  BY <1>1, <1>2, <1>4, <1>5, <1>6, LoadingStep
<1>10. Shown'
  BY <1>1, <1>6 DEF Shown
<1>11. Rebuilds'
  <2>1. ~(Fresh \in 1 .. Len(ops))
    BY <1>2 DEF Fresh
  <2>2. h.at \notin InStates /\ h.kind # "rebuild"
    BY <1>4 DEF InStates, Starting
  <2> QED
    BY <1>1, <1>5, <1>6, <2>1, <2>2, NoRebuild
<1>12. Fresh = Len(ops) + 1
  BY DEF Fresh
<1> QED
  BY <1>4, <1>5, <1>7, <1>8, <1>9, <1>10, <1>11, <1>12 DEF Typed

\* The new handler of the start button, at its way into the engine.
LEMMA FreshClick ==
  ASSUME Linked, NEW at \in InStates, NEW os, os = New("click", at, None, "none")
  PROVE  /\ Begins(Fresh, os) /\ os[Fresh].kind = "click"
         /\ Fresh = Len(ops) + 1 /\ ~(Fresh \in 1 .. Len(ops)) /\ Len(ops) \in Nat
<1>1. PICK h : h = Handler("click", at, None, "none")
  OBVIOUS
<1>2. h \in HandlerState /\ h.kind = "click"
  BY <1>1, HandlerIs DEF None
<1>3. os = Append(ops, h) /\ Fresh = Len(ops) + 1 /\ ops \in Seq(HandlerState)
  BY <1>1 DEF New, Fresh, Linked
<1>4. Begins(Fresh, os)
  BY <1>2, <1>3, NewBegins
<1>5. Append(ops, h)[Len(ops) + 1] = h /\ Len(ops) \in Nat
  BY <1>2, <1>3, AppendProperties, LenProperties
<1> QED
  BY <1>2, <1>3, <1>4, <1>5

\* What StartClick does: it stops the engine, or starts it on a new context.
Starts(h) ==
  /\ ~engine.running /\ units # <<>>
  /\ Step(Fresh, h) /\ h.kind = "click" /\ h.at \in {"resume", "chain"} /\ h.on = Len(contexts) + 1
  /\ ui' = [ui EXCEPT !.disabled = TRUE] /\ slots' = Sync(units, unit)
  /\ contexts' \in Seq(ContextState) /\ Len(contexts') = Len(contexts) + 1
  /\ \A c \in 1 .. Len(contexts) : contexts'[c] = contexts[c]
  /\ contexts'[Len(contexts) + 1] = Context
  /\ engine' = [engine EXCEPT !.ctx = Len(contexts) + 1]
  /\ trouble' = trouble \cup Meets(Fresh)
  /\ UNCHANGED <<sampling, streams>>

\* A click on the button does one of the two.
LEMMA StartClickIs ==
  ASSUME Linked, StartClick
  PROVE  /\ ~ui.disabled /\ UNCHANGED <<units, unit>>
         /\ \/ /\ UNCHANGED <<ui, slots, contexts>>
               /\ \E h \in HandlerState : Stops(Fresh, "click", h, {})
            \/ \E h \in HandlerState : Starts(h)
<1>1. ~ui.disabled /\ UNCHANGED <<units, unit>>
  BY DEF StartClick
<1>2. CASE engine.running
  <2>1. PICK os : os = New("click", "closing", None, "none")
    OBVIOUS
  <2>2. StopEngine(Fresh, os, {}) /\ sampling' = {} /\ UNCHANGED <<ui, slots, contexts>>
    BY <1>2, <2>1 DEF StartClick
  <2>3. Begins(Fresh, os) /\ os[Fresh].kind = "click"
    BY <2>1, FreshClick DEF InStates
  <2>4. PICK new : new = [os EXCEPT ![Fresh].kind = "click"]
    OBVIOUS
  <2>5. new = os
    <3>1. os[Fresh] \in HandlerState /\ os \in Seq(HandlerState) /\ Fresh \in DOMAIN os
      BY <2>3, ElementOfSeq, LenProperties DEF Begins
    <3>2. [os[Fresh] EXCEPT !.kind = "click"] = os[Fresh]
      BY <2>3, <3>1 DEF HandlerState
    <3> QED
      BY <2>4, <3>1, <3>2, LenProperties
  <2>6. \E h \in HandlerState : Stops(Fresh, "click", h, {})
    BY <1>2, <2>2, <2>3, <2>4, <2>5, StopsEngine
  <2> QED
    BY <1>1, <2>2, <2>6
<1>3. CASE ~engine.running
  <2>1. PICK os : os = New("click", "chain", None, "none")
    OBVIOUS
  <2>2. /\ units # <<>> /\ ui' = [ui EXCEPT !.disabled = TRUE] /\ slots' = Sync(units, unit)
        /\ NewContext(Fresh, engine, os, contexts) /\ UNCHANGED <<sampling, streams>>
    BY <1>3, <2>1 DEF StartClick
  <2>3. Begins(Fresh, os) /\ os[Fresh].kind = "click"
    BY <2>1, FreshClick DEF InStates, Starting
  <2>4. contexts \in Seq(ContextState)
    BY DEF Linked
  <2>5. /\ Len(contexts) \in Nat /\ Len(contexts') = Len(contexts) + 1 /\ contexts' \in Seq(ContextState)
        /\ \A c \in 1 .. Len(contexts) : contexts'[c] = contexts[c]
        /\ contexts'[Len(contexts) + 1] = Context
        /\ engine' = [engine EXCEPT !.ctx = Len(contexts) + 1]
        /\ \E at \in {"resume", "chain"} : ops' = Forward(os, Fresh, at, Len(contexts) + 1)
        /\ trouble' = trouble \cup Meets(Fresh)
    BY <2>2, <2>4, NewContextState
  <2>6. PICK at \in {"resume", "chain"} : ops' = Forward(os, Fresh, at, Len(contexts) + 1)
    BY <2>5
  <2>7. at \in InStates /\ Len(contexts) + 1 \in Nat
    BY <2>5 DEF InStates, Starting
  <2>8. os \in Seq(HandlerState) /\ Fresh \in 1 .. Len(os)
    BY <2>3 DEF Begins
  <2>9. PICK h : h = At(os[Fresh], os[Fresh].kind, at, Len(contexts) + 1)
    OBVIOUS
  <2>10. ops' = [os EXCEPT ![Fresh] = h] /\ os[Fresh] \in HandlerState
    BY <2>6, <2>7, <2>8, <2>9, ForwardIs
  <2>11. h \in HandlerState /\ h.kind = "click" /\ h.at = at /\ h.on = Len(contexts) + 1
    BY <2>3, <2>7, <2>9, <2>10, AtState
  <2>12. Step(Fresh, h)
    BY <2>3, <2>10, <2>11, BeginsStep
  <2>13. Starts(h)
    BY <1>3, <2>2, <2>5, <2>6, <2>11, <2>12 DEF Starts
  <2> QED
    BY <1>1, <2>11, <2>13
<1> QED
  BY <1>2, <1>3

\* Either way the types stay.
LEMMA StartClickTyped ==
  ASSUME Typed, Click(StartClick)
  PROVE  Typed'
<1>1. Chained /\ Linked /\ Loading /\ Shown /\ Rebuilds /\ StartClick
  BY DEF Typed, Click
<1>2. left' \in [clicks : 0 .. Clicks, fails : 0 .. Fails] /\ UNCHANGED <<units, unit>>
  BY <1>1, ClicksLeft DEF Click, StartClick
<1>3. /\ Len(contexts) \in Nat /\ Len(ops) \in Nat /\ Len(unit) \in Nat
      /\ engine \in EngineState(Len(contexts), streams) /\ unit' = unit
  BY <1>1, <1>2, LenProperties DEF Linked, Chained
<1>4. Begins(Fresh, New("click", "closing", None, "none")) /\ ~(Fresh \in 1 .. Len(ops))
  BY <1>1, FreshClick DEF InStates
<1>5. CASE UNCHANGED <<ui, slots, contexts>> /\ \E h \in HandlerState : Stops(Fresh, "click", h, {})
  <2>1. PICK h \in HandlerState : Stops(Fresh, "click", h, {})
    BY <1>5
  <2>2. Chained'
    BY <1>1, <1>2, <2>1 DEF Stops, Chained
  <2>3. PICK k \in {"click", "rebuild"} : k = "click"
    OBVIOUS
  <2>4. PICK t : t = {}
    OBVIOUS
  <2> QED
    BY <1>2, <1>3, <1>4, <1>5, <2>1, <2>2, <2>3, <2>4, StopsTyped
<1>6. CASE \E h \in HandlerState : Starts(h)
  <2>1. PICK h \in HandlerState : Starts(h)
    BY <1>6
  <2>2. Step(Fresh, h) /\ h.kind = "click" /\ h.at \in {"resume", "chain"} /\ h.on = Len(contexts) + 1
    BY <2>1 DEF Starts
  <2>3. Chained'
    BY <1>1, <1>2, <2>1 DEF Starts, Chained
  <2>4. Linked'
    <3>1. /\ contexts' \in Seq(ContextState) /\ Len(contexts') = Len(contexts) + 1
          /\ engine' \in EngineState(Len(contexts'), streams')
      BY <1>3, <2>1, NewEngine DEF Starts
    <3>2. h.on \in 0 .. Len(contexts') /\ h.on # None /\ Len(contexts) <= Len(contexts')
      BY <1>3, <2>2, <3>1 DEF None
    <3> QED
      BY <1>1, <2>2, <3>1, <3>2, LinkedStep
  <2>5. Loading'
    BY <1>1, <1>3, <2>2, LoadingStep
  <2>6. Shown' /\ ui'.rebuilding = ui.rebuilding
    <3>1. trouble' \subseteq trouble \cup {"overlap"}
      BY <2>1, Meeting DEF Starts
    <3>2. ui' = [ui EXCEPT !.disabled = TRUE]
      BY <2>1 DEF Starts
    <3> QED
      BY <1>1, <1>2, <3>1, <3>2 DEF Shown
  <2>7. Rebuilds'
    BY <1>1, <1>4, <2>2, <2>6, NoRebuild
  <2> QED
    BY <2>3, <2>4, <2>5, <2>6, <2>7 DEF Typed
<1> QED
  BY <1>1, <1>5, <1>6, StartClickIs

\* A handler that rebuilds with units us and un, and one that waits for its module with them.
Rebuilt(i, us, un, t) ==
  /\ \E os : Begins(i, os) /\ Rebuild(i, os, us, un, t)
  /\ un \in Seq(UnitState) /\ Len(unit) <= Len(un) /\ Chain(us, Len(un)) /\ OneSlot(us, un)
  /\ t \subseteq {"cut", "crossed"}

Waiting(u, key, us, un) ==
  /\ \E kind \in {"add", "change", "designate"} : Waits(kind, u, key, us, un)
  /\ un \in Seq(UnitState) /\ Len(unit) <= Len(un) /\ Chain(us, Len(un)) /\ OneSlot(us, un)
  /\ u \in 1 .. Len(un) /\ key \in Keys /\ ToSet(units) \subseteq ToSet(us)

\* A unit of old stays what it was, but for its loopback.
SameUnit(v, un) ==
  un[v].key = unit[v].key /\ un[v].bindings = unit[v].bindings /\ un[v].designated = unit[v].designated

\* A page action that rebuilds keeps the types.
LEMMA RebuiltTyped ==
  ASSUME Typed, NEW i, NEW us, NEW un, NEW t, Rebuilt(i, us, un, t),
         left' \in [clicks : 0 .. Clicks, fails : 0 .. Fails]
  PROVE  Typed'
BY RebuildTyped DEF Rebuilt

\* So does one that waits for a module; its handler is a new one.
LEMMA WaitingTyped ==
  ASSUME Typed, NEW u, NEW key, NEW us, NEW un, Waiting(u, key, us, un),
         left' \in [clicks : 0 .. Clicks, fails : 0 .. Fails]
  PROVE  Typed' /\ \E h \in HandlerState : /\ Step(Fresh, h) /\ Fresh = Len(ops) + 1
                                           /\ h.at = "loading" /\ h.unit = u /\ h.key = key
<1>1. sampling \subseteq ToSet(us)
  BY DEF Waiting, Typed, Chained
<1> QED
  BY <1>1, WaitsTyped DEF Waiting

\* A unit is added.
LEMMA AddUnitIs ==
  ASSUME Chained, AddUnit
  PROVE  \E us, un : /\ Waiting(Len(un), "passthrough", us, un) /\ slots' = Sync(us, un)
                     /\ Len(un) = Len(unit) + 1 /\ Len(unit) \in Nat /\ us # <<>>
                     /\ ToSet(us) = ToSet(units) \cup {Len(un)}
                     /\ ~un[Len(un)].designated /\ un[Len(un)].bindings = "none"
                     /\ \A v \in 1 .. Len(unit) : SameUnit(v, un)
<1>1. /\ Len(unit) \in Nat /\ unit \in Seq(UnitState) /\ Chain(units, Len(unit))
      /\ \A u \in ToSet(units) : u \in 1 .. Len(unit)
  BY UnitFacts DEF Chained
<1>2. PICK us : us = Append(units, Len(unit) + 1)
  OBVIOUS
<1>3. PICK un : un = Visible(us, Append(unit, Unit("passthrough")))
  OBVIOUS
<1>4. /\ Len(units) < MaxUnits /\ Waits("add", Len(un), "passthrough", us, un)
      /\ slots' = Sync(us, un)
  BY <1>2, <1>3 DEF AddUnit
<1>5. PICK x : x = Unit("passthrough")
  OBVIOUS
<1>6. x \in UnitState /\ ~x.designated /\ x.bindings = "none"
  BY <1>5, PageAssumption DEF Unit, UnitState
<1>7. PICK ux : ux = Append(unit, x)
  OBVIOUS
<1>8. /\ ux \in Seq(UnitState) /\ Len(ux) = Len(unit) + 1 /\ ux[Len(unit) + 1] = x
      /\ \A v \in 1 .. Len(unit) : ux[v] = unit[v]
  BY <1>1, <1>6, <1>7, AppendProperties
<1>9. un = Visible(us, ux)
  BY <1>3, <1>5, <1>7
<1>10. /\ un \in Seq(UnitState) /\ Len(un) = Len(ux)
       /\ \A v \in 1 .. Len(ux) : /\ un[v].key = ux[v].key /\ un[v].bindings = ux[v].bindings
                                  /\ un[v].designated = ux[v].designated
  BY <1>8, <1>9, VisibleUnits
<1>11. \A v \in 1 .. Len(unit) : v \in 1 .. Len(ux)
  BY <1>1, <1>8
<1>12. \A v \in 1 .. Len(unit) : SameUnit(v, un)
  BY <1>8, <1>10, <1>11 DEF SameUnit
<1>13. /\ Len(un) = Len(unit) + 1 /\ Len(un) \in 1 .. Len(ux) /\ Len(un) \in 1 .. Len(un)
       /\ Len(unit) <= Len(un)
  BY <1>1, <1>8, <1>10
<1>14. ~un[Len(un)].designated /\ un[Len(un)].bindings = "none"
  BY <1>6, <1>8, <1>10, <1>13
<1>15. Chain(us, Len(un)) /\ ToSet(us) = ToSet(units) \cup {Len(un)}
  BY <1>1, <1>2, <1>4, <1>13, ChainAdded
<1>16. OneSlot(us, un)
  <2>1. \A u \in ToSet(us) : un[u].designated => u \in ToSet(units) /\ unit[u].designated
    BY <1>1, <1>12, <1>14, <1>15 DEF SameUnit
  <2> QED
    BY <2>1 DEF OneSlot, Chained
<1>17. us # <<>>
  <2>1. DOMAIN us = 1 .. Len(us) /\ us \in Seq(Nat)
    BY <1>15, LenProperties DEF Chain
  <2>2. ToSet(<<>>) = {}
    BY DEF ToSet
  <2> QED
    BY <1>15, <2>2
<1>18. Waiting(Len(un), "passthrough", us, un)
  BY <1>4, <1>10, <1>13, <1>15, <1>16, PageAssumption DEF Waiting
<1> QED
  BY <1>1, <1>4, <1>12, <1>13, <1>14, <1>15, <1>17, <1>18

\* A unit of the chain is changed, but for its part as a hardware slot.
Replaced(u, x) == [unit EXCEPT ![u] = x]
Changed(u, x, un) ==
  /\ un \in Seq(UnitState) /\ Len(un) = Len(unit) /\ Len(unit) \in Nat
  /\ Chain(units, Len(un)) /\ OneSlot(units, un)
  /\ un[u] = x /\ \A v \in 1 .. Len(unit) : v # u => un[v] = unit[v]

\* The chain stays one, with one hardware slot at most.
LEMMA ChangedUnit ==
  ASSUME Chained, NEW u \in 1 .. Len(unit), NEW x \in UnitState, x.designated = unit[u].designated,
         NEW un, un = Replaced(u, x)
  PROVE  Changed(u, x, un)
<1>1. /\ un \in Seq(UnitState) /\ Len(un) = Len(unit) /\ un[u] = x
      /\ \A v \in 1 .. Len(unit) : v # u => un[v] = unit[v]
  <2>1. unit \in Seq(UnitState)
    BY DEF Chained
  <2> QED
    BY <2>1, ExceptSeq DEF Replaced
<1>2. \A v \in 1 .. Len(unit) : un[v].designated = unit[v].designated
  BY <1>1
<1>3. Len(unit) \in Nat /\ Len(unit) <= Len(un) /\ Chain(units, Len(un))
  BY <1>1, UnitFacts DEF Chained
<1> QED
  BY <1>1, <1>2, <1>3, SameSlot DEF Changed

\* A unit changes its module: the hardware slot takes the name alone.
LEMMA ChangeModuleIs ==
  ASSUME Chained, Linked, NEW u \in ToSet(units), NEW key \in Keys, ChangeModule(u, key)
  PROVE  \E un : /\ Len(un) = Len(unit) /\ u \in 1 .. Len(unit)
                 /\ \A v \in 1 .. Len(unit) : v # u => SameUnit(v, un)
                 /\ un[u].designated = unit[u].designated /\ un[u].bindings = unit[u].bindings
                 /\ \/ unit[u].designated /\ Rebuilt(Fresh, units, un, {})
                    \/ ~unit[u].designated /\ Waiting(u, key, units, un) /\ UNCHANGED slots
<1>1. u \in 1 .. Len(unit) /\ u \in Nat /\ unit[u] \in UnitState
  BY UnitFacts
<1>2. PICK x : x = [unit[u] EXCEPT !.key = key]
  OBVIOUS
<1>3. x \in UnitState /\ x.designated = unit[u].designated /\ x.bindings = unit[u].bindings
  BY <1>1, <1>2 DEF UnitState
<1>4. PICK un : un = Replaced(u, x)
  OBVIOUS
<1>5. un = [unit EXCEPT ![u].key = key]
  BY <1>2, <1>4 DEF Replaced
<1>6. /\ un \in Seq(UnitState) /\ Len(un) = Len(unit) /\ Len(unit) \in Nat
      /\ Chain(units, Len(un)) /\ OneSlot(units, un)
      /\ un[u] = x /\ \A v \in 1 .. Len(unit) : v # u => un[v] = unit[v]
  <2>1. Chained /\ u \in 1 .. Len(unit) /\ x \in UnitState /\ x.designated = unit[u].designated
    BY <1>1, <1>3
  <2>2. Changed(u, x, un)
    BY <1>4, <2>1, ChangedUnit
  <2> QED
    BY <2>2 DEF Changed
<1>7. Len(unit) <= Len(un) /\ u \in 1 .. Len(un)
  BY <1>1, <1>6
<1>8. CASE unit[u].designated
  <2>1. PICK os : os = New("change", "done", u, key)
    OBVIOUS
  <2>2. Rebuild(Fresh, os, units, un, {})
    BY <1>5, <1>8, <2>1 DEF ChangeModule
  <2>3. Begins(Fresh, os)
    BY <1>1, <2>1, FreshDone
  <2>4. Rebuilt(Fresh, units, un, {})
    BY <1>6, <1>7, <2>2, <2>3 DEF Rebuilt
  <2> QED
    BY <1>1, <1>3, <1>6, <1>8, <2>4 DEF SameUnit
<1>9. CASE ~unit[u].designated
  <2>1. Waits("change", u, key, units, un) /\ UNCHANGED slots
    BY <1>5, <1>9 DEF ChangeModule
  <2>2. Waiting(u, key, units, un)
    BY <1>6, <1>7, <2>1 DEF Waiting
  <2> QED
    BY <1>1, <1>3, <1>6, <1>9, <2>1, <2>2 DEF SameUnit
<1> QED
  BY <1>8, <1>9

\* A unit becomes the hardware slot, or none any more: then it may have to wait for its module.
LEMMA SetHardwareDesignatedIs ==
  ASSUME Chained, Linked, NEW u \in ToSet(units), NEW on \in BOOLEAN, SetHardwareDesignated(u, on)
  PROVE  \E un : /\ Len(un) = Len(unit) /\ u \in 1 .. Len(unit)
                 /\ \A v \in 1 .. Len(unit) : v # u => SameUnit(v, un)
                 /\ un[u].designated = on /\ unit[u].designated = ~on
                 /\ un[u].bindings = IF on THEN "none" ELSE unit[u].bindings
                 /\ \/ (on \/ unit[u].bindings # "none") /\ Rebuilt(Fresh, units, un, {})
                    \/ /\ ~on /\ unit[u].bindings = "none"
                       /\ Waiting(u, unit[u].key, units, un) /\ UNCHANGED slots
<1>1. /\ u \in 1 .. Len(unit) /\ u \in Nat /\ unit[u] \in UnitState /\ unit[u].key \in Keys
      /\ Len(unit) \in Nat /\ \A v \in ToSet(units) : v \in 1 .. Len(unit)
  BY UnitFacts DEF UnitState
<1>2. PICK b : b = IF on THEN "none" ELSE unit[u].bindings
  OBVIOUS
<1>3. PICK x : x = [unit[u] EXCEPT !.designated = on, !.bindings = b]
  OBVIOUS
<1>4. x \in UnitState /\ x.designated = on /\ x.bindings = b
  <2>1. b \in Keys \cup {"none"}
    BY <1>1, <1>2 DEF UnitState
  <2> QED
    BY <1>1, <1>3, <2>1 DEF UnitState
<1>5. PICK un : un = [unit EXCEPT ![u] = x]
  OBVIOUS
<1>6. un = [unit EXCEPT ![u].designated = on, ![u].bindings = IF on THEN "none" ELSE @]
  <2>1. u \in DOMAIN unit
    BY UnitFacts
  <2>2. [unit[u] EXCEPT !.designated = on].bindings = unit[u].bindings
    BY <1>1 DEF UnitState
  <2> QED
    BY <1>2, <1>3, <1>5, <2>1, <2>2
<1>7. unit[u].designated # on /\ (on => \A v \in ToSet(units) : ~unit[v].designated)
  BY DEF SetHardwareDesignated
<1>8. /\ un \in Seq(UnitState) /\ Len(un) = Len(unit) /\ un[u] = x
      /\ \A v \in 1 .. Len(unit) : v # u => un[v] = unit[v]
  <2>1. unit \in Seq(UnitState)
    BY DEF Chained
  <2> QED
    BY <1>1, <1>4, <1>5, <2>1, ExceptSeq
<1>9. Chain(units, Len(un)) /\ Len(unit) <= Len(un) /\ u \in 1 .. Len(un)
  BY <1>1, <1>8 DEF Chained
<1>10. OneSlot(units, un)
  <2>1. \A v \in ToSet(units) : v # u => un[v] = unit[v]
    BY <1>1, <1>8
  <2>2. CASE on
    BY <1>7, <2>1, <2>2 DEF OneSlot
  <2>3. CASE ~on
    <3>1. \A v \in ToSet(units) : un[v].designated => v # u /\ unit[v].designated
      BY <1>4, <1>8, <2>1, <2>3
    <3> QED
      BY <3>1 DEF OneSlot, Chained
  <2> QED
    BY <2>2, <2>3
<1>11. PICK key : key = unit[u].key
  OBVIOUS
<1>12. unit[u].designated = ~on
  BY <1>1, <1>7 DEF UnitState
<1>13. \/ (on \/ unit[u].bindings # "none") /\ Rebuilt(Fresh, units, un, {})
       \/ ~on /\ unit[u].bindings = "none" /\ Waiting(u, key, units, un) /\ UNCHANGED slots
  <2>1. CASE ~on /\ unit[u].bindings = "none"
    <3>1. Waits("designate", u, key, units, un) /\ UNCHANGED slots
      BY <1>6, <1>11, <2>1 DEF SetHardwareDesignated
    <3>2. Waiting(u, key, units, un)
      BY <1>1, <1>8, <1>9, <1>10, <1>11, <3>1 DEF Waiting
    <3> QED
      BY <2>1, <3>1, <3>2
  <2>2. CASE ~(~on /\ unit[u].bindings = "none")
    <3>1. PICK os : os = New("designate", "done", u, key)
      OBVIOUS
    <3>2. Rebuild(Fresh, os, units, un, {})
      BY <1>6, <1>11, <2>2, <3>1 DEF SetHardwareDesignated
    <3>3. Begins(Fresh, os)
      BY <1>1, <1>11, <3>1, FreshDone
    <3>4. Rebuilt(Fresh, units, un, {})
      BY <1>8, <1>9, <1>10, <3>2, <3>3 DEF Rebuilt
    <3> QED
      BY <2>2, <3>4
  <2> QED
    BY <2>1, <2>2
<1> QED
  BY <1>1, <1>2, <1>4, <1>8, <1>11, <1>12, <1>13 DEF SameUnit

\* A chain of the same units or fewer, as it is shown.
LEMMA ShownChain ==
  ASSUME Chained, NEW us, Chain(us, Len(unit)), ToSet(us) \subseteq ToSet(units),
         NEW un, un = Visible(us, unit)
  PROVE  /\ un \in Seq(UnitState) /\ Len(un) = Len(unit) /\ Len(unit) <= Len(un)
         /\ Chain(us, Len(un)) /\ OneSlot(us, un)
         /\ \A v \in 1 .. Len(unit) : SameUnit(v, un)
<1>1. unit \in Seq(UnitState) /\ Len(unit) \in Nat
  BY UnitFacts
<1>2. /\ un \in Seq(UnitState) /\ Len(un) = Len(unit)
      /\ \A v \in 1 .. Len(unit) : /\ un[v].key = unit[v].key /\ un[v].bindings = unit[v].bindings
                                   /\ un[v].designated = unit[v].designated
  BY <1>1, VisibleUnits
<1>3. Len(unit) <= Len(un)
  BY <1>1, <1>2
<1>4. OneSlot(us, un)
  BY <1>2, <1>3, SameSlot
<1> QED
  BY <1>1, <1>2, <1>3, <1>4 DEF SameUnit

\* A unit is dropped on another one's place, or deleted.
LEMMA DropIs ==
  ASSUME Chained, Linked, NEW u \in ToSet(units), NEW v \in ToSet(units), Drop(u, v)
  PROVE  \E us, un : /\ Rebuilt(Fresh, us, un, {}) /\ us # <<>>
                     /\ Len(un) = Len(unit) /\ \A w \in 1 .. Len(unit) : SameUnit(w, un)
<1>1. Len(unit) \in Nat /\ u \in Nat /\ Chain(units, Len(unit))
  BY UnitFacts DEF Chained
<1>2. PICK us : us = InsertAt(RemoveAt(units, Place(u)), Place(v), u)
  OBVIOUS
<1>3. Chain(us, Len(unit)) /\ ToSet(us) \subseteq ToSet(units) /\ us # <<>>
  BY <1>1, <1>2, ChainMoved
<1>4. PICK un : un = Visible(us, unit)
  OBVIOUS
<1>5. /\ un \in Seq(UnitState) /\ Len(un) = Len(unit) /\ Len(unit) <= Len(un)
      /\ Chain(us, Len(un)) /\ OneSlot(us, un) /\ \A w \in 1 .. Len(unit) : SameUnit(w, un)
  BY <1>3, <1>4, ShownChain
<1>6. PICK os : os = New("drop", "done", u, "none")
  OBVIOUS
<1>7. Rebuild(Fresh, os, us, un, {})
  BY <1>2, <1>4, <1>6 DEF Drop
<1>8. Begins(Fresh, os)
  BY <1>1, <1>6, FreshDone
<1>9. Rebuilt(Fresh, us, un, {})
  BY <1>5, <1>7, <1>8 DEF Rebuilt
<1> QED
  BY <1>3, <1>5, <1>9

\* A unit is deleted; a running engine keeps one.
LEMMA DeleteUnitIs ==
  ASSUME Chained, Linked, NEW u \in ToSet(units), DeleteUnit(u)
  PROVE  \E us, un, t :
           /\ Rebuilt(Fresh, us, un, t) /\ t = IF us = <<>> /\ \E i \in DOMAIN ops : InEngine(i) THEN {"cut"} ELSE {}
           /\ engine.running => us # <<>>
           /\ Len(un) = Len(unit) /\ \A w \in 1 .. Len(unit) : SameUnit(w, un)
<1>1. Len(unit) \in Nat /\ u \in Nat /\ Chain(units, Len(unit)) /\ Len(units) \in Nat
  BY UnitFacts, LenProperties DEF Chained, Chain
<1>2. PICK us : us = RemoveAt(units, Place(u))
  OBVIOUS
<1>3. Chain(us, Len(unit)) /\ ToSet(us) \subseteq ToSet(units) /\ Len(us) = Len(units) - 1
  BY <1>1, <1>2, ChainWithout
<1>4. engine.running => us # <<>>
  <2>1. engine.running => ~(Len(units) <= 1)
    BY DEF DeleteUnit, MayDelete
  <2>2. Len(units) \in Nat /\ Len(us) = Len(units) - 1
    BY <1>1, <1>3
  <2>3. engine.running => Len(us) # 0
    BY <2>1, <2>2
  <2>4. Len(<<>>) = 0
    OBVIOUS
  <2> QED
    BY <2>3, <2>4
<1>5. PICK un : un = Visible(us, unit)
  OBVIOUS
<1>6. /\ un \in Seq(UnitState) /\ Len(un) = Len(unit) /\ Len(unit) <= Len(un)
      /\ Chain(us, Len(un)) /\ OneSlot(us, un) /\ \A w \in 1 .. Len(unit) : SameUnit(w, un)
  BY <1>3, <1>5, ShownChain
<1>7. PICK t : t = IF us = <<>> /\ \E i \in DOMAIN ops : InEngine(i) THEN {"cut"} ELSE {}
  OBVIOUS
<1>8. PICK os : os = New("delete", "done", u, "none")
  OBVIOUS
<1>9. Rebuild(Fresh, os, us, un, t)
  BY <1>2, <1>5, <1>7, <1>8 DEF DeleteUnit
<1>10. Begins(Fresh, os)
  BY <1>1, <1>8, FreshDone
<1>11. t \subseteq {"cut", "crossed"}
  BY <1>7
<1>12. Rebuilt(Fresh, us, un, t)
  BY <1>6, <1>9, <1>10, <1>11 DEF Rebuilt
<1> QED
  BY <1>4, <1>6, <1>7, <1>12

\* The last unit turns its loopback on or off.
LEMMA ToggleLoopbackIs ==
  ASSUME Chained, Linked, NEW u \in ToSet(units), ToggleLoopback(u)
  PROVE  \E un : /\ Rebuilt(Fresh, units, un, {})
                 /\ Len(un) = Len(unit) /\ \A w \in 1 .. Len(unit) : SameUnit(w, un)
<1>1. u \in 1 .. Len(unit) /\ u \in Nat /\ unit[u] \in UnitState
  BY UnitFacts
<1>2. PICK x : x = [unit[u] EXCEPT !.loopback = ~@]
  OBVIOUS
<1>3. /\ x \in UnitState /\ x.designated = unit[u].designated /\ x.bindings = unit[u].bindings
      /\ x.key = unit[u].key
  BY <1>1, <1>2 DEF UnitState
<1>4. PICK un : un = Replaced(u, x)
  OBVIOUS
<1>5. un = [unit EXCEPT ![u].loopback = ~@]
  BY <1>2, <1>4 DEF Replaced
<1>6. /\ un \in Seq(UnitState) /\ Len(un) = Len(unit) /\ Len(unit) \in Nat
      /\ Chain(units, Len(un)) /\ OneSlot(units, un)
      /\ un[u] = x /\ \A v \in 1 .. Len(unit) : v # u => un[v] = unit[v]
  <2>1. Chained /\ u \in 1 .. Len(unit) /\ x \in UnitState /\ x.designated = unit[u].designated
    BY <1>1, <1>3
  <2>2. Changed(u, x, un)
    BY <1>4, <2>1, ChangedUnit
  <2> QED
    BY <2>2 DEF Changed
<1>7. Len(unit) <= Len(un)
  BY <1>6
<1>8. PICK os : os = New("loopback", "done", u, "none")
  OBVIOUS
<1>9. Rebuild(Fresh, os, units, un, {})
  BY <1>5, <1>8 DEF ToggleLoopback
<1>10. Begins(Fresh, os)
  BY <1>1, <1>8, FreshDone
<1>11. Rebuilt(Fresh, units, un, {})
  BY <1>6, <1>7, <1>9, <1>10 DEF Rebuilt
<1> QED
  BY <1>3, <1>6, <1>11 DEF SameUnit

\* The unit a module is loaded for gets it.
LEMMA LoadedIs ==
  ASSUME Typed, NEW i \in 1 .. Len(ops), Loaded(i)
  PROVE  \E un, t :
           /\ Rebuilt(i, units, un, t) /\ t = (IF Crossed(i) THEN {"crossed"} ELSE {})
           /\ Len(un) = Len(unit) /\ ops[i].at = "loading" /\ left' = left
           /\ ops[i].unit \in 1 .. Len(unit) /\ ops[i].key \in Keys
           /\ \A v \in 1 .. Len(unit) : v # ops[i].unit => SameUnit(v, un)
           /\ un[ops[i].unit].designated = unit[ops[i].unit].designated
           /\ un[ops[i].unit].key = unit[ops[i].unit].key
           /\ un[ops[i].unit].bindings = ops[i].key
<1>1. ops[i].at = "loading" /\ left' = left
  BY DEF Loaded
<1>2. PICK u : u = ops[i].unit
  OBVIOUS
<1>3. PICK key : key = ops[i].key
  OBVIOUS
<1>4. Chained /\ Linked /\ u \in 1 .. Len(unit) /\ key \in Keys
  BY <1>1, <1>2, <1>3 DEF Typed, Loading
<1>5. unit[u] \in UnitState
  BY <1>4, UnitFacts
<1>6. PICK x : x = [unit[u] EXCEPT !.bindings = key]
  OBVIOUS
<1>7. /\ x \in UnitState /\ x.designated = unit[u].designated /\ x.key = unit[u].key
      /\ x.bindings = key
  BY <1>4, <1>5, <1>6 DEF UnitState
<1>8. PICK un : un = Replaced(u, x)
  OBVIOUS
<1>9. un = [unit EXCEPT ![ops[i].unit].bindings = ops[i].key]
  BY <1>2, <1>3, <1>6, <1>8 DEF Replaced
<1>10. /\ un \in Seq(UnitState) /\ Len(un) = Len(unit) /\ Len(unit) \in Nat
       /\ Chain(units, Len(un)) /\ OneSlot(units, un)
       /\ un[u] = x /\ \A v \in 1 .. Len(unit) : v # u => un[v] = unit[v]
  <2>1. Chained /\ u \in 1 .. Len(unit) /\ x \in UnitState /\ x.designated = unit[u].designated
    BY <1>4, <1>7
  <2>2. Changed(u, x, un)
    BY <1>8, <2>1, ChangedUnit
  <2> QED
    BY <2>2 DEF Changed
<1>11. PICK t : t = IF Crossed(i) THEN {"crossed"} ELSE {}
  OBVIOUS
<1>12. Rebuild(i, ops, units, un, t)
  BY <1>9, <1>11 DEF Loaded
<1>13. Begins(i, ops)
  BY <1>1, <1>4, OldBegins
<1>14. Len(unit) <= Len(un) /\ t \subseteq {"cut", "crossed"}
  BY <1>10, <1>11
<1>15. Rebuilt(i, units, un, t)
  BY <1>10, <1>12, <1>13, <1>14 DEF Rebuilt
<1> QED
  BY <1>1, <1>2, <1>3, <1>4, <1>7, <1>10, <1>11, <1>15 DEF SameUnit

\* A module that does not load leaves the types.
LEMMA LoadFailsTyped ==
  ASSUME Typed, NEW i \in 1 .. Len(ops), LoadFails(i)
  PROVE  Typed' /\ Step(i, Over)
<1>1. Chained /\ Linked /\ Loading /\ Shown /\ Rebuilds
  BY DEF Typed
<1>2. /\ ops' = [ops EXCEPT ![i] = Over] /\ ops[i].at = "loading" /\ trouble' = trouble \cup {"unloaded"}
      /\ UNCHANGED <<units, unit, slots, sampling, engine, contexts, streams, ui>>
  BY DEF LoadFails
<1>3. Step(i, Over)
  BY <1>1, <1>2, OverState, Put DEF Linked
<1>4. Chained'
  BY <1>1, <1>2 DEF Chained
<1>5. Linked'
  <2>1. /\ Len(contexts) \in Nat /\ contexts' = contexts /\ contexts \in Seq(ContextState)
        /\ engine' \in EngineState(Len(contexts'), streams')
    BY <1>1, <1>2, LenProperties DEF Linked
  <2>2. Over.on \in 0 .. Len(contexts') /\ Over.at \notin {"chain", "playback"}
    BY <2>1, OverState
  <2> QED
    BY <1>1, <1>3, <2>1, <2>2, LinkedStep
<1>6. Loading'
  <2>1. Len(unit) \in Nat /\ unit' = unit
    BY <1>1, <1>2, LenProperties DEF Chained
  <2> QED
    BY <1>1, <1>3, <2>1, OverState, LoadingStep
<1>7. Shown'
  <2>1. left' \in [clicks : 0 .. Clicks, fails : 0 .. Fails]
    BY <1>1, PageAssumption DEF LoadFails, Shown
  <2> QED
    BY <1>1, <1>2, <2>1 DEF Shown
<1>8. Rebuilds'
  <2>1. ops[i].kind # "rebuild"
    <3>1. ~InEngine(i)
      BY <1>2 DEF InEngine, Starting
    <3> QED
      BY <1>1, <3>1 DEF Rebuilds
  <2>2. Over.at \notin InStates
    BY OverState DEF InStates, Starting
  <2> QED
    BY <1>1, <1>2, <1>3, <2>1, <2>2, OverState, NoRebuild
<1> QED
  BY <1>3, <1>4, <1>5, <1>6, <1>7, <1>8 DEF Typed

-----------------------------------------------------------------------------
(***************************************************************************)
(* The type invariant.                                                     *)
(***************************************************************************)
\* The page begins in them.
LEMMA TypedInit ==
  ASSUME Init
  PROVE  Typed
<1>1. PICK u : u = Unit("delay")
  OBVIOUS
<1>2. u \in UnitState /\ ~u.designated
  BY <1>1, PageAssumption DEF Unit, UnitState
<1>3. units = <<1>> /\ unit = <<u>> /\ sampling = {}
  BY <1>1 DEF Init
<1>4. /\ unit \in Seq(UnitState) /\ Len(unit) = 1 /\ unit[1] = u
      /\ units \in Seq(Nat) /\ Len(units) = 1 /\ units[1] = 1
  BY <1>2, <1>3
<1>5. Chain(units, Len(unit)) /\ ToSet(units) = {1}
  <2>1. ToSet(units) = {units[k] : k \in 1 .. 1}
    BY <1>4, ChainSet
  <2>2. ToSet(units) = {1}
    BY <1>4, <2>1
  <2> QED
    BY <1>4, <2>2, PageAssumption DEF Chain
<1>6. Chained
  BY <1>3, <1>4, <1>5 DEF Chained, OneSlot
<1>7. PICK h : h = Handler("add", "loading", 1, "delay")
  OBVIOUS
<1>8. h \in HandlerState /\ h.kind = "add" /\ h.at = "loading" /\ h.on = None /\ h.unit = 1 /\ h.key = "delay"
  BY <1>7, PageAssumption DEF Handler, HandlerState, None
<1>9. ops = <<h>> /\ contexts = <<>> /\ streams = {}
  BY <1>7 DEF Init
<1>10. ops \in Seq(HandlerState) /\ Len(ops) = 1 /\ ops[1] = h
  BY <1>8, <1>9
<1>11. contexts \in Seq(ContextState) /\ Len(contexts) = 0
  BY <1>9
<1>12. Linked
  <2>1. engine \in EngineState(0, streams)
    BY DEF Init, EngineState, None
  <2> QED
    BY <1>8, <1>10, <1>11, <2>1 DEF Linked, None
<1>13. Loading
  BY <1>4, <1>8, <1>10, PageAssumption DEF Loading
<1>14. Shown
  BY PageAssumption DEF Init, Shown
<1>15. Rebuilds
  <2>1. ~ui.rebuilding
    BY DEF Init
  <2> QED
    BY <1>8, <1>10, <2>1 DEF Rebuilds, InEngine, Starting
<1> QED
  BY <1>6, <1>12, <1>13, <1>14, <1>15 DEF Typed

\* Every action keeps them.
LEMMA TypedNext ==
  ASSUME Typed, [Next]_vars
  PROVE  Typed'
<1>1. Chained /\ Linked /\ Shown /\ DOMAIN ops = 1 .. Len(ops)
  BY LenProperties DEF Typed, Linked
<1>2. CASE Click(StartClick)
  BY <1>2, StartClickTyped
<1>3. ASSUME left.clicks > 0, left' = [left EXCEPT !.clicks = @ - 1]
      PROVE  left' \in [clicks : 0 .. Clicks, fails : 0 .. Fails]
  BY <1>1, <1>3, ClicksLeft
<1>4. CASE Click(AddUnit)
  BY <1>1, <1>3, <1>4, AddUnitIs, WaitingTyped DEF Click
<1>5. ASSUME NEW u \in ToSet(units), NEW key \in Keys, Click(ChangeModule(u, key)) PROVE Typed'
  BY <1>1, <1>3, <1>5, ChangeModuleIs, RebuiltTyped, WaitingTyped DEF Click
<1>6. ASSUME NEW u \in ToSet(units), NEW on \in BOOLEAN, Click(SetHardwareDesignated(u, on)) PROVE Typed'
  BY <1>1, <1>3, <1>6, SetHardwareDesignatedIs, RebuiltTyped, WaitingTyped DEF Click
<1>7. ASSUME NEW u \in ToSet(units), NEW v \in ToSet(units), Click(Drop(u, v)) PROVE Typed'
  BY <1>1, <1>3, <1>7, DropIs, RebuiltTyped DEF Click
<1>8. ASSUME NEW u \in ToSet(units), Click(ToggleLoopback(u)) PROVE Typed'
  BY <1>1, <1>3, <1>8, ToggleLoopbackIs, RebuiltTyped DEF Click
<1>9. ASSUME NEW u \in ToSet(units), Click(DeleteUnit(u)) PROVE Typed'
  BY <1>1, <1>3, <1>9, DeleteUnitIs, RebuiltTyped DEF Click
<1>10. ASSUME NEW i \in 1 .. Len(ops), Loaded(i) PROVE Typed'
  <2>1. left \in [clicks : 0 .. Clicks, fails : 0 .. Fails]
    BY <1>1 DEF Shown
  <2> QED
    BY <1>10, <2>1, LoadedIs, RebuiltTyped
<1>18. ASSUME NEW i \in 1 .. Len(ops), LoadFails(i) PROVE Typed'
  BY <1>18, LoadFailsTyped
<1>11. ASSUME NEW i \in 1 .. Len(ops), Resumed(i) PROVE Typed'
  BY <1>11, ResumedTyped
<1>12. ASSUME NEW i \in 1 .. Len(ops), ChainLoaded(i) PROVE Typed'
  BY <1>12, ChainLoadedTyped
<1>13. ASSUME NEW i \in 1 .. Len(ops), PlaybackLoaded(i) PROVE Typed'
  BY <1>13, PlaybackLoadedTyped
<1>14. ASSUME NEW i \in 1 .. Len(ops), NEW granted \in BOOLEAN, MicAnswers(i, granted) PROVE Typed'
  BY <1>14, MicAnswersTyped
<1>15. ASSUME NEW i \in 1 .. Len(ops), WorkletFails(i) PROVE Typed'
  BY <1>15, WorkletFailsTyped
<1>16. ASSUME NEW i \in 1 .. Len(ops), Closed(i) PROVE Typed'
  BY <1>16, ClosedTyped
<1>17. CASE UNCHANGED vars
  BY <1>17 DEF vars, Typed, Chained, Linked, Loading, Shown, Rebuilds, InEngine, OneSlot
<1> QED
  BY <1>1, <1>2, <1>3, <1>4, <1>5, <1>6, <1>7, <1>8, <1>9, <1>10, <1>11, <1>12, <1>13, <1>14,
     <1>15, <1>16, <1>17, <1>18 DEF Next

\* The types hold in every state: units are numbers of units there are, each one once in the chain with
\* one hardware slot among them; contexts and handlers are what the awaits left; rebuildInProgress is
\* set while, and only while, one handler rebuilds.
THEOREM PageTyped == Spec => []Typed
<1> QED
  BY TypedInit, TypedNext, PTL DEF Spec

\* No unit has two places in the chain.
LEMMA UnitsCount ==
  ASSUME Chained
  PROVE  Cardinality(ToSet(units)) = Len(units)
<1>1. /\ units \in Seq(Nat) /\ Len(units) \in Nat /\ ToSet(units) = {units[k] : k \in 1 .. Len(units)}
      /\ \A j, k \in 1 .. Len(units) : units[j] = units[k] => j = k
  BY ChainSet DEF Chained, Chain
<1>2. PICK S : S = ToSet(units)
  OBVIOUS
<1>3. units \in [1 .. Len(units) -> S]
  <2>1. units = [k \in 1 .. Len(units) |-> units[k]]
    BY <1>1, LenProperties
  <2>2. \A k \in 1 .. Len(units) : units[k] \in S
    BY <1>1, <1>2
  <2> QED
    BY <2>1, <2>2
<1>4. units \in Bijection(1 .. Len(units), S)
  <2>1. \A s \in S : \E k \in 1 .. Len(units) : units[k] = s
    BY <1>1, <1>2
  <2> QED
    BY <1>1, <1>3, <2>1 DEF Bijection, Injection, Surjection, IsInjective
<1>5. ExistsBijection(1 .. Len(units), S)
  BY <1>4 DEF ExistsBijection
<1> QED
  BY <1>1, <1>2, <1>5, FS_CountingElements

\* They are the type invariant of the module.
LEMMA TypedOK ==
  ASSUME Typed
  PROVE  TypeOK
<1>1. /\ Chained /\ Linked /\ Shown /\ Rebuilds /\ DOMAIN ops = 1 .. Len(ops)
      /\ DOMAIN units = 1 .. Len(units)
  BY LenProperties DEF Typed, Linked, Chained, Chain
<1>2. \A k \in DOMAIN units : units[k] \in DOMAIN unit
  BY <1>1, UnitFacts DEF Chained, Chain
<1>3. Len(units) <= MaxUnits /\ Cardinality(ToSet(units)) = Len(units)
  BY <1>1, UnitsCount DEF Chained, Chain
<1>4. \A u \in DOMAIN unit : unit[u] \in [key : Keys, bindings : Keys \cup {"none"},
                                          designated : BOOLEAN, loopback : BOOLEAN]
  BY <1>1, UnitFacts DEF UnitState
<1>5. Cardinality({u \in ToSet(units) : unit[u].designated}) <= 1
  <2>1. PICK S : S = {u \in ToSet(units) : unit[u].designated}
    OBVIOUS
  <2>2. \A u, v \in S : u = v
    BY <1>1, <2>1 DEF Chained, OneSlot
  <2>3. S = {} \/ \E x : S = {x}
    <3>1. CASE S # {}
      <4>1. PICK x : x \in S
        BY <3>1
      <4>2. S = {x}
        BY <2>2, <4>1
      <4> QED
        BY <4>2
    <3> QED
      BY <3>1
  <2>4. Cardinality(S) = 0 \/ Cardinality(S) = 1
    BY <2>3, FS_EmptySet, FS_Singleton
  <2> QED
    BY <2>1, <2>4
<1>6. engine \in [running : BOOLEAN, ctx : 0 .. Len(contexts), node : 0 .. Len(contexts),
                  play : 0 .. Len(contexts), source : 0 .. Len(contexts), mic : {None} \cup streams]
  BY <1>1 DEF Linked, EngineState
<1>7. \A i \in DOMAIN ops : ops[i].at \in Starting \cup {"closing", "loading", "done"}
  <2>1. \A i \in DOMAIN ops : ops[i] \in HandlerState
    BY <1>1, HandlerFacts
  <2> QED
    BY <2>1 DEF HandlerState, InStates
<1>8. Cardinality({i \in DOMAIN ops : ops[i].kind = "rebuild" /\ InEngine(i)})
        = (IF ui.rebuilding THEN 1 ELSE 0)
  <2>1. PICK S : S = {i \in DOMAIN ops : ops[i].kind = "rebuild" /\ InEngine(i)}
    OBVIOUS
  <2>2. CASE ui.rebuilding
    <3>1. PICK i \in 1 .. Len(ops) : ops[i].kind = "rebuild"
      BY <1>1, <2>2 DEF Rebuilds
    <3>2. S = {i}
      BY <1>1, <2>1, <3>1 DEF Rebuilds
    <3> QED
      BY <2>1, <2>2, <3>2, FS_Singleton
  <2>3. CASE ~ui.rebuilding
    <3>1. S = {}
      BY <1>1, <2>1, <2>3 DEF Rebuilds
    <3> QED
      BY <2>1, <2>3, <3>1, FS_EmptySet
  <2> QED
    BY <2>2, <2>3
<1>9. sampling \subseteq ToSet(units)
  BY <1>1 DEF Chained
<1> QED
  BY <1>1, <1>2, <1>3, <1>4, <1>5, <1>6, <1>7, <1>8, <1>9 DEF TypeOK, Shown

\* The types of the page's state; no unit is in the chain twice, one at most is the hardware
\* slot, and a rebuild holds rebuildInProgress exactly while it stops or starts the engine.
THEOREM PageTypeOK == Spec => []TypeOK
<1> QED
  BY PageTyped, TypedOK, PTL

-----------------------------------------------------------------------------
(***************************************************************************)
(* Audio needs a unit.                                                     *)
(***************************************************************************)
Busy == engine.running \/ \E i \in 1 .. Len(ops) : InEngine(i)
Sole == Busy /\ "cut" \notin trouble => units # <<>>

\* A step of a start or a stop that is on its way.
EngineStep(i) ==
  \/ Resumed(i) \/ ChainLoaded(i) \/ PlaybackLoaded(i) \/ WorkletFails(i) \/ Closed(i)
  \/ \E granted \in BOOLEAN : MicAnswers(i, granted)

\* What all of them leave alone.
LEMMA EngineStepFacts ==
  ASSUME NEW i, EngineStep(i)
  PROVE  /\ InEngine(i) /\ UNCHANGED <<units, unit>>
         /\ slots' = slots \/ slots' = Sync(units, unit)
         /\ trouble \subseteq trouble' /\ trouble' \subseteq trouble \cup {"overlap", "failed"}
<1>1. ASSUME NEW e, Failed(i, e) PROVE trouble' = trouble \cup {"failed"}
  BY <1>1 DEF Failed
<1>2. ASSUME NEW e, Started(i, e) PROVE trouble' = trouble
  BY <1>2 DEF Started
<1>3. ASSUME NEW e, Runs(i, e) PROVE trouble' = trouble \/ trouble' = trouble \cup {"failed"}
  BY <1>1, <1>2, <1>3 DEF Runs
<1>4. CASE Resumed(i)
  BY <1>1, <1>4 DEF Resumed, InEngine, Starting
<1>5. CASE ChainLoaded(i)
  BY <1>1, <1>5 DEF ChainLoaded, InEngine, Starting
<1>6. CASE PlaybackLoaded(i)
  BY <1>1, <1>3, <1>6 DEF PlaybackLoaded, InEngine, Starting
<1>7. CASE WorkletFails(i)
  BY <1>1, <1>7 DEF WorkletFails, InEngine, Starting
<1>8. CASE \E granted \in BOOLEAN : MicAnswers(i, granted)
  BY <1>3, <1>8 DEF MicAnswers, InEngine, Starting
<1>9. CASE Closed(i)
  <2>1. InEngine(i) /\ UNCHANGED <<units, unit>>
    BY <1>9 DEF Closed, InEngine
  <2>2. ASSUME NEW e, NEW os, NEW cs, NewContext(i, e, os, cs) PROVE trouble' = trouble \cup Meets(i)
    BY <2>2 DEF NewContext
  <2>3. \/ (slots' = slots \/ slots' = Sync(units, unit)) /\ trouble' = trouble
        \/ (slots' = slots \/ slots' = Sync(units, unit)) /\ trouble' = trouble \cup {"failed"}
        \/ (slots' = slots \/ slots' = Sync(units, unit)) /\ trouble' = trouble \cup Meets(i)
    BY <1>1, <1>2, <1>9, <2>2, ClosedCases
  <2> QED
    BY <2>1, <2>3, Meeting
<1> QED
  BY <1>4, <1>5, <1>6, <1>7, <1>8, <1>9 DEF EngineStep

\* Nobody enters the engine.
LEMMA NobodyEnters ==
  ASSUME Linked, NEW i, NEW h, Step(i, h), h.at \notin InStates, engine'.running => Busy, Busy'
  PROVE  Busy
<1>1. CASE engine'.running
  BY <1>1
<1>2. CASE \E j \in 1 .. Len(ops') : InEngine(j)'
  <2>1. PICK j \in 1 .. Len(ops') : InEngine(j)'
    BY <1>2
  <2>2. j # i
    BY <2>1 DEF Step, InEngine, InStates
  <2>3. j \in 1 .. Len(ops) /\ InEngine(j)
    BY <2>1, <2>2, Others
  <2> QED
    BY <2>3 DEF Busy
<1> QED
  BY <1>1, <1>2 DEF Busy

\* A rebuild keeps a unit of those there are, when audio needs one.
LEMMA RebuiltSole ==
  ASSUME Linked, Sole, NEW i, NEW us, NEW un, NEW t, Rebuilt(i, us, un, t),
         units # <<>> /\ us = <<>> => ~engine.running /\ (Busy => "cut" \in t)
  PROVE  Sole'
<1>1. PICK os : Begins(i, os) /\ Rebuild(i, os, us, un, t)
  BY DEF Rebuilt
<1>2. units' = us
  BY <1>1, RebuildIs
<1>3. CASE Skipped(i, us, t)
  <2>1. Step(i, Over) /\ engine' = engine /\ trouble' = trouble \cup t
    BY <1>3 DEF Skipped
  <2>2. Over.at \notin InStates
    BY OverState DEF InStates, Starting
  <2>3. Busy' => Busy
    <3>1. engine'.running => Busy
      BY <2>1 DEF Busy
    <3> QED
      BY <2>1, <2>2, <3>1, NobodyEnters
  <2> QED
    BY <1>2, <2>1, <2>3 DEF Sole
<1>4. CASE \E h \in HandlerState : Stops(i, "rebuild", h, t)
  <2>1. engine.running /\ trouble \subseteq trouble'
    BY <1>4 DEF Stops
  <2> QED
    BY <1>2, <2>1 DEF Sole, Busy
<1> QED
  BY <1>1, <1>3, <1>4, RebuildIs

\* So does a handler that waits for a module.
LEMMA WaitingSole ==
  ASSUME Typed, Sole, NEW u, NEW key, NEW us, NEW un, Waiting(u, key, us, un),
         us = <<>> => units = <<>>, left' \in [clicks : 0 .. Clicks, fails : 0 .. Fails]
  PROVE  Sole'
<1>1. units' = us /\ UNCHANGED <<engine, trouble>>
  BY DEF Waits, Waiting
<1>2. PICK h \in HandlerState : Step(Fresh, h) /\ h.at = "loading"
  BY WaitingTyped
<1>3. h.at \notin InStates /\ Linked
  BY <1>2 DEF InStates, Starting, Typed
<1>4. Busy' => Busy
  BY <1>1, <1>2, <1>3, NobodyEnters DEF Busy
<1> QED
  BY <1>1, <1>4 DEF Sole

\* The page begins with a unit.
LEMMA SoleInit == ASSUME Init PROVE Sole
<1>1. units = <<1>>
  BY DEF Init
<1> QED
  BY <1>1 DEF Sole

\* Every action keeps one where audio needs it.
LEMMA SoleNext ==
  ASSUME Typed, Sole, [Next]_vars
  PROVE  Sole'
<1>1. Chained /\ Linked /\ Shown /\ DOMAIN ops = 1 .. Len(ops)
  BY LenProperties DEF Typed, Linked
<1>2. ASSUME left.clicks > 0, left' = [left EXCEPT !.clicks = @ - 1]
      PROVE  left' \in [clicks : 0 .. Clicks, fails : 0 .. Fails]
  BY <1>1, <1>2, ClicksLeft
<1>3. CASE Click(StartClick)
  <2>1. StartClick /\ units' = units
    BY <1>3 DEF Click, StartClick
  <2>2. CASE \E h \in HandlerState : Stops(Fresh, "click", h, {})
    BY <2>1, <2>2 DEF Stops, Sole, Busy
  <2>3. CASE \E h \in HandlerState : Starts(h)
    BY <2>1, <2>3 DEF Starts, Sole
  <2> QED
    BY <1>1, <2>1, <2>2, <2>3, StartClickIs
<1>4. CASE Click(AddUnit)
  BY <1>1, <1>2, <1>4, AddUnitIs, WaitingSole DEF Click
<1>5. ASSUME NEW u \in ToSet(units), NEW key \in Keys, Click(ChangeModule(u, key)) PROVE Sole'
  BY <1>1, <1>2, <1>5, ChangeModuleIs, RebuiltSole, WaitingSole DEF Click
<1>6. ASSUME NEW u \in ToSet(units), NEW on \in BOOLEAN, Click(SetHardwareDesignated(u, on)) PROVE Sole'
  BY <1>1, <1>2, <1>6, SetHardwareDesignatedIs, RebuiltSole, WaitingSole DEF Click
<1>7. ASSUME NEW u \in ToSet(units), NEW v \in ToSet(units), Click(Drop(u, v)) PROVE Sole'
  BY <1>1, <1>7, DropIs, RebuiltSole DEF Click
<1>8. ASSUME NEW u \in ToSet(units), Click(ToggleLoopback(u)) PROVE Sole'
  BY <1>1, <1>8, ToggleLoopbackIs, RebuiltSole DEF Click
<1>9. ASSUME NEW u \in ToSet(units), Click(DeleteUnit(u)) PROVE Sole'
  <2>1. PICK us, un, t : /\ Rebuilt(Fresh, us, un, t)
                         /\ t = IF us = <<>> /\ \E i \in DOMAIN ops : InEngine(i) THEN {"cut"} ELSE {}
                         /\ engine.running => us # <<>>
    BY <1>1, <1>9, DeleteUnitIs DEF Click
  <2>2. us = <<>> => ~engine.running /\ (Busy => "cut" \in t)
    BY <1>1, <2>1 DEF Busy
  <2> QED
    BY <1>1, <2>1, <2>2, RebuiltSole
<1>10. ASSUME NEW i \in 1 .. Len(ops), Loaded(i) PROVE Sole'
  BY <1>1, <1>10, LoadedIs, RebuiltSole
<1>11. ASSUME NEW i \in 1 .. Len(ops), LoadFails(i) PROVE Sole'
  <2>1. Step(i, Over) /\ UNCHANGED <<units, engine>> /\ trouble \subseteq trouble'
    BY <1>11, LoadFailsTyped DEF LoadFails
  <2>2. Over.at \notin InStates
    BY OverState DEF InStates, Starting
  <2>3. Busy' => Busy
    BY <1>1, <2>1, <2>2, NobodyEnters DEF Busy
  <2> QED
    BY <2>1, <2>3 DEF Sole
<1>12. ASSUME NEW i \in 1 .. Len(ops), EngineStep(i) PROVE Sole'
  <2>1. InEngine(i) /\ units' = units /\ trouble \subseteq trouble'
    BY <1>12, EngineStepFacts
  <2> QED
    BY <2>1 DEF Sole, Busy
<1>13. CASE UNCHANGED vars
  BY <1>13 DEF vars, Sole, Busy, InEngine
<1> QED
  BY <1>1, <1>3, <1>4, <1>5, <1>6, <1>7, <1>8, <1>9, <1>10, <1>11, <1>12, <1>13
     DEF Next, EngineStep

\* Audio never runs without a unit, unless the last one was deleted while audio was between two
\* awaits of a start or a stop: MayDelete looks at a running engine alone.
THEOREM PageSoleUnit == Spec => []SoleUnit
<1>1. Init => Typed /\ Sole
  BY TypedInit, SoleInit
<1>2. Typed /\ Sole /\ [Next]_vars => (Typed /\ Sole)'
  BY TypedNext, SoleNext
<1>3. Sole => SoleUnit
  BY DEF Sole, SoleUnit, Busy
<1> QED
  BY <1>1, <1>2, <1>3, PTL DEF Spec

-----------------------------------------------------------------------------
(***************************************************************************)
(* The scheduler's chain.                                                  *)
(***************************************************************************)
\* A module is on its way for unit u.
Loads(u) == \E i \in 1 .. Len(ops) : ops[i].at = "loading" /\ ops[i].unit = u

\* The scheduler has the units, or gets them when a module has arrived.
Synced ==
  "unloaded" \notin trouble =>
    slots = Sync(units, unit) \/ \E i \in 1 .. Len(ops) : ops[i].at = "loading"

\* A unit has the module it is named for, or waits for it; the hardware slot has none.
Sound ==
  trouble \cap {"crossed", "unloaded"} = {} =>
    \A u \in 1 .. Len(unit) :
      /\ unit[u].designated => unit[u].bindings = "none"
      /\ ~unit[u].designated => unit[u].bindings = unit[u].key \/ Loads(u)

\* A start that returns or throws ends its handler.
LEMMA Ends ==
  ASSUME Linked, NEW i \in 1 .. Len(ops), NEW e, Started(i, e) \/ Failed(i, e)
  PROVE  Step(i, Over)
BY OverState, Put DEF Started, Failed, Linked

\* A handler in the engine never waits for a module.
LEMMA EngineStepHandler ==
  ASSUME Linked, NEW i \in 1 .. Len(ops), EngineStep(i)
  PROVE  \E h : Step(i, h) /\ h.at # "loading"
<1>1. Over.at # "loading" /\ ops \in Seq(HandlerState)
  BY OverState DEF Linked
<1>2. ASSUME NEW e, Started(i, e) \/ Failed(i, e) PROVE \E h : Step(i, h) /\ h.at # "loading"
  BY <1>1, <1>2, Ends
<1>3. ASSUME NEW e, Runs(i, e) PROVE \E h : Step(i, h) /\ h.at # "loading"
  BY <1>2, <1>3 DEF Runs
<1>4. ASSUME NEW at \in {"resume", "chain", "playback", "mic"}, NEW on, NEW h, Onward(i, h, at, on)
      PROVE  \E g : Step(i, g) /\ g.at # "loading"
  BY <1>4 DEF Onward
<1>5. CASE Resumed(i)
  BY <1>2, <1>4, <1>5, ResumedIs
<1>6. CASE ChainLoaded(i)
  BY <1>2, <1>4, <1>6, ChainLoadedIs
<1>7. CASE PlaybackLoaded(i)
  BY <1>2, <1>3, <1>4, <1>7, PlaybackLoadedIs
<1>8. CASE WorkletFails(i)
  BY <1>2, <1>8 DEF WorkletFails
<1>9. CASE \E granted \in BOOLEAN : MicAnswers(i, granted)
  BY <1>3, <1>9 DEF MicAnswers
<1>10. CASE Closed(i)
  <2>1. CASE ops' = [ops EXCEPT ![i] = Over]
    BY <1>1, <2>1, OverState, Put
  <2>2. PICK cs : cs = Shut(i)
    OBVIOUS
  <2>3. CASE NewContext(i, Gone(engine), ops, cs)
    <3>1. cs \in Seq(ContextState)
      BY <2>2, ClosedState
    <3>2. Len(cs) \in Nat /\ \E at \in {"resume", "chain"} : ops' = Forward(ops, i, at, Len(cs) + 1)
      BY <2>3, <3>1, NewContextState
    <3>3. PICK at \in {"resume", "chain"} : ops' = Forward(ops, i, at, Len(cs) + 1)
      BY <3>2
    <3>4. at \in InStates /\ Len(cs) + 1 \in Nat
      BY <3>2 DEF InStates, Starting
    <3>5. \E h \in HandlerState : Onward(i, h, at, Len(cs) + 1)
      BY <1>1, <3>3, <3>4, Moves
    <3> QED
      BY <1>4, <3>5
  <2> QED
    BY <1>2, <1>10, <2>1, <2>2, <2>3, ClosedCases
<1> QED
  BY <1>5, <1>6, <1>7, <1>8, <1>9, <1>10 DEF EngineStep

\* A module that was on its way still is, but for the handler that moved.
LEMMA StillLoads ==
  ASSUME Linked, NEW i, NEW h, Step(i, h), NEW j \in 1 .. Len(ops), j # i
  PROVE  j \in 1 .. Len(ops') /\ ops'[j] = ops[j]
<1>1. Len(ops) \in Nat
  BY LenProperties DEF Linked
<1> QED
  BY <1>1 DEF Step

\* A handler moves, and no module is asked for or arrives.
LEMMA OutsideFollows ==
  ASSUME Linked, Synced, Sound, NEW i, NEW h, Step(i, h),
         i \in 1 .. Len(ops) => ops[i].at # "loading",
         UNCHANGED <<units, unit>>, slots' = slots \/ slots' = Sync(units, unit),
         trouble \subseteq trouble'
  PROVE  Synced' /\ Sound'
<1>1. \A j \in 1 .. Len(ops) : ops[j].at = "loading" => j \in 1 .. Len(ops') /\ ops'[j] = ops[j]
  BY StillLoads
<1>2. Synced'
  BY <1>1 DEF Synced
<1>3. \A u : Loads(u) => Loads(u)'
  BY <1>1 DEF Loads
<1>4. Sound'
  BY <1>3 DEF Sound
<1> QED
  BY <1>2, <1>4

\* A page action that rebuilds, for the handlers and the scheduler.
LEMMA RebuiltStep ==
  ASSUME Linked, NEW i, NEW us, NEW un, NEW t, Rebuilt(i, us, un, t)
  PROVE  /\ \E h : Step(i, h) /\ h.at # "loading"
         /\ units' = us /\ unit' = un /\ slots' = Sync(us, un)
         /\ trouble \subseteq trouble' /\ t \subseteq trouble'
<1>1. PICK os : Begins(i, os) /\ Rebuild(i, os, us, un, t)
  BY DEF Rebuilt
<1>2. CASE Skipped(i, us, t)
  BY <1>1, <1>2, OverState, RebuildIs DEF Skipped
<1>3. CASE \E h \in HandlerState : Stops(i, "rebuild", h, t)
  <2>1. PICK h \in HandlerState : Stops(i, "rebuild", h, t)
    BY <1>3
  <2>2. Step(i, h) /\ h.at # "loading" /\ trouble \subseteq trouble' /\ t \subseteq trouble'
    BY <2>1 DEF Stops
  <2> QED
    BY <1>1, <2>2, RebuildIs
<1> QED
  BY <1>1, <1>2, <1>3, RebuildIs

\* After it, the scheduler has the units; every unit of old is what it was or sound as it is.
LEMMA RebuiltFollows ==
  ASSUME Linked, Chained, Sound, NEW i, NEW us, NEW un, NEW t, Rebuilt(i, us, un, t),
         Len(un) = Len(unit), i \in 1 .. Len(ops) => ops[i].at # "loading",
         \A v \in 1 .. Len(unit) :
           \/ SameUnit(v, un)
           \/ trouble \cap {"crossed", "unloaded"} = {} =>
                un[v].designated /\ un[v].bindings = "none"
  PROVE  Synced' /\ Sound'
<1>1. PICK h : Step(i, h)
  BY RebuiltStep
<1>2. units' = us /\ unit' = un /\ slots' = Sync(us, un) /\ trouble \subseteq trouble'
  BY RebuiltStep
<1>3. \A j \in 1 .. Len(ops) : ops[j].at = "loading" => j \in 1 .. Len(ops') /\ ops'[j] = ops[j]
  BY <1>1, StillLoads
<1>4. \A u : Loads(u) => Loads(u)'
  BY <1>3 DEF Loads
<1>5. Synced'
  BY <1>2 DEF Synced
<1>6. Sound'
  <2>1. SUFFICES ASSUME trouble \cap {"crossed", "unloaded"} = {}, NEW u \in 1 .. Len(unit)
                 PROVE  /\ un[u].designated => un[u].bindings = "none"
                        /\ ~un[u].designated => un[u].bindings = un[u].key \/ Loads(u)'
    BY <1>2 DEF Sound
  <2>2. /\ unit[u].designated => unit[u].bindings = "none"
        /\ ~unit[u].designated => unit[u].bindings = unit[u].key \/ Loads(u)
    BY <2>1 DEF Sound
  <2>3. CASE SameUnit(u, un)
    BY <1>4, <2>2, <2>3 DEF SameUnit
  <2>4. CASE un[u].designated /\ un[u].bindings = "none"
    BY <2>4
  <2> QED
    BY <2>1, <2>3, <2>4
<1> QED
  BY <1>5, <1>6

\* A handler that waits brings its unit's module.
LEMMA WaitingFollows ==
  ASSUME Typed, Sound, NEW u, NEW key, NEW us, NEW un, Waiting(u, key, us, un),
         ~un[u].designated, \A v \in 1 .. Len(un) : v # u => v \in 1 .. Len(unit) /\ SameUnit(v, un),
         left' \in [clicks : 0 .. Clicks, fails : 0 .. Fails]
  PROVE  Synced' /\ Sound'
<1>1. Linked /\ units' = us /\ unit' = un /\ UNCHANGED trouble
  BY DEF Waits, Waiting, Typed
<1>2. PICK h \in HandlerState : Step(Fresh, h) /\ Fresh = Len(ops) + 1 /\ h.at = "loading" /\ h.unit = u
  BY WaitingTyped
<1>3. Fresh \in 1 .. Len(ops') /\ ops'[Fresh].at = "loading" /\ ops'[Fresh].unit = u
  BY <1>2 DEF Step
<1>4. Loads(u)'
  BY <1>3 DEF Loads
<1>5. \A j \in 1 .. Len(ops) : j \in 1 .. Len(ops') /\ ops'[j] = ops[j]
  <2>1. \A j \in 1 .. Len(ops) : j # Fresh
    BY <1>1, <1>2, LenProperties DEF Linked
  <2> QED
    BY <1>1, <1>2, <2>1, StillLoads
<1>6. \A v : Loads(v) => Loads(v)'
  BY <1>5 DEF Loads
<1>7. Synced'
  BY <1>3 DEF Synced
<1>8. Sound'
  <2>1. SUFFICES ASSUME trouble \cap {"crossed", "unloaded"} = {}, NEW v \in 1 .. Len(un)
                 PROVE  /\ un[v].designated => un[v].bindings = "none"
                        /\ ~un[v].designated => un[v].bindings = un[v].key \/ Loads(v)'
    BY <1>1 DEF Sound
  <2>2. CASE v = u
    BY <1>4, <2>2
  <2>3. CASE v # u
    <3>1. v \in 1 .. Len(unit) /\ SameUnit(v, un)
      BY <2>3
    <3>2. /\ unit[v].designated => unit[v].bindings = "none"
          /\ ~unit[v].designated => unit[v].bindings = unit[v].key \/ Loads(v)
      BY <2>1, <3>1 DEF Sound
    <3> QED
      BY <1>6, <3>1, <3>2 DEF SameUnit
  <2> QED
    BY <2>2, <2>3
<1> QED
  BY <1>7, <1>8

\* A module arrives: in its turn, or another one for its unit is on its way.
LEMMA LoadedFollows ==
  ASSUME Typed, Sound, NEW i \in 1 .. Len(ops), Loaded(i)
  PROVE  Synced' /\ Sound'
<1>1. Linked /\ DOMAIN ops = 1 .. Len(ops)
  BY LenProperties DEF Typed, Linked
<1>2. PICK un, t :
        /\ Rebuilt(i, units, un, t) /\ t = (IF Crossed(i) THEN {"crossed"} ELSE {})
        /\ Len(un) = Len(unit) /\ ops[i].at = "loading" /\ left' = left
        /\ ops[i].unit \in 1 .. Len(unit) /\ ops[i].key \in Keys
        /\ \A v \in 1 .. Len(unit) : v # ops[i].unit => SameUnit(v, un)
        /\ un[ops[i].unit].designated = unit[ops[i].unit].designated
        /\ un[ops[i].unit].key = unit[ops[i].unit].key
        /\ un[ops[i].unit].bindings = ops[i].key
  BY LoadedIs
<1>3. PICK h : Step(i, h)
  BY <1>1, <1>2, RebuiltStep
<1>4. /\ units' = units /\ unit' = un /\ slots' = Sync(units, un)
      /\ trouble \subseteq trouble' /\ t \subseteq trouble'
  BY <1>1, <1>2, RebuiltStep
<1>5. \A j \in 1 .. Len(ops) : j # i => j \in 1 .. Len(ops') /\ ops'[j] = ops[j]
  BY <1>1, <1>3, StillLoads
<1>6. Synced'
  BY <1>4 DEF Synced
<1>7. Sound'
  <2>1. SUFFICES ASSUME trouble' \cap {"crossed", "unloaded"} = {}, NEW v \in 1 .. Len(unit)
                 PROVE  /\ un[v].designated => un[v].bindings = "none"
                        /\ ~un[v].designated => un[v].bindings = un[v].key \/ Loads(v)'
    BY <1>2, <1>4 DEF Sound
  <2>2. ~Crossed(i) /\ trouble \cap {"crossed", "unloaded"} = {}
    BY <1>2, <1>4, <2>1
  <2>3. CASE v = ops[i].unit
    <3>1. /\ ~unit[v].designated
          /\ \/ ops[i].key = unit[v].key
             \/ \E j \in 1 .. Len(ops) : j > i /\ ops[j].unit = v /\ ops[j].at = "loading"
      BY <1>1, <2>2, <2>3 DEF Crossed
    <3>2. CASE ops[i].key = unit[v].key
      BY <1>2, <2>3, <3>1, <3>2
    <3>3. CASE \E j \in 1 .. Len(ops) : j > i /\ ops[j].unit = v /\ ops[j].at = "loading"
      <4>1. PICK j \in 1 .. Len(ops) : j > i /\ ops[j].unit = v /\ ops[j].at = "loading"
        BY <3>3
      <4>2. j # i
        BY <4>1
      <4>3. Loads(v)'
        BY <1>5, <4>1, <4>2 DEF Loads
      <4> QED
        BY <1>2, <2>3, <3>1, <4>3
    <3> QED
      BY <3>1, <3>2, <3>3
  <2>4. CASE v # ops[i].unit
    <3>1. SameUnit(v, un)
      BY <1>2, <2>4
    <3>2. /\ unit[v].designated => unit[v].bindings = "none"
          /\ ~unit[v].designated => unit[v].bindings = unit[v].key \/ Loads(v)
      BY <2>2 DEF Sound
    <3>3. Loads(v) => Loads(v)'
      BY <1>5, <2>4 DEF Loads
    <3> QED
      BY <3>1, <3>2, <3>3 DEF SameUnit
  <2> QED
    BY <2>3, <2>4
<1> QED
  BY <1>6, <1>7

\* The first unit waits for its module.
LEMMA FollowsInit == ASSUME Init PROVE Synced /\ Sound
<1>1. /\ slots = Sync(units, unit) /\ unit = <<Unit("delay")>>
      /\ ops = <<Handler("add", "loading", 1, "delay")>>
  BY DEF Init
<1>2. Len(unit) = 1 /\ unit[1].designated = FALSE /\ Loads(1)
  BY <1>1 DEF Unit, Handler, Loads
<1> QED
  BY <1>1, <1>2 DEF Synced, Sound

\* Every action keeps the scheduler and the units together.
LEMMA FollowsNext ==
  ASSUME Typed, Synced, Sound, [Next]_vars
  PROVE  Synced' /\ Sound'
<1>1. Chained /\ Linked /\ Shown /\ DOMAIN ops = 1 .. Len(ops) /\ ~(Fresh \in 1 .. Len(ops))
  BY LenProperties DEF Typed, Linked, Fresh
<1>2. ASSUME left.clicks > 0, left' = [left EXCEPT !.clicks = @ - 1]
      PROVE  left' \in [clicks : 0 .. Clicks, fails : 0 .. Fails]
  BY <1>1, <1>2, ClicksLeft
<1>3. CASE Click(StartClick)
  <2>1. StartClick /\ UNCHANGED <<units, unit>>
    BY <1>3 DEF Click, StartClick
  <2>2. CASE UNCHANGED slots /\ \E h \in HandlerState : Stops(Fresh, "click", h, {})
    <3>1. PICK h \in HandlerState : Stops(Fresh, "click", h, {})
      BY <2>2
    <3>2. Step(Fresh, h) /\ trouble \subseteq trouble'
      BY <3>1 DEF Stops
    <3> QED
      BY <1>1, <2>1, <2>2, <3>2, OutsideFollows
  <2>3. CASE \E h \in HandlerState : Starts(h)
    <3>1. PICK h \in HandlerState : Starts(h)
      BY <2>3
    <3>2. Step(Fresh, h) /\ trouble \subseteq trouble' /\ slots' = Sync(units, unit)
      BY <3>1 DEF Starts
    <3> QED
      BY <1>1, <2>1, <3>2, OutsideFollows
  <2> QED
    BY <1>1, <2>1, <2>2, <2>3, StartClickIs
<1>4. CASE Click(AddUnit)
  <2>1. PICK us, un : /\ Waiting(Len(un), "passthrough", us, un)
                      /\ Len(un) = Len(unit) + 1 /\ Len(unit) \in Nat
                      /\ ~un[Len(un)].designated
                      /\ \A v \in 1 .. Len(unit) : SameUnit(v, un)
    BY <1>1, <1>4, AddUnitIs DEF Click
  <2>2. \A v \in 1 .. Len(un) : v # Len(un) => v \in 1 .. Len(unit)
    BY <2>1
  <2> QED
    BY <1>2, <1>4, <2>1, <2>2, WaitingFollows DEF Click
<1>5. ASSUME NEW u \in ToSet(units), NEW key \in Keys, Click(ChangeModule(u, key))
      PROVE  Synced' /\ Sound'
  <2>1. PICK un : /\ Len(un) = Len(unit) /\ u \in 1 .. Len(unit)
                  /\ \A v \in 1 .. Len(unit) : v # u => SameUnit(v, un)
                  /\ un[u].designated = unit[u].designated /\ un[u].bindings = unit[u].bindings
                  /\ \/ unit[u].designated /\ Rebuilt(Fresh, units, un, {})
                     \/ ~unit[u].designated /\ Waiting(u, key, units, un) /\ UNCHANGED slots
    BY <1>1, <1>5, ChangeModuleIs DEF Click
  <2>2. CASE unit[u].designated /\ Rebuilt(Fresh, units, un, {})
    <3>1. trouble \cap {"crossed", "unloaded"} = {} => un[u].designated /\ un[u].bindings = "none"
      BY <2>1, <2>2 DEF Sound
    <3> QED
      BY <1>1, <2>1, <2>2, <3>1, RebuiltFollows
  <2>3. CASE ~unit[u].designated /\ Waiting(u, key, units, un)
    BY <1>2, <1>5, <2>1, <2>3, WaitingFollows DEF Click
  <2> QED
    BY <2>1, <2>2, <2>3
<1>6. ASSUME NEW u \in ToSet(units), NEW on \in BOOLEAN, Click(SetHardwareDesignated(u, on))
      PROVE  Synced' /\ Sound'
  <2>1. PICK un : /\ Len(un) = Len(unit) /\ u \in 1 .. Len(unit)
                  /\ \A v \in 1 .. Len(unit) : v # u => SameUnit(v, un)
                  /\ un[u].designated = on /\ unit[u].designated = ~on
                  /\ un[u].bindings = IF on THEN "none" ELSE unit[u].bindings
                  /\ \/ (on \/ unit[u].bindings # "none") /\ Rebuilt(Fresh, units, un, {})
                     \/ /\ ~on /\ unit[u].bindings = "none"
                        /\ Waiting(u, unit[u].key, units, un) /\ UNCHANGED slots
    BY <1>1, <1>6, SetHardwareDesignatedIs DEF Click
  <2>2. CASE (on \/ unit[u].bindings # "none") /\ Rebuilt(Fresh, units, un, {})
    <3>1. trouble \cap {"crossed", "unloaded"} = {} => un[u].designated /\ un[u].bindings = "none"
      BY <2>1, <2>2 DEF Sound
    <3> QED
      BY <1>1, <2>1, <2>2, <3>1, RebuiltFollows
  <2>3. CASE ~on /\ Waiting(u, unit[u].key, units, un)
    <3>1. PICK key : key = unit[u].key
      OBVIOUS
    <3> QED
      BY <1>2, <1>6, <2>1, <2>3, <3>1, WaitingFollows DEF Click
  <2> QED
    BY <2>1, <2>2, <2>3
<1>7. ASSUME NEW u \in ToSet(units), NEW v \in ToSet(units), Click(Drop(u, v))
      PROVE  Synced' /\ Sound'
  BY <1>1, <1>7, DropIs, RebuiltFollows DEF Click
<1>8. ASSUME NEW u \in ToSet(units), Click(ToggleLoopback(u)) PROVE Synced' /\ Sound'
  BY <1>1, <1>8, ToggleLoopbackIs, RebuiltFollows DEF Click
<1>9. ASSUME NEW u \in ToSet(units), Click(DeleteUnit(u)) PROVE Synced' /\ Sound'
  BY <1>1, <1>9, DeleteUnitIs, RebuiltFollows DEF Click
<1>10. ASSUME NEW i \in 1 .. Len(ops), Loaded(i) PROVE Synced' /\ Sound'
  BY <1>10, LoadedFollows
<1>11. ASSUME NEW i \in 1 .. Len(ops), LoadFails(i) PROVE Synced' /\ Sound'
  BY <1>11 DEF LoadFails, Synced, Sound
<1>12. ASSUME NEW i \in 1 .. Len(ops), EngineStep(i) PROVE Synced' /\ Sound'
  <2>1. PICK h : Step(i, h) /\ h.at # "loading"
    BY <1>1, <1>12, EngineStepHandler
  <2>2. /\ InEngine(i) /\ UNCHANGED <<units, unit>> /\ trouble \subseteq trouble'
        /\ slots' = slots \/ slots' = Sync(units, unit)
    BY <1>12, EngineStepFacts
  <2>3. ops[i].at # "loading"
    BY <2>2 DEF InEngine, Starting
  <2> QED
    BY <1>1, <2>1, <2>2, <2>3, OutsideFollows
<1>13. CASE UNCHANGED vars
  BY <1>13 DEF vars, Synced, Sound, Loads
<1> QED
  BY <1>1, <1>3, <1>4, <1>5, <1>6, <1>7, <1>8, <1>9, <1>10, <1>11, <1>12, <1>13
     DEF Next, EngineStep

\* When no module is on its way, the scheduler has the chain.
LEMMA FollowsAtRest ==
  ASSUME Typed, Synced, Sound
  PROVE  SlotsFollow
<1>1. SUFFICES ASSUME Quiet, trouble \cap {"crossed", "unloaded"} = {}
               PROVE  /\ Len(slots.chain) = Len(units)
                      /\ \A k \in DOMAIN units :
                           /\ slots.chain[k].unit = units[k]
                           /\ slots.chain[k].designated = unit[units[k]].designated
                           /\ slots.chain[k].bindings = (IF unit[units[k]].designated THEN "none"
                                                         ELSE unit[units[k]].key)
                      /\ slots.loopback = (units # <<>> /\ unit[Last(units)].loopback)
  BY DEF SlotsFollow
<1>2. /\ units \in Seq(Nat) /\ Len(units) \in Nat /\ DOMAIN units = 1 .. Len(units)
      /\ DOMAIN ops = 1 .. Len(ops) /\ \A k \in 1 .. Len(units) : units[k] \in 1 .. Len(unit)
  BY LenProperties DEF Typed, Linked, Chained, Chain
<1>3. \A i \in 1 .. Len(ops) : ops[i].at # "loading"
  BY <1>1, <1>2 DEF Quiet
<1>4. slots = Sync(units, unit) /\ \A u : ~Loads(u)
  BY <1>1, <1>3 DEF Synced, Loads
<1>5. \A u \in 1 .. Len(unit) : ~unit[u].designated => unit[u].bindings = unit[u].key
  BY <1>1, <1>4 DEF Sound
<1>6. PICK chain : chain = slots.chain
  OBVIOUS
<1>7. chain = [k \in 1 .. Len(units) |->
                 [unit |-> units[k], designated |-> unit[units[k]].designated,
                  bindings |-> IF unit[units[k]].designated THEN "none" ELSE unit[units[k]].bindings]]
  BY <1>2, <1>4, <1>6 DEF Sync
<1>8. Len(chain) = Len(units)
  <2>1. DOMAIN chain = 1 .. Len(units)
    BY <1>7
  <2>2. chain = [k \in 1 .. Len(units) |-> chain[k]]
    BY <1>7
  <2> QED
    BY <1>2, <2>1, <2>2
<1>9. \A k \in 1 .. Len(units) :
        /\ chain[k].unit = units[k] /\ chain[k].designated = unit[units[k]].designated
        /\ chain[k].bindings = (IF unit[units[k]].designated THEN "none" ELSE unit[units[k]].key)
  BY <1>2, <1>5, <1>7
<1>10. slots.loopback = (units # <<>> /\ unit[Last(units)].loopback)
  BY <1>4 DEF Sync
<1> QED
  BY <1>2, <1>6, <1>8, <1>9, <1>10

\* When every handler has ended, the scheduler has the chain the page shows with the modules the
\* units are named for: the last handler of a unit that ended told it, whether it could rebuild or
\* met rebuildInProgress, unless modules of one unit arrived out of turn or did not load.
THEOREM PageSlotsFollow == Spec => []SlotsFollow
<1>1. Init => Typed /\ Synced /\ Sound
  BY TypedInit, FollowsInit
<1>2. Typed /\ Synced /\ Sound /\ [Next]_vars => (Typed /\ Synced /\ Sound)'
  BY TypedNext, FollowsNext
<1> QED
  BY <1>1, <1>2, FollowsAtRest, PTL DEF Spec

-----------------------------------------------------------------------------
(***************************************************************************)
(* One handler in the engine.                                              *)
(***************************************************************************)
Free == \A i \in 1 .. Len(ops) : ~InEngine(i)
Alone == \A i, j \in 1 .. Len(ops) : InEngine(i) /\ InEngine(j) => i = j

\* What a handler that starts or stops the engine has of it, and of the button.
AtContext(i) ==
  /\ ~engine.running /\ engine.ctx # None /\ contexts[engine.ctx].open /\ ops[i].on = engine.ctx
  /\ ops[i].at \in {"playback", "mic"} => engine.node = engine.ctx
  /\ ops[i].at = "mic" => engine.play = engine.ctx

Button(i) ==
  /\ ops[i].kind = "click" /\ ops[i].at \in Starting => ui.text = "start"
  /\ ops[i].kind = "rebuild" \/ ops[i].at = "closing" => ~ui.disabled

Shows ==
  /\ engine.running => engine.ctx # None /\ contexts[engine.ctx].open
  /\ Free => ui.text = (IF engine.running THEN "stop" ELSE "start") /\ ~ui.disabled

Sampled ==
  /\ engine.running => \A u \in ToSet(units) :
                         u \in sampling \/ (unit[u].bindings = "none" /\ ~unit[u].designated)
  /\ ~engine.running => sampling = {}

Orderly ==
  "overlap" \notin trouble =>
    /\ Alone /\ Shows /\ Sampled
    /\ \A i \in 1 .. Len(ops) : InEngine(i) => AtContext(i) /\ Button(i)

\* Who is in the engine after a step of the one handler that may enter it or was there.
LEMMA Entered ==
  ASSUME Linked, NEW i, NEW h, Step(i, h),
         \A j \in 1 .. Len(ops) : InEngine(j) => j = i
  PROVE  /\ \A j \in 1 .. Len(ops') : InEngine(j)' => j = i
         /\ Alone'
         /\ h.at \notin InStates => Free'
         /\ h.at \in InStates => ~Free'
         /\ i \in 1 .. Len(ops') /\ ops'[i] = h
<1>1. i \in 1 .. Len(ops') /\ ops'[i] = h
  BY DEF Step
<1>2. \A j \in 1 .. Len(ops') : InEngine(j)' => j = i
  BY Others
<1>3. h.at \in InStates <=> InEngine(i)'
  BY <1>1 DEF InEngine, InStates
<1>4. Alone'
  BY <1>2 DEF Alone
<1>5. h.at \notin InStates => Free'
  BY <1>2, <1>3 DEF Free
<1>6. h.at \in InStates => ~Free'
  BY <1>1, <1>3 DEF Free
<1> QED
  BY <1>1, <1>2, <1>4, <1>5, <1>6

\* A handler outside the engine ends.
LEMMA OutsideOrderly ==
  ASSUME Linked, Orderly, NEW i, NEW h, Step(i, h), h.at \notin InStates,
         i \in 1 .. Len(ops) => ~InEngine(i), UNCHANGED <<engine, contexts, ui>>,
         trouble \subseteq trouble', "overlap" \notin trouble /\ Sampled => Sampled'
  PROVE  Orderly'
<1>1. SUFFICES ASSUME "overlap" \notin trouble'
               PROVE  /\ Alone' /\ Shows' /\ Sampled'
                      /\ \A j \in 1 .. Len(ops') : InEngine(j)' => AtContext(j)' /\ Button(j)'
  BY DEF Orderly
<1>2. /\ "overlap" \notin trouble /\ Alone /\ Shows /\ Sampled
      /\ \A j \in 1 .. Len(ops) : InEngine(j) => AtContext(j) /\ Button(j)
  BY <1>1 DEF Orderly
<1>3. i \in 1 .. Len(ops') /\ ~InEngine(i)'
  BY DEF Step, InEngine, InStates
<1>4. ASSUME NEW j \in 1 .. Len(ops'), InEngine(j)'
      PROVE  j \in 1 .. Len(ops) /\ InEngine(j) /\ ops'[j] = ops[j]
  <2>1. j # i
    BY <1>3, <1>4
  <2> QED
    BY <1>4, <2>1, Others
<1>5. ASSUME NEW j \in 1 .. Len(ops), InEngine(j) PROVE j \in 1 .. Len(ops') /\ InEngine(j)'
  <2>1. j # i
    BY <1>5
  <2>2. j \in 1 .. Len(ops') /\ ops'[j] = ops[j]
    BY <2>1, StillLoads
  <2> QED
    BY <1>5, <2>2 DEF InEngine
<1>6. Free' <=> Free
  BY <1>4, <1>5 DEF Free
<1>7. Alone'
  BY <1>2, <1>4 DEF Alone
<1>8. Shows'
  BY <1>2, <1>6 DEF Shows
<1>9. \A j \in 1 .. Len(ops') : InEngine(j)' => AtContext(j)' /\ Button(j)'
  BY <1>2, <1>4 DEF AtContext, Button
<1> QED
  BY <1>2, <1>7, <1>8, <1>9

\* A handler enters the engine, or goes on in it.
LEMMA InsideOrderly ==
  ASSUME Linked, NEW i, NEW h, Step(i, h), h.at \in InStates,
         \A j \in 1 .. Len(ops) : InEngine(j) => j = i,
         ~engine'.running, engine'.ctx # None, contexts'[engine'.ctx].open, h.on = engine'.ctx,
         h.at \in {"playback", "mic"} => engine'.node = engine'.ctx,
         h.at = "mic" => engine'.play = engine'.ctx,
         h.kind = "click" /\ h.at \in Starting => ui'.text = "start",
         h.kind = "rebuild" \/ h.at = "closing" => ~ui'.disabled, sampling' = {}
  PROVE  Orderly'
<1>1. /\ \A j \in 1 .. Len(ops') : InEngine(j)' => j = i
      /\ Alone' /\ ~Free' /\ ops'[i] = h
  BY Entered
<1>2. Shows' /\ Sampled'
  BY <1>1 DEF Shows, Sampled
<1>3. AtContext(i)' /\ Button(i)'
  BY <1>1 DEF AtContext, Button
<1> QED
  BY <1>1, <1>2, <1>3 DEF Orderly

\* The handler ends, and the engine runs or not.
LEMMA EndOrderly ==
  ASSUME Linked, NEW i, Step(i, Over), \A j \in 1 .. Len(ops) : InEngine(j) => j = i,
         engine'.running => engine'.ctx # None /\ contexts'[engine'.ctx].open,
         ui'.text = (IF engine'.running THEN "stop" ELSE "start"), ~ui'.disabled, Sampled'
  PROVE  Orderly'
<1>1. Over.at \notin InStates
  BY OverState DEF InStates, Starting
<1>2. Alone' /\ Free'
  BY <1>1, Entered
<1>3. Shows'
  BY DEF Shows
<1> QED
  BY <1>2, <1>3 DEF Orderly, Free

\* What holds of the one handler in the engine.
LEMMA OneInEngine ==
  ASSUME Typed, Orderly, NEW i \in 1 .. Len(ops), InEngine(i), "overlap" \notin trouble
  PROVE  /\ AtContext(i) /\ Button(i) /\ ~engine.running /\ sampling = {}
         /\ \A j \in 1 .. Len(ops) : InEngine(j) => j = i
         /\ ops[i].kind \in {"click", "rebuild"} /\ Linked
<1>1. /\ Alone /\ Sampled /\ AtContext(i) /\ Button(i)
  BY DEF Orderly
<1>2. ops[i].kind \in {"click", "rebuild"} /\ Linked
  BY DEF Typed, Rebuilds
<1> QED
  BY <1>1, <1>2 DEF Alone, Sampled, AtContext

\* It fails: the button is free, and says that nothing runs.
LEMMA FailedOrderly ==
  ASSUME Typed, Orderly, NEW i \in 1 .. Len(ops), InEngine(i), "overlap" \notin trouble,
         ops[i].at \in Starting \/ ops[i].kind = "rebuild",
         NEW e, Failed(i, e), ~e.running
  PROVE  Orderly'
<1>1. /\ Button(i) /\ sampling = {} /\ \A j \in 1 .. Len(ops) : InEngine(j) => j = i
      /\ ops[i].kind \in {"click", "rebuild"} /\ Linked
  BY OneInEngine
<1>2. Step(i, Over) /\ engine' = e /\ sampling' = {}
  BY <1>1, Ends DEF Failed
<1>3. ui \in [text : {"start", "stop"}, disabled : BOOLEAN, rebuilding : BOOLEAN]
  BY DEF Typed, Shown
<1>4. ui'.text = "start" /\ ~ui'.disabled
  <2>1. CASE ops[i].kind = "click"
    <3>1. ui.text = "start" /\ ui' = [ui EXCEPT !.disabled = FALSE]
      BY <1>1, <2>1 DEF Button, Failed
    <3> QED
      BY <1>3, <3>1
  <2>2. CASE ops[i].kind = "rebuild"
    <3>1. ~ui.disabled /\ ui' = [ui EXCEPT !.text = "start", !.rebuilding = FALSE]
      BY <1>1, <2>2 DEF Button, Failed
    <3> QED
      BY <1>3, <3>1
  <2> QED
    BY <1>1, <2>1, <2>2
<1>5. Sampled'
  BY <1>2 DEF Sampled
<1> QED
  BY <1>1, <1>2, <1>4, <1>5, EndOrderly

\* It succeeds: all units are sampled.
LEMMA StartedOrderly ==
  ASSUME Typed, Orderly, NEW i \in 1 .. Len(ops), InEngine(i), "overlap" \notin trouble,
         NEW e, Started(i, e), e.running, e.ctx # None, contexts'[e.ctx].open, units' = units
  PROVE  Orderly'
<1>1. /\ Button(i) /\ \A j \in 1 .. Len(ops) : InEngine(j) => j = i
      /\ ops[i].kind \in {"click", "rebuild"} /\ Linked
  BY OneInEngine
<1>2. Step(i, Over) /\ engine' = e /\ sampling' = ToSet(units)
  BY <1>1, Ends DEF Started
<1>3. ui \in [text : {"start", "stop"}, disabled : BOOLEAN, rebuilding : BOOLEAN]
  BY DEF Typed, Shown
<1>4. ui'.text = "stop" /\ ~ui'.disabled
  <2>1. ui' = [ui EXCEPT !.text = "stop", !.disabled = @ /\ ops[i].kind # "click",
                         !.rebuilding = @ /\ ops[i].kind # "rebuild"]
    BY DEF Started
  <2>2. PICK d : d = (ui.disabled /\ ops[i].kind # "click")
    OBVIOUS
  <2>3. d = FALSE
    BY <1>1, <2>2 DEF Button
  <2> QED
    BY <1>3, <2>1, <2>2, <2>3
<1>5. Sampled'
  BY <1>2 DEF Sampled
<1> QED
  BY <1>1, <1>2, <1>4, <1>5, EndOrderly

\* The steps of a start, one by one: no context is lost while one handler is in the engine.
LEMMA ResumedOrderly ==
  ASSUME Typed, Orderly, NEW i \in 1 .. Len(ops), Resumed(i), "overlap" \notin trouble
  PROVE  Orderly'
<1>1. InEngine(i) /\ ops[i].at = "resume"
  BY DEF Resumed, InEngine, Starting
<1>2. /\ AtContext(i) /\ Button(i) /\ ~engine.running /\ sampling = {} /\ Linked
      /\ \A j \in 1 .. Len(ops) : InEngine(j) => j = i
  BY <1>1, OneInEngine
<1>3. /\ UNCHANGED <<engine, ui, sampling, contexts>>
      /\ \E h \in HandlerState : Onward(i, h, "chain", engine.ctx)
  BY <1>2, ResumedIs DEF AtContext
<1>4. PICK h \in HandlerState : Onward(i, h, "chain", engine.ctx)
  BY <1>3
<1>5. Step(i, h) /\ h.kind = ops[i].kind /\ h.at = "chain" /\ h.on = engine'.ctx /\ h.at \in InStates
  BY <1>3, <1>4 DEF Onward, InStates, Starting
<1>6. ~engine'.running /\ engine'.ctx # None /\ contexts'[engine'.ctx].open /\ sampling' = {}
  BY <1>2, <1>3 DEF AtContext
<1>7. /\ h.kind = "click" /\ h.at \in Starting => ui'.text = "start"
      /\ h.kind = "rebuild" \/ h.at = "closing" => ~ui'.disabled
  BY <1>1, <1>2, <1>3, <1>5 DEF Button, Starting
<1> QED
  BY <1>2, <1>5, <1>6, <1>7, InsideOrderly

\* The chain node is made in the context that has the worklet.
LEMMA ChainLoadedOrderly ==
  ASSUME Typed, Orderly, NEW i \in 1 .. Len(ops), ChainLoaded(i), "overlap" \notin trouble
  PROVE  Orderly'
<1>1. InEngine(i) /\ ops[i].at = "chain"
  BY DEF ChainLoaded, InEngine, Starting
<1>2. /\ AtContext(i) /\ Button(i) /\ ~engine.running /\ sampling = {} /\ Linked
      /\ \A j \in 1 .. Len(ops) : InEngine(j) => j = i
  BY <1>1, OneInEngine
<1>3. /\ SameOpen /\ ops[i].on \in 1 .. Len(contexts) /\ contexts'[ops[i].on].chain = TRUE
      /\ ops[i].on = engine.ctx /\ engine.ctx # None
  BY <1>2, ChainLoadedIs DEF AtContext
<1>4. /\ engine' = [engine EXCEPT !.node = engine.ctx] /\ UNCHANGED <<ui, sampling, trouble>>
      /\ \E h \in HandlerState : Onward(i, h, "playback", engine.ctx)
  BY <1>2, <1>3, ChainLoadedIs
<1>5. PICK h \in HandlerState : Onward(i, h, "playback", engine.ctx)
  BY <1>4
<1>6. /\ ~engine'.running /\ engine'.ctx = engine.ctx /\ engine'.node = engine.ctx
  <2>1. engine \in EngineState(Len(contexts), streams)
    BY <1>2 DEF Linked
  <2> QED
    BY <1>2, <1>4, <2>1 DEF EngineState
<1>7. Step(i, h) /\ h.kind = ops[i].kind /\ h.at = "playback" /\ h.on = engine'.ctx /\ h.at \in InStates
  BY <1>5, <1>6 DEF Onward, InStates, Starting
<1>8. engine'.ctx # None /\ contexts'[engine'.ctx].open /\ sampling' = {}
  BY <1>2, <1>3, <1>4, <1>6 DEF AtContext, SameOpen
<1>9. /\ h.kind = "click" /\ h.at \in Starting => ui'.text = "start"
      /\ h.kind = "rebuild" \/ h.at = "closing" => ~ui'.disabled
      /\ h.at \in {"playback", "mic"} => engine'.node = engine'.ctx /\ h.at # "mic"
  BY <1>1, <1>2, <1>4, <1>6, <1>7 DEF Button, Starting
<1> QED
  BY <1>2, <1>6, <1>7, <1>8, <1>9, InsideOrderly

\* start returns: the node that plays is there, for the handler made it.
LEMMA RunsOrderly ==
  ASSUME Typed, Orderly, NEW i \in 1 .. Len(ops), InEngine(i), "overlap" \notin trouble,
         NEW n, NEW s, NEW e \in EngineState(n, s), Runs(i, e), e.node # None,
         e.ctx # None, contexts'[e.ctx].open, units' = units
  PROVE  Orderly' /\ \E r : r = [e EXCEPT !.running = TRUE] /\ Started(i, r)
<1>1. PICK r : r = [e EXCEPT !.running = TRUE]
  OBVIOUS
<1>2. Started(i, r)
  BY <1>1 DEF Runs
<1>3. r.running /\ r.ctx = e.ctx
  BY <1>1 DEF EngineState
<1> QED
  BY <1>1, <1>2, <1>3, StartedOrderly

\* The playback node is made there too; a source that is left ends the start.
LEMMA PlaybackLoadedOrderly ==
  ASSUME Typed, Orderly, NEW i \in 1 .. Len(ops), PlaybackLoaded(i), "overlap" \notin trouble
  PROVE  Orderly'
<1>1. InEngine(i) /\ ops[i].at = "playback"
  BY DEF PlaybackLoaded, InEngine, Starting
<1>2. /\ AtContext(i) /\ Button(i) /\ ~engine.running /\ sampling = {} /\ Linked
      /\ \A j \in 1 .. Len(ops) : InEngine(j) => j = i
  BY <1>1, OneInEngine
<1>3. /\ SameOpen /\ ops[i].on \in 1 .. Len(contexts) /\ contexts'[ops[i].on].playback = TRUE
      /\ ops[i].on = engine.ctx /\ engine.ctx # None /\ engine.node = engine.ctx
      /\ units' = units
  BY <1>1, <1>2, PlaybackLoadedIs DEF AtContext
<1>4. engine \in EngineState(Len(contexts), streams)
  BY <1>2 DEF Linked
<1>5. contexts'[engine.ctx].open
  BY <1>2, <1>3 DEF AtContext, SameOpen
<1>6. PICK p : p = [engine EXCEPT !.play = engine.ctx]
  OBVIOUS
<1>7. /\ p \in EngineState(Len(contexts), streams) /\ p.ctx = engine.ctx /\ p.play = engine.ctx
      /\ p.node = engine.ctx /\ ~p.running
  BY <1>2, <1>3, <1>4, <1>6 DEF EngineState
<1>8. \/ Runs(i, p)
      \/ /\ engine' = p /\ UNCHANGED <<ui, sampling, trouble>>
         /\ \E h \in HandlerState : Onward(i, h, "mic", ops[i].on)
  BY <1>2, <1>3, <1>6, PlaybackLoadedIs
<1>9. CASE Runs(i, p)
  BY <1>1, <1>3, <1>5, <1>7, <1>9, RunsOrderly
<1>10. CASE /\ engine' = p /\ UNCHANGED <<ui, sampling, trouble>>
            /\ \E h \in HandlerState : Onward(i, h, "mic", ops[i].on)
  <2>1. PICK h \in HandlerState : Onward(i, h, "mic", ops[i].on)
    BY <1>10
  <2>2. Step(i, h) /\ h.kind = ops[i].kind /\ h.at = "mic" /\ h.on = engine'.ctx /\ h.at \in InStates
    BY <1>3, <1>7, <1>10, <2>1 DEF Onward, InStates, Starting
  <2>3. ~engine'.running /\ engine'.ctx # None /\ contexts'[engine'.ctx].open /\ sampling' = {}
    BY <1>2, <1>3, <1>5, <1>7, <1>10
  <2>4. /\ h.kind = "click" /\ h.at \in Starting => ui'.text = "start"
        /\ h.kind = "rebuild" \/ h.at = "closing" => ~ui'.disabled
        /\ h.at \in {"playback", "mic"} => engine'.node = engine'.ctx
        /\ h.at = "mic" => engine'.play = engine'.ctx
    BY <1>1, <1>2, <1>7, <1>10, <2>2 DEF Button, Starting
  <2> QED
    BY <1>2, <2>2, <2>3, <2>4, InsideOrderly
<1> QED
  BY <1>8, <1>9, <1>10

\* The start ends, with a microphone or without.
LEMMA MicAnswersOrderly ==
  ASSUME Typed, Orderly, NEW i \in 1 .. Len(ops), NEW granted \in BOOLEAN, MicAnswers(i, granted),
         "overlap" \notin trouble
  PROVE  Orderly'
<1>1. InEngine(i) /\ ops[i].at = "mic" /\ units' = units /\ contexts' = contexts
  BY DEF MicAnswers, InEngine, Starting
<1>2. AtContext(i) /\ Linked
  BY <1>1, OneInEngine
<1>3. engine \in EngineState(Len(contexts), streams)
  BY <1>2 DEF Linked
<1>4. PICK e : e = IF granted THEN [engine EXCEPT !.mic = i, !.source = engine.ctx] ELSE engine
  OBVIOUS
<1>5. Runs(i, e)
  BY <1>4 DEF MicAnswers
<1>6. /\ e \in EngineState(Len(contexts), streams \cup {i}) /\ e.node = engine.node /\ e.ctx = engine.ctx
  BY <1>3, <1>4 DEF EngineState
<1>7. engine.ctx # None /\ engine.node = engine.ctx /\ contexts'[engine.ctx].open
  BY <1>1, <1>2 DEF AtContext
<1> QED
  BY <1>1, <1>5, <1>6, <1>7, RunsOrderly

\* A worklet that does not load ends the start.
LEMMA WorkletFailsOrderly ==
  ASSUME Typed, Orderly, NEW i \in 1 .. Len(ops), WorkletFails(i), "overlap" \notin trouble
  PROVE  Orderly'
<1>1. InEngine(i) /\ ops[i].at \in Starting /\ Failed(i, engine)
  BY DEF WorkletFails, InEngine, Starting
<1>2. ~engine.running
  BY <1>1, OneInEngine
<1> QED
  BY <1>1, <1>2, FailedOrderly

\* A stop ends, or goes over into the start of a rebuild.
LEMMA ClosedOrderly ==
  ASSUME Typed, Orderly, NEW i \in 1 .. Len(ops), Closed(i), "overlap" \notin trouble
  PROVE  Orderly'
<1>1. InEngine(i) /\ ops[i].at = "closing"
  BY DEF Closed, InEngine
<1>2. /\ AtContext(i) /\ Button(i) /\ ~engine.running /\ sampling = {} /\ Linked
      /\ \A j \in 1 .. Len(ops) : InEngine(j) => j = i
      /\ ops[i].kind \in {"click", "rebuild"} /\ ~ui.disabled
  BY <1>1, OneInEngine DEF Button
<1>3. ~Refused(i)
  <2>1. contexts[ops[i].on].open
    BY <1>2 DEF AtContext
  <2>2. DOMAIN ops = 1 .. Len(ops)
    BY <1>2, LenProperties DEF Linked
  <2>3. \A j \in 1 .. Len(ops) : ops[j].at = "closing" => j = i
    BY <1>2 DEF InEngine
  <2> QED
    BY <2>1, <2>2, <2>3 DEF Refused
<1>4. ui \in [text : {"start", "stop"}, disabled : BOOLEAN, rebuilding : BOOLEAN]
  BY DEF Typed, Shown
<1>5. PICK e : e = Gone(engine)
  OBVIOUS
<1>6. ~e.running
  <2>1. engine \in EngineState(Len(contexts), streams)
    BY <1>2 DEF Linked
  <2> QED
    BY <1>2, <1>5, <2>1 DEF EngineState, Gone
<1>7. CASE ops[i].kind = "click"
  <2>1. /\ engine' = e /\ ui' = [ui EXCEPT !.text = "start"] /\ ops' = [ops EXCEPT ![i] = Over]
        /\ sampling' = sampling
    BY <1>3, <1>5, <1>7, ClosedCases
  <2>2. Step(i, Over)
    <3>1. ops \in Seq(HandlerState)
      BY <1>2 DEF Linked
    <3> QED
      BY <2>1, <3>1, OverState, Put
  <2>3. ui'.text = "start" /\ ~ui'.disabled
    BY <1>2, <1>4, <2>1
  <2>4. Sampled'
    BY <1>2, <1>6, <2>1 DEF Sampled
  <2> QED
    BY <1>2, <1>6, <2>1, <2>2, <2>3, <2>4, EndOrderly
<1>8. CASE ops[i].kind = "rebuild"
  <2>1. PICK cs : cs = Shut(i)
    OBVIOUS
  <2>2. NewContext(i, e, ops, cs) /\ UNCHANGED <<sampling, ui>>
    BY <1>2, <1>3, <1>5, <1>8, <2>1, ClosedCases
  <2>3. cs \in Seq(ContextState)
    BY <1>2, <2>1, ClosedState
  <2>4. /\ Len(cs) \in Nat /\ contexts'[Len(cs) + 1] = Context /\ engine' = [e EXCEPT !.ctx = Len(cs) + 1]
        /\ \E at \in {"resume", "chain"} : ops' = Forward(ops, i, at, Len(cs) + 1)
    BY <2>2, <2>3, NewContextState
  <2>5. PICK at \in {"resume", "chain"} : ops' = Forward(ops, i, at, Len(cs) + 1)
    BY <2>4
  <2>6. at \in InStates /\ Len(cs) + 1 \in Nat /\ ops \in Seq(HandlerState)
    BY <1>2, <2>4 DEF InStates, Starting, Linked
  <2>7. PICK h \in HandlerState : Onward(i, h, at, Len(cs) + 1)
    BY <2>5, <2>6, Moves
  <2>8. engine'.ctx = Len(cs) + 1 /\ ~engine'.running
    <3>1. engine \in EngineState(Len(contexts), streams)
      BY <1>2 DEF Linked
    <3>2. Len(contexts) \in Nat
      BY <1>2, LenProperties DEF Linked
    <3>3. e \in EngineState(Len(contexts), streams)
      BY <1>5, <3>1, <3>2, NewEngine
    <3> QED
      BY <1>6, <2>4, <3>3 DEF EngineState
  <2>9. engine'.ctx # None /\ contexts'[engine'.ctx].open
    BY <2>4, <2>8 DEF Context, None
  <2>10. /\ Step(i, h) /\ h.kind = "rebuild" /\ h.at = at /\ h.on = engine'.ctx /\ h.at \in InStates
         /\ h.at \notin {"playback", "mic"} /\ h.at # "mic" /\ sampling' = {} /\ ~ui'.disabled
    BY <1>2, <1>8, <2>2, <2>6, <2>7, <2>8 DEF Onward
  <2> QED
    BY <1>2, <2>8, <2>9, <2>10, InsideOrderly
<1> QED
  BY <1>2, <1>7, <1>8

\* All of them; after an overlap nothing is claimed.
LEMMA EngineStepOrderly ==
  ASSUME Typed, Orderly, NEW i \in 1 .. Len(ops), EngineStep(i)
  PROVE  Orderly'
<1>1. trouble \subseteq trouble'
  BY EngineStepFacts
<1>2. CASE "overlap" \in trouble
  BY <1>1, <1>2 DEF Orderly
<1>3. CASE "overlap" \notin trouble
  BY <1>3, ResumedOrderly, ChainLoadedOrderly, PlaybackLoadedOrderly, WorkletFailsOrderly, ClosedOrderly,
     MicAnswersOrderly DEF EngineStep
<1> QED
  BY <1>2, <1>3

\* A running engine is stopped: nobody is in it.
LEMMA StopsOrderly ==
  ASSUME Typed, Orderly, NEW i, NEW kind \in {"click", "rebuild"}, NEW h \in HandlerState, NEW t,
         Stops(i, kind, h, t), UNCHANGED contexts, ui'.disabled = ui.disabled
  PROVE  Orderly'
<1>1. SUFFICES ASSUME "overlap" \notin trouble
               PROVE  Orderly'
  BY DEF Orderly, Stops
<1>2. /\ Shows /\ engine.running /\ Linked
      /\ \A j \in 1 .. Len(ops) : InEngine(j) => AtContext(j)
  BY <1>1 DEF Orderly, Stops, Typed
<1>3. Free
  BY <1>2 DEF AtContext, Free
<1>4. ~ui'.disabled /\ engine.ctx # None /\ contexts'[engine.ctx].open
  BY <1>2, <1>3 DEF Shows
<1>5. /\ Step(i, h) /\ h.at = "closing" /\ h.on = engine.ctx /\ h.at \in InStates
      /\ sampling' = {} /\ engine' = [engine EXCEPT !.running = FALSE, !.mic = None]
      /\ h.at \notin Starting /\ h.at \notin {"playback", "mic"} /\ h.at # "mic"
  BY DEF Stops, InStates, Starting
<1>6. ~engine'.running /\ engine'.ctx = engine.ctx
  <2>1. engine \in EngineState(Len(contexts), streams)
    BY <1>2 DEF Linked
  <2> QED
    BY <1>5, <2>1 DEF EngineState
<1>7. \A j \in 1 .. Len(ops) : InEngine(j) => j = i
  BY <1>3 DEF Free
<1> QED
  BY <1>2, <1>4, <1>5, <1>6, <1>7, InsideOrderly

\* The button stops the engine that runs, or starts one when nobody else is in it.
LEMMA StartClickOrderly ==
  ASSUME Typed, Orderly, StartClick
  PROVE  Orderly'
<1>1. Linked /\ ui \in [text : {"start", "stop"}, disabled : BOOLEAN, rebuilding : BOOLEAN]
  BY DEF Typed, Shown
<1>2. CASE UNCHANGED <<ui, slots, contexts>> /\ \E h \in HandlerState : Stops(Fresh, "click", h, {})
  BY <1>2, StopsOrderly
<1>3. CASE \E h \in HandlerState : Starts(h)
  <2>1. PICK h \in HandlerState : Starts(h)
    BY <1>3
  <2>2. SUFFICES ASSUME "overlap" \notin trouble'
                 PROVE  Orderly'
    BY DEF Orderly
  <2>3. /\ ~engine.running /\ Step(Fresh, h) /\ h.kind = "click" /\ h.at \in {"resume", "chain"}
        /\ h.on = Len(contexts) + 1 /\ ui' = [ui EXCEPT !.disabled = TRUE]
        /\ contexts'[Len(contexts) + 1] = Context
        /\ engine' = [engine EXCEPT !.ctx = Len(contexts) + 1]
        /\ trouble' = trouble \cup Meets(Fresh) /\ sampling' = sampling
    BY <2>1 DEF Starts
  <2>4. /\ Len(contexts) \in Nat /\ DOMAIN ops = 1 .. Len(ops) /\ Len(ops) \in Nat
        /\ engine \in EngineState(Len(contexts), streams)
    BY <1>1, LenProperties DEF Linked
  <2>5. Free
    <3>1. Meets(Fresh) = {}
      BY <2>2, <2>3 DEF Meets
    <3>2. \A j \in DOMAIN ops \ {Fresh} : ~InEngine(j)
      BY <3>1 DEF Meets
    <3>3. \A j \in 1 .. Len(ops) : j # Fresh
      BY <2>4 DEF Fresh
    <3> QED
      BY <2>4, <3>2, <3>3 DEF Free
  <2>6. ui.text = "start" /\ sampling = {}
    BY <2>2, <2>3, <2>5 DEF Orderly, Shows, Sampled
  <2>7. ui'.text = "start" /\ sampling' = {}
    BY <1>1, <2>3, <2>6
  <2>8. engine'.ctx = Len(contexts) + 1 /\ ~engine'.running
    BY <2>3, <2>4 DEF EngineState
  <2>9. engine'.ctx # None /\ contexts'[engine'.ctx].open
    BY <2>3, <2>4, <2>8 DEF Context, None
  <2>10. /\ h.on = engine'.ctx /\ h.at \in InStates /\ h.at \notin {"playback", "mic"} /\ h.at # "mic"
         /\ ~(h.kind = "rebuild" \/ h.at = "closing")
    BY <2>3, <2>8 DEF InStates, Starting
  <2>11. \A j \in 1 .. Len(ops) : InEngine(j) => j = Fresh
    BY <2>5 DEF Free
  <2> QED
    BY <1>1, <2>3, <2>7, <2>8, <2>9, <2>10, <2>11, InsideOrderly
<1> QED
  BY <1>1, <1>2, <1>3, StartClickIs

\* A page action that rebuilds: one that meets a rebuild finds no running engine.
LEMMA RebuiltOrderly ==
  ASSUME Typed, Orderly, NEW i, NEW us, NEW un, NEW t, Rebuilt(i, us, un, t)
  PROVE  Orderly'
<1>1. Linked /\ Rebuilds /\ ui \in [text : {"start", "stop"}, disabled : BOOLEAN, rebuilding : BOOLEAN]
  BY DEF Typed, Shown
<1>2. PICK os : Begins(i, os) /\ Rebuild(i, os, us, un, t)
  BY DEF Rebuilt
<1>3. UNCHANGED contexts
  BY <1>1, <1>2, RebuildIs
<1>4. CASE Skipped(i, us, t)
  <2>1. /\ Step(i, Over) /\ sampling' = sampling \cap ToSet(us) /\ trouble \subseteq trouble'
        /\ UNCHANGED <<engine, contexts, ui>> /\ (~engine.running \/ ui.rebuilding)
    BY <1>3, <1>4 DEF Skipped
  <2>2. i \in 1 .. Len(ops) => ~InEngine(i)
    BY <1>1, <1>2, NotRebuilding
  <2>3. SUFFICES ASSUME "overlap" \notin trouble'
                 PROVE  Orderly'
    BY DEF Orderly
  <2>4. Sampled /\ \A j \in 1 .. Len(ops) : InEngine(j) => AtContext(j)
    BY <2>1, <2>3 DEF Orderly
  <2>5. ~engine.running
    <3>1. ui.rebuilding => \E j \in 1 .. Len(ops) : InEngine(j)
      BY <1>1 DEF Rebuilds
    <3> QED
      BY <2>1, <2>4, <3>1 DEF AtContext
  <2>6. Sampled'
    BY <2>1, <2>4, <2>5 DEF Sampled
  <2>7. Over.at \notin InStates
    BY OverState DEF InStates, Starting
  <2> QED
    BY <1>1, <2>1, <2>2, <2>6, <2>7, OutsideOrderly
<1>5. CASE ui' = [ui EXCEPT !.rebuilding = TRUE] /\ \E h \in HandlerState : Stops(i, "rebuild", h, t)
  <2>1. ui'.disabled = ui.disabled
    BY <1>1, <1>5
  <2> QED
    BY <1>3, <1>5, <2>1, StopsOrderly
<1> QED
  BY <1>1, <1>2, <1>4, <1>5, RebuildIs

\* A unit that comes or changes waits for its module, and is not sampled until it has it.
LEMMA WaitingOrderly ==
  ASSUME Typed, Orderly, NEW u, NEW key, NEW us, NEW un, Waiting(u, key, us, un),
         left' \in [clicks : 0 .. Clicks, fails : 0 .. Fails],
         \A v \in ToSet(us) :
           \/ /\ v \in ToSet(units) /\ un[v].bindings = unit[v].bindings
              /\ un[v].designated = unit[v].designated
           \/ un[v].bindings = "none" /\ ~un[v].designated
  PROVE  Orderly'
<1>1. /\ units' = us /\ unit' = un /\ UNCHANGED <<sampling, engine, contexts, ui, trouble>>
  BY DEF Waits, Waiting
<1>2. PICK h \in HandlerState : Step(Fresh, h) /\ Fresh = Len(ops) + 1 /\ h.at = "loading"
  BY WaitingTyped
<1>3. Linked /\ h.at \notin InStates
  BY <1>2 DEF Typed, InStates, Starting
<1>4. ~(Fresh \in 1 .. Len(ops))
  BY <1>2, <1>3, LenProperties DEF Linked
<1>5. Sampled => Sampled'
  BY <1>1 DEF Sampled
<1> QED
  BY <1>1, <1>2, <1>3, <1>4, <1>5, OutsideOrderly

\* A module that does not load changes nothing of this.
LEMMA LoadFailsOrderly ==
  ASSUME Typed, Orderly, NEW i \in 1 .. Len(ops), LoadFails(i)
  PROVE  Orderly'
<1>1. /\ ops[i].at = "loading" /\ trouble' = trouble \cup {"unloaded"}
      /\ UNCHANGED <<units, unit, sampling, engine, contexts, ui>>
  BY DEF LoadFails
<1>2. Step(i, Over) /\ Linked /\ Over.at \notin InStates /\ ~InEngine(i)
  BY <1>1, LoadFailsTyped, OverState DEF Typed, InStates, InEngine, Starting
<1>3. Sampled => Sampled'
  BY <1>1 DEF Sampled
<1> QED
  BY <1>1, <1>2, <1>3, OutsideOrderly

\* Nobody is in the engine at first.
LEMMA OrderlyInit == ASSUME Init PROVE Orderly
<1>1. /\ sampling = {} /\ ui = [text |-> "start", disabled |-> FALSE, rebuilding |-> FALSE]
      /\ engine = [running |-> FALSE, ctx |-> None, node |-> None, play |-> None, source |-> None,
                   mic |-> None]
      /\ ops = <<Handler("add", "loading", 1, "delay")>>
  BY DEF Init
<1>2. Len(ops) = 1 /\ ops[1].at = "loading"
  BY <1>1 DEF Handler
<1>3. \A i \in 1 .. Len(ops) : ~InEngine(i)
  BY <1>2 DEF InEngine, Starting
<1>4. Shows /\ Sampled
  BY <1>1 DEF Shows, Sampled
<1> QED
  BY <1>3, <1>4 DEF Orderly, Alone

\* Every action keeps the order.
LEMMA OrderlyNext ==
  ASSUME Typed, Orderly, [Next]_vars
  PROVE  Orderly'
<1>1. Chained /\ Linked /\ Shown /\ DOMAIN ops = 1 .. Len(ops)
  BY LenProperties DEF Typed, Linked
<1>2. ASSUME left.clicks > 0, left' = [left EXCEPT !.clicks = @ - 1]
      PROVE  left' \in [clicks : 0 .. Clicks, fails : 0 .. Fails]
  BY <1>1, <1>2, ClicksLeft
<1>3. /\ Len(unit) \in Nat /\ \A v \in ToSet(units) : v \in 1 .. Len(unit)
  BY <1>1, UnitFacts
<1>4. CASE Click(StartClick)
  BY <1>4, StartClickOrderly DEF Click
<1>5. CASE Click(AddUnit)
  <2>1. PICK us, un : /\ Waiting(Len(un), "passthrough", us, un)
                      /\ ToSet(us) = ToSet(units) \cup {Len(un)}
                      /\ ~un[Len(un)].designated /\ un[Len(un)].bindings = "none"
                      /\ \A v \in 1 .. Len(unit) : SameUnit(v, un)
    BY <1>1, <1>5, AddUnitIs DEF Click
  <2>2. \A v \in ToSet(us) :
          \/ /\ v \in ToSet(units) /\ un[v].bindings = unit[v].bindings
             /\ un[v].designated = unit[v].designated
          \/ un[v].bindings = "none" /\ ~un[v].designated
    BY <1>3, <2>1 DEF SameUnit
  <2> QED
    BY <1>2, <1>5, <2>1, <2>2, WaitingOrderly DEF Click
<1>6. ASSUME NEW u \in ToSet(units), NEW key \in Keys, Click(ChangeModule(u, key)) PROVE Orderly'
  <2>1. PICK un : /\ \A v \in 1 .. Len(unit) : v # u => SameUnit(v, un)
                  /\ un[u].designated = unit[u].designated /\ un[u].bindings = unit[u].bindings
                  /\ Rebuilt(Fresh, units, un, {}) \/ Waiting(u, key, units, un)
    BY <1>1, <1>6, ChangeModuleIs DEF Click
  <2>2. \A v \in ToSet(units) : /\ un[v].bindings = unit[v].bindings
                                /\ un[v].designated = unit[v].designated
    BY <1>3, <2>1 DEF SameUnit
  <2> QED
    BY <1>2, <1>6, <2>1, <2>2, RebuiltOrderly, WaitingOrderly DEF Click
<1>7. ASSUME NEW u \in ToSet(units), NEW on \in BOOLEAN, Click(SetHardwareDesignated(u, on))
      PROVE  Orderly'
  <2>1. PICK key : key = unit[u].key
    OBVIOUS
  <2>2. PICK un : /\ \A v \in 1 .. Len(unit) : v # u => SameUnit(v, un)
                  /\ un[u].designated = on
                  /\ un[u].bindings = IF on THEN "none" ELSE unit[u].bindings
                  /\ \/ Rebuilt(Fresh, units, un, {})
                     \/ ~on /\ unit[u].bindings = "none" /\ Waiting(u, key, units, un)
    BY <1>1, <1>7, <2>1, SetHardwareDesignatedIs DEF Click
  <2>3. CASE Rebuilt(Fresh, units, un, {})
    BY <2>3, RebuiltOrderly
  <2>4. CASE ~on /\ unit[u].bindings = "none" /\ Waiting(u, key, units, un)
    <3>1. un[u].bindings = "none" /\ ~un[u].designated
      BY <2>2, <2>4
    <3>2. \A v \in ToSet(units) : v # u => /\ un[v].bindings = unit[v].bindings
                                           /\ un[v].designated = unit[v].designated
      BY <1>3, <2>2 DEF SameUnit
    <3> QED
      BY <1>2, <1>7, <2>4, <3>1, <3>2, WaitingOrderly DEF Click
  <2> QED
    BY <2>2, <2>3, <2>4
<1>8. ASSUME NEW u \in ToSet(units), NEW v \in ToSet(units), Click(Drop(u, v)) PROVE Orderly'
  BY <1>1, <1>8, DropIs, RebuiltOrderly DEF Click
<1>9. ASSUME NEW u \in ToSet(units), Click(ToggleLoopback(u)) PROVE Orderly'
  BY <1>1, <1>9, ToggleLoopbackIs, RebuiltOrderly DEF Click
<1>10. ASSUME NEW u \in ToSet(units), Click(DeleteUnit(u)) PROVE Orderly'
  BY <1>1, <1>10, DeleteUnitIs, RebuiltOrderly DEF Click
<1>11. ASSUME NEW i \in 1 .. Len(ops), Loaded(i) PROVE Orderly'
  BY <1>11, LoadedIs, RebuiltOrderly
<1>12. ASSUME NEW i \in 1 .. Len(ops), LoadFails(i) PROVE Orderly'
  BY <1>12, LoadFailsOrderly
<1>13. ASSUME NEW i \in 1 .. Len(ops), EngineStep(i) PROVE Orderly'
  BY <1>13, EngineStepOrderly
<1>14. CASE UNCHANGED vars
  BY <1>14 DEF vars, Orderly, Alone, Shows, Sampled, Free, InEngine, AtContext, Button
<1> QED
  BY <1>1, <1>4, <1>5, <1>6, <1>7, <1>8, <1>9, <1>10, <1>11, <1>12, <1>13, <1>14
     DEF Next, EngineStep

\* When nobody is in the engine, the page shows it.
LEMMA OrderlyAtRest ==
  ASSUME Typed, Orderly
  PROVE  ShownAsRunning
<1>1. SUFFICES ASSUME Settled, "overlap" \notin trouble
               PROVE  ShownAsRunning
  BY DEF ShownAsRunning
<1>2. Shows /\ Sampled /\ DOMAIN ops = 1 .. Len(ops) /\ Rebuilds
  BY <1>1, LenProperties DEF Orderly, Typed, Linked
<1>3. Free
  BY <1>1, <1>2 DEF Settled, Free
<1>4. ~ui.rebuilding
  BY <1>2, <1>3 DEF Rebuilds, Free
<1> QED
  BY <1>2, <1>3, <1>4 DEF ShownAsRunning, Shows, Sampled

\* Whenever no start or stop is on its way, the button and the level graphs show what the engine
\* does, also after a restart that failed at any of its awaits, unless two handlers met in the
\* engine: rebuildInProgress and the disabled button keep apart what goes through them.
THEOREM PageShownAsRunning == Spec => []ShownAsRunning
<1>1. Init => Typed /\ Orderly
  BY TypedInit, OrderlyInit
<1>2. Typed /\ Orderly /\ [Next]_vars => (Typed /\ Orderly)'
  BY TypedNext, OrderlyNext
<1> QED
  BY <1>1, <1>2, OrderlyAtRest, PTL DEF Spec

-----------------------------------------------------------------------------
(***************************************************************************)
(* What the engine holds.                                                  *)
(***************************************************************************)
\* The only open context is the engine's; a source is left to a handler that closes it.
Complete ==
  /\ engine.node = engine.ctx /\ engine.play = engine.ctx
  /\ engine.source = (IF engine.mic = None THEN None ELSE engine.ctx)

Neat ==
  trouble \cap {"overlap", "failed"} = {} =>
    /\ streams = {engine.mic} \ {None}
    /\ \A c \in 1 .. Len(contexts) : contexts[c].open => c = engine.ctx
    /\ IF engine.running THEN Complete
       ELSE engine.mic = None /\ (Free => engine.ctx = None /\ engine.source = None)
    /\ \A i \in 1 .. Len(ops) : ops[i].at \in Starting => engine.source = None

\* A handler outside the engine ends, or begins to wait for a module.
LEMMA OutsideNeat ==
  ASSUME Linked, Neat, NEW i, NEW h, Step(i, h), h.at \notin InStates,
         i \in 1 .. Len(ops) => ~InEngine(i), UNCHANGED <<engine, contexts, streams>>,
         trouble \subseteq trouble'
  PROVE  Neat'
<1>1. SUFFICES ASSUME trouble' \cap {"overlap", "failed"} = {}
               PROVE  /\ ~engine.running /\ Free' => engine.ctx = None /\ engine.source = None
                      /\ \A j \in 1 .. Len(ops') : ops'[j].at \in Starting => engine.source = None
  BY DEF Neat, Complete
<1>2. /\ ~engine.running /\ Free => engine.ctx = None /\ engine.source = None
      /\ \A j \in 1 .. Len(ops) : ops[j].at \in Starting => engine.source = None
  BY <1>1 DEF Neat
<1>3. ops'[i].at \notin Starting
  BY DEF Step, InStates
<1>4. \A j \in 1 .. Len(ops') : j # i => j \in 1 .. Len(ops) /\ ops'[j] = ops[j]
  BY Others
<1>5. ASSUME NEW j \in 1 .. Len(ops), InEngine(j) PROVE j \in 1 .. Len(ops') /\ InEngine(j)'
  <2>1. j # i
    BY <1>5
  <2>2. j \in 1 .. Len(ops') /\ ops'[j] = ops[j]
    BY <2>1, StillLoads
  <2> QED
    BY <1>5, <2>2 DEF InEngine
<1>6. Free' => Free
  BY <1>5 DEF Free
<1> QED
  BY <1>2, <1>3, <1>4, <1>6

\* A handler enters the engine, or goes on in it.
LEMMA InsideNeat ==
  ASSUME Linked, NEW i, NEW h, Step(i, h), h.at \in InStates,
         \A j \in 1 .. Len(ops) : InEngine(j) => j = i,
         ~engine'.running, engine'.mic = None, streams' = {},
         \A c \in 1 .. Len(contexts') : contexts'[c].open => c = engine'.ctx,
         h.at \in Starting => engine'.source = None
  PROVE  Neat'
<1>1. /\ \A j \in 1 .. Len(ops') : InEngine(j)' => j = i
      /\ ~Free' /\ ops'[i] = h
  BY Entered
<1>2. \A j \in 1 .. Len(ops') : ops'[j].at \in Starting => engine'.source = None
  BY <1>1 DEF InEngine
<1> QED
  BY <1>1, <1>2 DEF Neat

\* The handler ends.
LEMMA EndNeat ==
  ASSUME Linked, NEW i, Step(i, Over), \A j \in 1 .. Len(ops) : InEngine(j) => j = i,
         streams' = {engine'.mic} \ {None},
         \A c \in 1 .. Len(contexts') : contexts'[c].open => c = engine'.ctx,
         IF engine'.running THEN Complete'
         ELSE engine'.mic = None /\ engine'.ctx = None /\ engine'.source = None
  PROVE  Neat'
<1>1. Over.at \notin InStates
  BY OverState DEF InStates, Starting
<1>2. Free'
  BY <1>1, Entered
<1>3. \A j \in 1 .. Len(ops') : ops'[j].at \notin Starting
  BY <1>2 DEF Free, InEngine
<1> QED
  BY <1>3 DEF Neat

\* What holds of the engine while a handler is in it.
LEMMA OneNeat ==
  ASSUME Typed, Orderly, Neat, NEW i \in 1 .. Len(ops), InEngine(i),
         trouble \cap {"overlap", "failed"} = {}
  PROVE  /\ AtContext(i) /\ ~engine.running /\ engine.mic = None /\ streams = {}
         /\ \A j \in 1 .. Len(ops) : InEngine(j) => j = i
         /\ \A c \in 1 .. Len(contexts) : contexts[c].open => c = engine.ctx
         /\ ops[i].at \in Starting => engine.source = None
         /\ ops[i].kind \in {"click", "rebuild"} /\ Linked
         /\ engine \in EngineState(Len(contexts), streams)
<1>1. /\ AtContext(i) /\ ~engine.running /\ Linked /\ ops[i].kind \in {"click", "rebuild"}
      /\ \A j \in 1 .. Len(ops) : InEngine(j) => j = i
  BY OneInEngine
<1>2. /\ engine.mic = None /\ streams = {engine.mic} \ {None}
      /\ \A c \in 1 .. Len(contexts) : contexts[c].open => c = engine.ctx
      /\ ops[i].at \in Starting => engine.source = None
  BY <1>1 DEF Neat
<1>3. streams = {}
  BY <1>2
<1>4. engine \in EngineState(Len(contexts), streams)
  BY <1>1 DEF Linked
<1> QED
  BY <1>1, <1>2, <1>3, <1>4

\* The steps of a start, one by one: the context stays the only one.
LEMMA ResumedNeat ==
  ASSUME Typed, Orderly, Neat, NEW i \in 1 .. Len(ops), Resumed(i),
         trouble \cap {"overlap", "failed"} = {}
  PROVE  Neat'
<1>1. InEngine(i) /\ ops[i].at \in Starting
  BY DEF Resumed, InEngine, Starting
<1>2. /\ AtContext(i) /\ ~engine.running /\ engine.mic = None /\ streams = {} /\ Linked
      /\ \A j \in 1 .. Len(ops) : InEngine(j) => j = i
      /\ \A c \in 1 .. Len(contexts) : contexts[c].open => c = engine.ctx
      /\ engine.source = None
  BY <1>1, OneNeat
<1>3. /\ UNCHANGED <<engine, contexts, streams>>
      /\ \E h \in HandlerState : Onward(i, h, "chain", engine.ctx)
  BY <1>2, ResumedIs DEF AtContext
<1>4. PICK h \in HandlerState : Onward(i, h, "chain", engine.ctx)
  BY <1>3
<1>5. Step(i, h) /\ h.at \in InStates
  BY <1>4 DEF Onward, InStates, Starting
<1>6. /\ ~engine'.running /\ engine'.mic = None /\ streams' = {} /\ engine'.source = None
      /\ \A c \in 1 .. Len(contexts') : contexts'[c].open => c = engine'.ctx
  BY <1>2, <1>3
<1> QED
  BY <1>2, <1>5, <1>6, InsideNeat

\* Its first node is made.
LEMMA ChainLoadedNeat ==
  ASSUME Typed, Orderly, Neat, NEW i \in 1 .. Len(ops), ChainLoaded(i),
         trouble \cap {"overlap", "failed"} = {}
  PROVE  Neat'
<1>1. InEngine(i) /\ ops[i].at \in Starting
  BY DEF ChainLoaded, InEngine, Starting
<1>2. /\ AtContext(i) /\ ~engine.running /\ engine.mic = None /\ streams = {} /\ Linked
      /\ \A j \in 1 .. Len(ops) : InEngine(j) => j = i
      /\ \A c \in 1 .. Len(contexts) : contexts[c].open => c = engine.ctx
      /\ engine.source = None /\ engine \in EngineState(Len(contexts), streams)
  BY <1>1, OneNeat
<1>3. /\ SameOpen /\ contexts'[ops[i].on].chain = TRUE /\ streams' = streams
      /\ ops[i].on = engine.ctx /\ engine.ctx # None
  BY <1>2, ChainLoadedIs DEF AtContext
<1>4. /\ engine' = [engine EXCEPT !.node = engine.ctx]
      /\ \E h \in HandlerState : Onward(i, h, "playback", engine.ctx)
  BY <1>2, <1>3, ChainLoadedIs
<1>5. PICK h \in HandlerState : Onward(i, h, "playback", engine.ctx)
  BY <1>4
<1>6. /\ ~engine'.running /\ engine'.ctx = engine.ctx /\ engine'.mic = None /\ engine'.source = None
  BY <1>2, <1>4 DEF EngineState
<1>7. Step(i, h) /\ h.at \in InStates
  BY <1>5 DEF Onward, InStates, Starting
<1>8. streams' = {} /\ \A c \in 1 .. Len(contexts') : contexts'[c].open => c = engine'.ctx
  BY <1>2, <1>3, <1>6 DEF SameOpen
<1> QED
  BY <1>2, <1>6, <1>7, <1>8, InsideNeat

\* Its second node is made, and the microphone is asked for.
LEMMA PlaybackLoadedNeat ==
  ASSUME Typed, Orderly, Neat, NEW i \in 1 .. Len(ops), PlaybackLoaded(i),
         trouble \cap {"overlap", "failed"} = {}
  PROVE  Neat'
<1>1. InEngine(i) /\ ops[i].at \in Starting
  BY DEF PlaybackLoaded, InEngine, Starting
<1>2. /\ AtContext(i) /\ ~engine.running /\ engine.mic = None /\ streams = {} /\ Linked
      /\ \A j \in 1 .. Len(ops) : InEngine(j) => j = i
      /\ \A c \in 1 .. Len(contexts) : contexts[c].open => c = engine.ctx
      /\ engine.source = None /\ engine \in EngineState(Len(contexts), streams)
  BY <1>1, OneNeat
<1>3. /\ SameOpen /\ contexts'[ops[i].on].playback = TRUE /\ streams' = streams
      /\ ops[i].on = engine.ctx /\ engine.ctx # None
  BY <1>2, PlaybackLoadedIs DEF AtContext
<1>4. /\ engine' = [engine EXCEPT !.play = engine.ctx]
      /\ \E h \in HandlerState : Onward(i, h, "mic", ops[i].on)
  BY <1>2, <1>3, PlaybackLoadedIs
<1>5. PICK h \in HandlerState : Onward(i, h, "mic", ops[i].on)
  BY <1>4
<1>6. /\ ~engine'.running /\ engine'.ctx = engine.ctx /\ engine'.mic = None /\ engine'.source = None
  BY <1>2, <1>4 DEF EngineState
<1>7. Step(i, h) /\ h.at \in InStates
  BY <1>5 DEF Onward, InStates, Starting
<1>8. streams' = {} /\ \A c \in 1 .. Len(contexts') : contexts'[c].open => c = engine'.ctx
  BY <1>2, <1>3, <1>6 DEF SameOpen
<1> QED
  BY <1>2, <1>6, <1>7, <1>8, InsideNeat

\* The microphone's stream is the only one, and its source stands in the context that plays.
LEMMA MicAnswersNeat ==
  ASSUME Typed, Orderly, Neat, NEW i \in 1 .. Len(ops), NEW granted \in BOOLEAN,
         MicAnswers(i, granted), trouble \cap {"overlap", "failed"} = {}
  PROVE  Neat'
<1>1. /\ InEngine(i) /\ ops[i].at = "mic" /\ ops[i].at \in Starting
      /\ contexts' = contexts /\ units' = units
      /\ streams' = IF granted THEN streams \cup {i} ELSE streams
  BY DEF MicAnswers, InEngine, Starting
<1>2. /\ AtContext(i) /\ ~engine.running /\ engine.mic = None /\ streams = {} /\ Linked
      /\ \A j \in 1 .. Len(ops) : InEngine(j) => j = i
      /\ \A c \in 1 .. Len(contexts) : contexts[c].open => c = engine.ctx
      /\ engine.source = None /\ engine \in EngineState(Len(contexts), streams)
  BY <1>1, OneNeat
<1>3. PICK e : e = IF granted THEN [engine EXCEPT !.mic = i, !.source = engine.ctx] ELSE engine
  OBVIOUS
<1>4. Runs(i, e)
  BY <1>3 DEF MicAnswers
<1>5. /\ engine.ctx # None /\ engine.node = engine.ctx /\ engine.play = engine.ctx
      /\ contexts'[engine.ctx].open
  BY <1>1, <1>2 DEF AtContext
<1>6. /\ e \in EngineState(Len(contexts), streams \cup {i}) /\ e.node = engine.ctx /\ e.ctx = engine.ctx
      /\ e.play = engine.ctx /\ e.mic = (IF granted THEN i ELSE None)
      /\ e.source = (IF granted THEN engine.ctx ELSE None)
  BY <1>2, <1>3, <1>5 DEF EngineState
<1>7. "overlap" \notin trouble
  OBVIOUS
<1>8. PICK r : r = [e EXCEPT !.running = TRUE] /\ Started(i, r)
  BY <1>1, <1>4, <1>5, <1>6, <1>7, RunsOrderly
<1>9. /\ r.running /\ r.node = e.node /\ r.ctx = e.ctx /\ r.play = e.play /\ r.mic = e.mic
      /\ r.source = e.source
  BY <1>6, <1>8 DEF EngineState
<1>10. Step(i, Over) /\ engine' = r
  BY <1>2, <1>8, Ends DEF Started
<1>11. i # None
  BY DEF None
<1>12. Complete'
  BY <1>6, <1>9, <1>10, <1>11 DEF Complete
<1>13. streams' = {engine'.mic} \ {None}
  BY <1>1, <1>2, <1>6, <1>9, <1>10, <1>11
<1>14. \A c \in 1 .. Len(contexts') : contexts'[c].open => c = engine'.ctx
  BY <1>1, <1>2, <1>6, <1>9, <1>10
<1> QED
  BY <1>2, <1>9, <1>10, <1>12, <1>13, <1>14, EndNeat

\* The engine lets go of its context, which is closed; a rebuild opens another one.
LEMMA ClosedNeat ==
  ASSUME Typed, Orderly, Neat, NEW i \in 1 .. Len(ops), Closed(i),
         trouble \cap {"overlap", "failed"} = {}, trouble' \cap {"overlap", "failed"} = {}
  PROVE  Neat'
<1>1. InEngine(i) /\ ops[i].at = "closing" /\ streams' = streams
  BY DEF Closed, InEngine
<1>2. /\ AtContext(i) /\ ~engine.running /\ engine.mic = None /\ streams = {} /\ Linked
      /\ \A j \in 1 .. Len(ops) : InEngine(j) => j = i
      /\ \A c \in 1 .. Len(contexts) : contexts[c].open => c = engine.ctx
      /\ ops[i].kind \in {"click", "rebuild"} /\ engine \in EngineState(Len(contexts), streams)
  BY <1>1, OneNeat
<1>3. ~Refused(i)
  <2>1. contexts[ops[i].on].open /\ DOMAIN ops = 1 .. Len(ops)
    BY <1>2, LenProperties DEF AtContext, Linked
  <2>2. \A j \in 1 .. Len(ops) : ops[j].at = "closing" => j = i
    BY <1>2 DEF InEngine
  <2> QED
    BY <2>1, <2>2 DEF Refused
<1>4. PICK e : e = Gone(engine)
  OBVIOUS
<1>5. ~e.running /\ e.mic = None /\ e.ctx = None /\ e.source = None
  BY <1>2, <1>4 DEF EngineState, Gone
<1>6. PICK cs : cs = Shut(i)
  OBVIOUS
<1>7. /\ cs \in Seq(ContextState) /\ Len(cs) = Len(contexts)
      /\ \A c \in 1 .. Len(cs) : cs[c].open = (contexts[c].open /\ c # ops[i].on)
  BY <1>2, <1>6, ClosedState
<1>8. \A c \in 1 .. Len(cs) : ~cs[c].open
  BY <1>2, <1>7 DEF AtContext
<1>9. CASE ops[i].kind = "click"
  <2>1. engine' = e /\ contexts' = cs /\ ops' = [ops EXCEPT ![i] = Over]
    BY <1>3, <1>4, <1>6, <1>9, ClosedCases
  <2>2. Step(i, Over)
    <3>1. ops \in Seq(HandlerState)
      BY <1>2 DEF Linked
    <3> QED
      BY <2>1, <3>1, OverState, Put
  <2>3. streams' = {engine'.mic} \ {None}
    BY <1>1, <1>2, <1>5, <2>1
  <2>4. \A c \in 1 .. Len(contexts') : contexts'[c].open => c = engine'.ctx
    BY <1>8, <2>1
  <2> QED
    BY <1>2, <1>5, <2>1, <2>2, <2>3, <2>4, EndNeat
<1>10. CASE ops[i].kind = "rebuild"
  <2>1. NewContext(i, e, ops, cs)
    BY <1>2, <1>3, <1>4, <1>6, <1>10, ClosedCases
  <2>2. /\ Len(cs) \in Nat /\ Len(contexts') = Len(cs) + 1 /\ engine' = [e EXCEPT !.ctx = Len(cs) + 1]
        /\ \A c \in 1 .. Len(cs) : contexts'[c] = cs[c]
        /\ \E at \in {"resume", "chain"} : ops' = Forward(ops, i, at, Len(cs) + 1)
    BY <1>7, <2>1, NewContextState
  <2>3. PICK at \in {"resume", "chain"} : ops' = Forward(ops, i, at, Len(cs) + 1)
    BY <2>2
  <2>4. at \in InStates /\ Len(cs) + 1 \in Nat /\ ops \in Seq(HandlerState)
    BY <1>2, <2>2 DEF InStates, Starting, Linked
  <2>5. PICK h \in HandlerState : Onward(i, h, at, Len(cs) + 1)
    BY <2>3, <2>4, Moves
  <2>6. e \in EngineState(Len(contexts), streams)
    <3>1. Len(contexts) \in Nat
      BY <1>2, LenProperties DEF Linked
    <3> QED
      BY <1>2, <1>4, <3>1, NewEngine
  <2>7. engine'.ctx = Len(cs) + 1 /\ ~engine'.running /\ engine'.mic = None /\ engine'.source = None
    BY <1>5, <2>2, <2>6 DEF EngineState
  <2>8. \A c \in 1 .. Len(contexts') : contexts'[c].open => c = engine'.ctx
    <3>1. \A c \in 1 .. Len(contexts') : c # Len(cs) + 1 => c \in 1 .. Len(cs)
      BY <2>2
    <3> QED
      BY <1>8, <2>2, <2>7, <3>1
  <2>9. Step(i, h) /\ h.at \in InStates
    BY <2>4, <2>5 DEF Onward
  <2>10. streams' = {}
    BY <1>1, <1>2
  <2> QED
    BY <1>2, <2>7, <2>8, <2>9, <2>10, InsideNeat
<1> QED
  BY <1>2, <1>9, <1>10

\* All of them; after a failure nothing is claimed.
LEMMA EngineStepNeat ==
  ASSUME Typed, Orderly, Neat, NEW i \in 1 .. Len(ops), EngineStep(i)
  PROVE  Neat'
<1>1. trouble \subseteq trouble'
  BY EngineStepFacts
<1>2. CASE trouble' \cap {"overlap", "failed"} # {}
  BY <1>2 DEF Neat
<1>3. CASE trouble' \cap {"overlap", "failed"} = {}
  <2>1. trouble \cap {"overlap", "failed"} = {}
    BY <1>1, <1>3
  <2>2. ~WorkletFails(i)
    BY <1>3 DEF WorkletFails, Failed
  <2> QED
    BY <1>3, <2>1, <2>2, ResumedNeat, ChainLoadedNeat, PlaybackLoadedNeat, MicAnswersNeat, ClosedNeat
       DEF EngineStep
<1> QED
  BY <1>2, <1>3

\* The microphone's stream stops with the engine.
LEMMA StopsNeat ==
  ASSUME Typed, Orderly, Neat, NEW i, NEW kind \in {"click", "rebuild"}, NEW h \in HandlerState, NEW t,
         Stops(i, kind, h, t), UNCHANGED contexts
  PROVE  Neat'
<1>1. SUFFICES ASSUME trouble \cap {"overlap", "failed"} = {}
               PROVE  Neat'
  BY DEF Neat, Stops
<1>2. /\ engine.running /\ Linked /\ \A j \in 1 .. Len(ops) : InEngine(j) => AtContext(j)
  BY <1>1 DEF Orderly, Stops, Typed
<1>3. \A j \in 1 .. Len(ops) : InEngine(j) => j = i
  BY <1>2 DEF AtContext
<1>4. /\ streams = {engine.mic} \ {None}
      /\ \A c \in 1 .. Len(contexts) : contexts[c].open => c = engine.ctx
  BY <1>1 DEF Neat
<1>5. /\ Step(i, h) /\ h.at \in InStates /\ h.at \notin Starting /\ streams' = streams \ {engine.mic}
      /\ engine' = [engine EXCEPT !.running = FALSE, !.mic = None]
  BY DEF Stops, InStates, Starting
<1>6. ~engine'.running /\ engine'.ctx = engine.ctx /\ engine'.mic = None
  <2>1. engine \in EngineState(Len(contexts), streams)
    BY <1>2 DEF Linked
  <2> QED
    BY <1>5, <2>1 DEF EngineState
<1>7. streams' = {}
  BY <1>4, <1>5
<1> QED
  BY <1>2, <1>3, <1>4, <1>5, <1>6, <1>7, InsideNeat

\* The button stops an engine, or starts one that has nothing.
LEMMA StartClickNeat ==
  ASSUME Typed, Orderly, Neat, StartClick
  PROVE  Neat'
<1>1. Linked
  BY DEF Typed
<1>2. CASE UNCHANGED <<ui, slots, contexts>> /\ \E h \in HandlerState : Stops(Fresh, "click", h, {})
  BY <1>2, StopsNeat
<1>3. CASE \E h \in HandlerState : Starts(h)
  <2>1. PICK h \in HandlerState : Starts(h)
    BY <1>3
  <2>2. SUFFICES ASSUME trouble' \cap {"overlap", "failed"} = {}
                 PROVE  Neat'
    BY DEF Neat
  <2>3. /\ ~engine.running /\ Step(Fresh, h) /\ h.at \in InStates
        /\ Len(contexts') = Len(contexts) + 1
        /\ \A c \in 1 .. Len(contexts) : contexts'[c] = contexts[c]
        /\ engine' = [engine EXCEPT !.ctx = Len(contexts) + 1]
        /\ trouble' = trouble \cup Meets(Fresh) /\ streams' = streams
    BY <2>1 DEF Starts, InStates, Starting
  <2>4. /\ Len(contexts) \in Nat /\ DOMAIN ops = 1 .. Len(ops) /\ Len(ops) \in Nat
        /\ engine \in EngineState(Len(contexts), streams)
    BY <1>1, LenProperties DEF Linked
  <2>5. Free
    <3>1. Meets(Fresh) = {}
      BY <2>2, <2>3 DEF Meets
    <3>2. \A j \in DOMAIN ops \ {Fresh} : ~InEngine(j)
      BY <3>1 DEF Meets
    <3>3. \A j \in 1 .. Len(ops) : j # Fresh
      BY <2>4 DEF Fresh
    <3> QED
      BY <2>4, <3>2, <3>3 DEF Free
  <2>6. /\ engine.mic = None /\ engine.ctx = None /\ engine.source = None
        /\ streams = {engine.mic} \ {None}
        /\ \A c \in 1 .. Len(contexts) : contexts[c].open => c = engine.ctx
    BY <2>2, <2>3, <2>5 DEF Neat
  <2>7. /\ engine'.ctx = Len(contexts) + 1 /\ ~engine'.running /\ engine'.mic = None
        /\ engine'.source = None
    BY <2>3, <2>4, <2>6 DEF EngineState
  <2>8. \A c \in 1 .. Len(contexts') : contexts'[c].open => c = engine'.ctx
    <3>1. \A c \in 1 .. Len(contexts') : c # Len(contexts) + 1 => c \in 1 .. Len(contexts)
      BY <2>3, <2>4
    <3>2. \A c \in 1 .. Len(contexts) : c # 0
      BY <2>4
    <3> QED
      BY <2>3, <2>6, <2>7, <3>1, <3>2 DEF None
  <2>9. streams' = {} /\ \A j \in 1 .. Len(ops) : InEngine(j) => j = Fresh
    BY <2>3, <2>5, <2>6 DEF Free
  <2> QED
    BY <1>1, <2>3, <2>7, <2>8, <2>9, InsideNeat
<1> QED
  BY <1>1, <1>2, <1>3, StartClickIs

\* A page action that rebuilds stops the engine or leaves it alone.
LEMMA RebuiltNeat ==
  ASSUME Typed, Orderly, Neat, NEW i, NEW us, NEW un, NEW t, Rebuilt(i, us, un, t)
  PROVE  Neat'
<1>1. Linked /\ Rebuilds
  BY DEF Typed
<1>2. PICK os : Begins(i, os) /\ Rebuild(i, os, us, un, t)
  BY DEF Rebuilt
<1>3. UNCHANGED contexts
  BY <1>1, <1>2, RebuildIs
<1>4. CASE Skipped(i, us, t)
  <2>1. Step(i, Over) /\ trouble \subseteq trouble' /\ UNCHANGED <<engine, contexts, streams>>
    BY <1>3, <1>4 DEF Skipped
  <2>2. i \in 1 .. Len(ops) => ~InEngine(i)
    BY <1>1, <1>2, NotRebuilding
  <2>3. Over.at \notin InStates
    BY OverState DEF InStates, Starting
  <2> QED
    BY <1>1, <2>1, <2>2, <2>3, OutsideNeat
<1>5. CASE \E h \in HandlerState : Stops(i, "rebuild", h, t)
  BY <1>3, <1>5, StopsNeat
<1> QED
  BY <1>1, <1>2, <1>4, <1>5, RebuildIs

\* One that waits for a module leaves it alone.
LEMMA WaitingNeat ==
  ASSUME Typed, Neat, NEW u, NEW key, NEW us, NEW un, Waiting(u, key, us, un),
         left' \in [clicks : 0 .. Clicks, fails : 0 .. Fails]
  PROVE  Neat'
<1>1. UNCHANGED <<engine, contexts, streams, trouble>>
  BY DEF Waits, Waiting
<1>2. PICK h \in HandlerState : Step(Fresh, h) /\ Fresh = Len(ops) + 1 /\ h.at = "loading"
  BY WaitingTyped
<1>3. Linked /\ h.at \notin InStates
  BY <1>2 DEF Typed, InStates, Starting
<1>4. ~(Fresh \in 1 .. Len(ops))
  BY <1>2, <1>3, LenProperties DEF Linked
<1> QED
  BY <1>1, <1>2, <1>3, <1>4, OutsideNeat

\* So does a module that does not load.
LEMMA LoadFailsNeat ==
  ASSUME Typed, Neat, NEW i \in 1 .. Len(ops), LoadFails(i)
  PROVE  Neat'
<1>1. /\ ops[i].at = "loading" /\ trouble \subseteq trouble' /\ UNCHANGED <<engine, contexts, streams>>
  BY DEF LoadFails
<1>2. Step(i, Over) /\ Linked /\ Over.at \notin InStates /\ ~InEngine(i)
  BY <1>1, LoadFailsTyped, OverState DEF Typed, InStates, InEngine, Starting
<1> QED
  BY <1>1, <1>2, OutsideNeat

\* At first the engine has nothing.
LEMMA NeatInit == ASSUME Init PROVE Neat
<1>1. /\ contexts = <<>> /\ streams = {}
      /\ engine = [running |-> FALSE, ctx |-> None, node |-> None, play |-> None, source |-> None,
                   mic |-> None]
  BY DEF Init
<1>2. Len(contexts) = 0
  BY <1>1
<1> QED
  BY <1>1, <1>2 DEF Neat

\* Every action keeps what the engine holds.
LEMMA NeatNext ==
  ASSUME Typed, Orderly, Neat, [Next]_vars
  PROVE  Neat'
<1>1. Chained /\ Linked /\ Shown /\ DOMAIN ops = 1 .. Len(ops)
  BY LenProperties DEF Typed, Linked
<1>2. ASSUME left.clicks > 0, left' = [left EXCEPT !.clicks = @ - 1]
      PROVE  left' \in [clicks : 0 .. Clicks, fails : 0 .. Fails]
  BY <1>1, <1>2, ClicksLeft
<1>3. CASE Click(StartClick)
  BY <1>3, StartClickNeat DEF Click
<1>4. CASE Click(AddUnit)
  BY <1>1, <1>2, <1>4, AddUnitIs, WaitingNeat DEF Click
<1>5. ASSUME NEW u \in ToSet(units), NEW key \in Keys, Click(ChangeModule(u, key)) PROVE Neat'
  BY <1>1, <1>2, <1>5, ChangeModuleIs, RebuiltNeat, WaitingNeat DEF Click
<1>6. ASSUME NEW u \in ToSet(units), NEW on \in BOOLEAN, Click(SetHardwareDesignated(u, on)) PROVE Neat'
  BY <1>1, <1>2, <1>6, SetHardwareDesignatedIs, RebuiltNeat, WaitingNeat DEF Click
<1>7. ASSUME NEW u \in ToSet(units), NEW v \in ToSet(units), Click(Drop(u, v)) PROVE Neat'
  BY <1>1, <1>7, DropIs, RebuiltNeat DEF Click
<1>8. ASSUME NEW u \in ToSet(units), Click(ToggleLoopback(u)) PROVE Neat'
  BY <1>1, <1>8, ToggleLoopbackIs, RebuiltNeat DEF Click
<1>9. ASSUME NEW u \in ToSet(units), Click(DeleteUnit(u)) PROVE Neat'
  BY <1>1, <1>9, DeleteUnitIs, RebuiltNeat DEF Click
<1>10. ASSUME NEW i \in 1 .. Len(ops), Loaded(i) PROVE Neat'
  BY <1>10, LoadedIs, RebuiltNeat
<1>11. ASSUME NEW i \in 1 .. Len(ops), LoadFails(i) PROVE Neat'
  BY <1>11, LoadFailsNeat
<1>12. ASSUME NEW i \in 1 .. Len(ops), EngineStep(i) PROVE Neat'
  BY <1>12, EngineStepNeat
<1>13. CASE UNCHANGED vars
  BY <1>13 DEF vars, Neat, Complete, Free, InEngine
<1> QED
  BY <1>1, <1>3, <1>4, <1>5, <1>6, <1>7, <1>8, <1>9, <1>10, <1>11, <1>12, <1>13
     DEF Next, EngineStep

\* When nobody is in the engine, it is whole.
LEMMA NeatAtRest ==
  ASSUME Typed, Orderly, Neat
  PROVE  EngineWhole
<1>1. SUFFICES ASSUME Settled, trouble \cap {"overlap", "failed"} = {}
               PROVE  /\ streams = {engine.mic} \ {None}
                      /\ IF engine.running
                           THEN /\ Open = {engine.ctx} /\ engine.node = engine.ctx
                                /\ engine.play = engine.ctx
                                /\ engine.source = (IF engine.mic = None THEN None ELSE engine.ctx)
                           ELSE Open = {} /\ streams = {}
  BY DEF EngineWhole
<1>2. /\ Shows /\ DOMAIN ops = 1 .. Len(ops) /\ DOMAIN contexts = 1 .. Len(contexts)
      /\ Len(contexts) \in Nat /\ engine.ctx \in 0 .. Len(contexts)
  BY <1>1, LenProperties DEF Orderly, Typed, Linked, EngineState
<1>3. Free
  BY <1>1, <1>2 DEF Settled, Free
<1>4. /\ streams = {engine.mic} \ {None}
      /\ \A c \in 1 .. Len(contexts) : contexts[c].open => c = engine.ctx
      /\ IF engine.running THEN Complete ELSE engine.mic = None /\ engine.ctx = None
  BY <1>1, <1>3 DEF Neat
<1>5. CASE engine.running
  <2>1. engine.ctx \in 1 .. Len(contexts) /\ contexts[engine.ctx].open
    BY <1>2, <1>5 DEF Shows, None
  <2>2. Open = {engine.ctx}
    BY <1>2, <1>4, <2>1 DEF Open
  <2> QED
    BY <1>4, <1>5, <2>2 DEF Complete
<1>6. CASE ~engine.running
  <2>1. \A c \in 1 .. Len(contexts) : c # engine.ctx
    BY <1>2, <1>4, <1>6 DEF None
  <2>2. Open = {}
    BY <1>2, <1>4, <2>1 DEF Open
  <2>3. streams = {}
    BY <1>4, <1>6
  <2> QED
    BY <1>4, <1>6, <2>2, <2>3
<1> QED
  BY <1>5, <1>6

\* When no start or stop is on its way, a running engine has one open context with all its nodes in
\* it and at most the microphone's stream, a stopped one has none, after any number of starts, stops
\* and rebuilds, unless two handlers met in the engine or one of them failed.
THEOREM PageEngineWhole == Spec => []EngineWhole
<1>1. Init => Typed /\ Orderly /\ Neat
  BY TypedInit, OrderlyInit, NeatInit
<1>2. Typed /\ Orderly /\ Neat /\ [Next]_vars => (Typed /\ Orderly /\ Neat)'
  BY TypedNext, OrderlyNext, NeatNext
<1> QED
  BY <1>1, <1>2, NeatAtRest, PTL DEF Spec

=============================================================================
