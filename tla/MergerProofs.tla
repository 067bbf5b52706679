---------------------------- MODULE MergerProofs ----------------------------
(***************************************************************************)
(* Proofs about the merger, for rings and periods of every length.         *)
(***************************************************************************)
EXTENDS Merger, SequenceTheorems, TLAPS

-----------------------------------------------------------------------------
(***************************************************************************)
(* The ring operations.                                                    *)
(***************************************************************************)
\* An index that has run over the end of the array at most once is brought back.
LEMMA WrapFacts ==
  ASSUME NEW a \in Slot, NEW n \in 0 .. Capacity
  PROVE  /\ Wrap(a + n) \in Slot
         /\ Wrap(a + n) = IF a + n >= Capacity THEN a + n - Capacity ELSE a + n
BY MergerAssumption DEF Slot, Wrap

\* Two advances that together go round at most once are one.
LEMMA WrapTwice ==
  ASSUME NEW a \in Slot, NEW n \in Nat, NEW i \in Nat, n + i <= Capacity
  PROVE  Wrap(Wrap(a + n) + i) = Wrap(a + (i + n))
BY MergerAssumption DEF Slot, Wrap

\* The fields of a ring.
LEMMA RingFields ==
  ASSUME NEW r \in Ring
  PROVE  /\ r.slots \in [Slot -> Sample] /\ r.head \in Slot /\ r.tail \in Slot
         /\ r.count \in 0 .. Capacity /\ r.count \in Nat
<1>1. r.slots \in [Slot -> Sample] /\ r.head \in Slot /\ r.tail \in Slot
      /\ r.count \in 0 .. Capacity
  BY DEF Ring
<1> QED
  BY <1>1, MergerAssumption

\* An empty ring.
LEMMA EmptyRingFacts ==
  /\ EmptyRing \in Ring /\ WellFormed(EmptyRing) /\ EmptyRing.count = 0
  /\ Contents(EmptyRing) = <<>>
<1>1. 0 \in Slot /\ 0 \in 0 .. Capacity /\ Silence \in Sample
  BY MergerAssumption DEF Slot
<1>2. EmptyRing \in Ring /\ EmptyRing.count = 0 /\ EmptyRing.head = 0 /\ EmptyRing.tail = 0
  BY <1>1 DEF EmptyRing, Ring
<1>3. WellFormed(EmptyRing)
  BY <1>2, MergerAssumption DEF WellFormed, Wrap
<1>4. Contents(EmptyRing) = <<>>
  BY <1>2 DEF Contents
<1> QED
  BY <1>2, <1>3, <1>4

\* The contents of a ring are a sequence of as many samples as it counts.
LEMMA ContentsFacts ==
  ASSUME NEW r \in Ring
  PROVE  /\ Contents(r) \in Seq(Sample) /\ Len(Contents(r)) = r.count
         /\ r.count \in 0 .. Capacity
         /\ \A i \in 1 .. r.count :
              Contents(r)[i] = r.slots[Wrap(r.head + (i - 1))]
<1> DEFINE c == [i \in 1 .. r.count |-> r.slots[Wrap(r.head + (i - 1))]]
<1>1. r.count \in 0 .. Capacity /\ r.count \in Nat
  BY RingFields
<1>2. ASSUME NEW i \in 1 .. r.count PROVE r.slots[Wrap(r.head + (i - 1))] \in Sample
  <2>1. i - 1 \in 0 .. Capacity /\ r.head \in Slot /\ r.slots \in [Slot -> Sample]
    BY <1>1, RingFields, MergerAssumption
  <2> QED
    BY <2>1, WrapFacts
<1>3. c \in Seq(Sample) /\ Len(c) = r.count
  BY <1>1, <1>2, IsASeq, LenProperties
<1> QED
  BY <1>1, <1>3 DEF Contents

\* Dropping the oldest samples moves the others up.
LEMMA DropFacts ==
  ASSUME NEW r \in Ring, WellFormed(r), NEW n \in 0 .. r.count
  PROVE  LET d == [r EXCEPT !.head = Wrap(r.head + n), !.count = r.count - n]
         IN  /\ d \in Ring /\ WellFormed(d) /\ d.count = r.count - n
             /\ d.tail = r.tail /\ d.slots = r.slots
             /\ \A i \in 1 .. r.count - n :
                  Contents(d)[i] = Contents(r)[i + n]
<1> DEFINE d == [r EXCEPT !.head = Wrap(r.head + n), !.count = r.count - n]
<1>1. /\ r.head \in Slot /\ r.tail \in Slot /\ r.count \in 0 .. Capacity
      /\ r.slots \in [Slot -> Sample] /\ n \in 0 .. Capacity
      /\ r.count - n \in 0 .. Capacity
  BY RingFields, MergerAssumption
<1>2. Wrap(r.head + n) \in Slot
  BY <1>1, WrapFacts
<1>3. /\ d \in Ring /\ d.count = r.count - n /\ d.head = Wrap(r.head + n)
      /\ d.tail = r.tail /\ d.slots = r.slots
  BY <1>1, <1>2 DEF Ring
<1>4. ASSUME NEW i \in 0 .. r.count - n
      PROVE  Wrap(Wrap(r.head + n) + i) = Wrap(r.head + (i + n))
  <2>1. n \in Nat /\ i \in Nat /\ n + i <= Capacity
    BY <1>1, MergerAssumption
  <2> QED
    BY <1>1, <2>1, WrapTwice
<1> HIDE DEF d
<1>5. WellFormed(d)
  <2>1. r.count - n \in 0 .. r.count - n /\ (r.count - n) + n = r.count
    BY <1>1, MergerAssumption
  <2> QED
    BY <1>3, <1>4, <2>1 DEF WellFormed
<1>6. ASSUME NEW i \in 1 .. r.count - n PROVE Contents(d)[i] = Contents(r)[i + n]
  <2>1. i - 1 \in 0 .. r.count - n /\ i + n \in 1 .. r.count /\ (i - 1) + n = (i + n) - 1
    BY <1>1, MergerAssumption
  <2>2. Contents(d)[i] = d.slots[Wrap(d.head + (i - 1))]
    BY <1>3, ContentsFacts
  <2>3. Contents(r)[i + n] = r.slots[Wrap(r.head + ((i + n) - 1))]
    BY <2>1, ContentsFacts
  <2> QED
    BY <1>3, <1>4, <2>1, <2>2, <2>3
<1> QED
  BY <1>3, <1>5, <1>6 DEF d

\* The samples held and the room behind them do not meet: neither before the
\* end of the array nor at its beginning.
LEMMA Apart ==
  ASSUME NEW h \in Slot, NEW c \in 0 .. Capacity, NEW n \in Nat, c + n <= Capacity,
         NEW first \in Nat, first <= n, Wrap(h + c) + first <= Capacity,
         first = n \/ Wrap(h + c) + first = Capacity,
         NEW i \in 0 .. c - 1
  PROVE  /\ ~(Wrap(h + c) <= Wrap(h + i) /\ Wrap(h + i) < Wrap(h + c) + first)
         /\ ~(Wrap(h + i) < n - first)
BY MergerAssumption DEF Slot, Wrap

\* Where the two copies of a push begin and end.
LEMMA FirstCopy ==
  ASSUME NEW i \in Nat, NEW t \in Nat, NEW f \in Nat, NEW l \in Nat,
         t <= i, i < t + f, f <= l
  PROVE  i - t + 1 \in 1 .. l
OBVIOUS

\* A sample of the first copy lies between the old and the new tail.
LEMMA InFirstCopy ==
  ASSUME NEW i \in Nat, NEW t \in Nat, NEW f \in Nat, i < f
  PROVE  t <= t + i /\ t + i < t + f /\ (t + i) - t + 1 = i + 1
OBVIOUS

\* A sample of the second copy lies before the old tail.
LEMMA InSecondCopy ==
  ASSUME NEW i \in Nat, NEW t \in Nat, NEW f \in Nat, NEW l \in Nat,
         f <= i, i < l, l <= t + f
  PROVE  /\ ~(t <= i - f /\ i - f < t + f) /\ i - f < l - f
         /\ f + (i - f) + 1 = i + 1
OBVIOUS

\* Copying samples to the tail of a ring that has room for them leaves the
\* samples it holds alone and puts the new ones behind them.
LEMMA FilledFacts ==
  ASSUME NEW r \in Ring, WellFormed(r), NEW xs \in Seq(Sample),
         r.count + Len(xs) <= Capacity
  PROVE  /\ Filled(r, xs) \in [Slot -> Sample]
         /\ \A i \in 0 .. r.count - 1 :
              Filled(r, xs)[Wrap(r.head + i)] = r.slots[Wrap(r.head + i)]
         /\ \A i \in 0 .. Len(xs) - 1 :
              Filled(r, xs)[Wrap(r.head + (r.count + i))] = xs[i + 1]
<1> DEFINE first == Lesser(Len(xs), Capacity - r.tail)
           value(i) == IF r.tail <= i /\ i < r.tail + first THEN xs[i - r.tail + 1]
                       ELSE IF i < Len(xs) - first THEN xs[first + i + 1]
                       ELSE r.slots[i]
<1>1. /\ r.slots \in [Slot -> Sample] /\ r.head \in Slot /\ r.tail \in Slot
      /\ r.count \in 0 .. Capacity /\ r.count \in Nat /\ Len(xs) \in Nat
      /\ r.tail = Wrap(r.head + r.count) /\ Capacity \in Nat
      /\ \A i \in 1 .. Len(xs) : xs[i] \in Sample
  BY RingFields, LenProperties, ElementOfSeq, MergerAssumption DEF WellFormed
<1>2. Filled(r, xs) = [i \in Slot |-> value(i)]
  BY DEF Filled
<1>3. /\ first \in Nat /\ first <= Len(xs) /\ r.tail + first <= Capacity
      /\ first = Len(xs) \/ r.tail + first = Capacity
  BY <1>1 DEF Lesser, Slot
<1> HIDE DEF first
<1>4. ASSUME NEW i \in Slot PROVE value(i) \in Sample
  <2>1. CASE r.tail <= i /\ i < r.tail + first
    <3>1. i \in Nat /\ r.tail \in Nat
      BY <1>1 DEF Slot
    <3>2. i - r.tail + 1 \in 1 .. Len(xs)
      BY <1>1, <1>3, <2>1, <3>1, FirstCopy
    <3> QED
      BY <1>1, <2>1, <3>2
  <2>2. CASE ~(r.tail <= i /\ i < r.tail + first) /\ i < Len(xs) - first
    <3>1. first + i + 1 \in 1 .. Len(xs)
      BY <1>1, <1>3, <2>2 DEF Slot
    <3> QED
      BY <1>1, <2>2, <3>1
  <2>3. CASE ~(r.tail <= i /\ i < r.tail + first) /\ ~(i < Len(xs) - first)
    BY <1>1, <2>3
  <2> QED
    BY <2>1, <2>2, <2>3
<1>5. ASSUME NEW i \in 0 .. r.count - 1
      PROVE  value(Wrap(r.head + i)) = r.slots[Wrap(r.head + i)] /\ Wrap(r.head + i) \in Slot
  <2>1. Wrap(r.head + i) \in Slot
    BY <1>1, WrapFacts
  <2>2. /\ ~(r.tail <= Wrap(r.head + i) /\ Wrap(r.head + i) < r.tail + first)
        /\ ~(Wrap(r.head + i) < Len(xs) - first)
    BY <1>1, <1>3, Apart
  <2> QED
    BY <2>1, <2>2
<1>6. ASSUME NEW i \in 0 .. Len(xs) - 1
      PROVE  /\ value(Wrap(r.head + (r.count + i))) = xs[i + 1]
             /\ Wrap(r.head + (r.count + i)) \in Slot
  <2> DEFINE at == Wrap(r.head + (r.count + i))
  <2>1. at \in Slot /\ at = Wrap(r.tail + i)
    <3>1. r.count \in Nat /\ i \in Nat /\ r.count + i <= Capacity
          /\ r.count + i \in 0 .. Capacity /\ i + r.count = r.count + i
      BY <1>1
    <3> QED
      BY <1>1, <3>1, WrapFacts, WrapTwice
  <2>2. CASE i < first
    <3>1. at = r.tail + i
      BY <1>1, <1>3, <2>1, <2>2 DEF Slot, Wrap
    <3>2. r.tail <= at /\ at < r.tail + first /\ at - r.tail + 1 = i + 1
      <4>1. i \in Nat /\ r.tail \in Nat
        BY <1>1 DEF Slot
      <4> QED
        BY <1>3, <2>2, <3>1, <4>1, InFirstCopy
    <3> QED
      BY <2>1, <3>2
  <2>3. CASE ~(i < first)
    <3>1. at = i - first /\ r.tail + first = Capacity
      BY <1>1, <1>3, <2>1, <2>3 DEF Slot, Wrap
    <3>2. ~(r.tail <= at /\ at < r.tail + first) /\ at < Len(xs) - first
          /\ first + at + 1 = i + 1
      <4>1. i \in Nat /\ r.tail \in Nat /\ first \in Nat /\ Len(xs) \in Nat /\ first <= i
        BY <1>1, <1>3, <2>3 DEF Slot
      <4>2. i < Len(xs) /\ Len(xs) <= r.tail + first
        BY <1>1, <3>1
      <4> QED
        BY <3>1, <4>1, <4>2, InSecondCopy
    <3> QED
      BY <2>1, <3>2
  <2> QED
    BY <2>2, <2>3
<1> HIDE DEF value
<1> QED
  BY <1>2, <1>4, <1>5, <1>6

\* Pushing where there is room appends.
LEMMA PushWithRoom ==
  ASSUME NEW r \in Ring, WellFormed(r), NEW xs \in Seq(Sample),
         r.count + Len(xs) <= Capacity
  PROVE  LET p == [slots |-> Filled(r, xs), head |-> r.head,
                   tail |-> Wrap(r.tail + Len(xs)), count |-> r.count + Len(xs)]
         IN  /\ p \in Ring /\ WellFormed(p) /\ p.count = r.count + Len(xs)
             /\ Contents(p) = Contents(r) \o xs
<1> DEFINE p == [slots |-> Filled(r, xs), head |-> r.head,
                 tail |-> Wrap(r.tail + Len(xs)), count |-> r.count + Len(xs)]
<1>1. /\ r.head \in Slot /\ r.tail \in Slot /\ r.count \in Nat /\ Len(xs) \in Nat
      /\ r.count \in 0 .. Capacity /\ Len(xs) \in 0 .. Capacity
      /\ r.count + Len(xs) \in 0 .. Capacity
  BY RingFields, LenProperties, MergerAssumption
<1>2. Wrap(r.tail + Len(xs)) \in Slot
  BY <1>1, WrapFacts
<1>3. /\ p \in Ring /\ p.count = r.count + Len(xs) /\ p.head = r.head
      /\ p.tail = Wrap(r.tail + Len(xs)) /\ p.slots = Filled(r, xs)
  BY <1>1, <1>2, FilledFacts DEF Ring
<1>4. Wrap(Wrap(r.head + r.count) + Len(xs)) = Wrap(r.head + (Len(xs) + r.count))
  BY <1>1, WrapTwice
<1> HIDE DEF p
<1>5. WellFormed(p)
  <2>1. Len(xs) + r.count = r.count + Len(xs)
    BY <1>1
  <2> QED
    BY <1>3, <1>4, <2>1 DEF WellFormed
<1>6. /\ Contents(p) \in Seq(Sample) /\ Len(Contents(p)) = r.count + Len(xs)
      /\ Contents(r) \in Seq(Sample) /\ Len(Contents(r)) = r.count
      /\ Contents(r) \o xs \in Seq(Sample)
      /\ Len(Contents(r) \o xs) = r.count + Len(xs)
      /\ \A i \in 1 .. r.count + Len(xs) :
           (Contents(r) \o xs)[i] = IF i <= r.count THEN Contents(r)[i] ELSE xs[i - r.count]
  <2>1. Contents(p) \in Seq(Sample) /\ Len(Contents(p)) = r.count + Len(xs)
    BY <1>3, ContentsFacts
  <2>2. Contents(r) \in Seq(Sample) /\ Len(Contents(r)) = r.count
    BY ContentsFacts
  <2> QED
    BY <2>1, <2>2, ConcatProperties
<1>7. ASSUME NEW i \in 1 .. r.count + Len(xs)
      PROVE  Contents(p)[i] = (Contents(r) \o xs)[i]
  <2>1. Contents(p)[i] = Filled(r, xs)[Wrap(r.head + (i - 1))]
    BY <1>3, ContentsFacts
  <2>2. CASE i <= r.count
    <3>1. i - 1 \in 0 .. r.count - 1 /\ i \in 1 .. r.count
      BY <1>1, <2>2
    <3>2. Contents(r)[i] = r.slots[Wrap(r.head + (i - 1))]
      BY <3>1, ContentsFacts
    <3> QED
      BY <1>6, <2>1, <2>2, <3>1, <3>2, FilledFacts
  <2>3. CASE ~(i <= r.count)
    <3> DEFINE j == i - 1 - r.count
    <3>1. j \in 0 .. Len(xs) - 1 /\ r.count + j = i - 1 /\ j + 1 = i - r.count
      BY <1>1, <2>3
    <3>2. Filled(r, xs)[Wrap(r.head + (r.count + j))] = xs[j + 1]
      BY <3>1, FilledFacts
    <3> QED
      BY <1>6, <2>1, <2>3, <3>1, <3>2
  <2> QED
    BY <2>2, <2>3
<1>8. Contents(p) = Contents(r) \o xs
  BY <1>6, <1>7, SeqEqual
<1> QED
  BY <1>3, <1>5, <1>8 DEF p

\* The elements of a sequence after the first k.
LEMMA SuffixFacts ==
  ASSUME NEW s \in Seq(Sample), NEW k \in 0 .. Len(s)
  PROVE  LET t == SubSeq(s, k + 1, Len(s))
         IN  /\ t \in Seq(Sample) /\ Len(t) = Len(s) - k
             /\ \A i \in 1 .. Len(s) - k : t[i] = s[i + k]
<1> DEFINE n == Len(s)
           t == SubSeq(s, k + 1, n)
<1>1. n \in Nat /\ k \in Nat /\ k <= n /\ k + 1 \in Int /\ n \in Int
  BY LenProperties
<1>2. \A i \in k + 1 .. n : s[i] \in Sample
  BY <1>1, ElementOfSeq
<1> HIDE DEF n
<1>3. /\ t \in Seq(Sample)
      /\ Len(t) = IF k + 1 <= n THEN n - (k + 1) + 1 ELSE 0
      /\ \A i \in 1 .. n - (k + 1) + 1 : t[i] = s[(k + 1) + i - 1]
  BY <1>1, <1>2, SubSeqProperties
<1>4. n - (k + 1) + 1 = n - k /\ (k + 1 <= n \/ n - k = 0)
  BY <1>1
<1>5. \A i \in 1 .. n - k : (k + 1) + i - 1 = i + k
  BY <1>1
<1> HIDE DEF t
<1>6. t \in Seq(Sample) /\ Len(t) = n - k /\ \A i \in 1 .. n - k : t[i] = s[i + k]
  BY <1>3, <1>4, <1>5
<1> QED
  BY <1>6 DEF t, n

\* Dropping is forgetting the oldest: the contents are a suffix.
LEMMA DropIsSuffix ==
  ASSUME NEW r \in Ring, WellFormed(r), NEW n \in 0 .. r.count
  PROVE  LET d == [r EXCEPT !.head = Wrap(r.head + n), !.count = r.count - n]
         IN  Contents(d) = SubSeq(Contents(r), n + 1, r.count)
<1> DEFINE d == [r EXCEPT !.head = Wrap(r.head + n), !.count = r.count - n]
           s == SubSeq(Contents(r), n + 1, r.count)
<1>1. r.count \in Nat /\ n \in Nat /\ n <= r.count
  BY RingFields
<1>2. /\ d \in Ring /\ d.count = r.count - n
      /\ \A i \in 1 .. r.count - n : Contents(d)[i] = Contents(r)[i + n]
  BY DropFacts
<1>3. /\ Contents(r) \in Seq(Sample) /\ Len(Contents(r)) = r.count
  BY ContentsFacts
<1>4. s = SubSeq(Contents(r), n + 1, Len(Contents(r))) /\ n \in 0 .. Len(Contents(r))
  BY <1>1, <1>3
<1>5. /\ s \in Seq(Sample) /\ Len(s) = r.count - n
      /\ \A i \in 1 .. r.count - n : s[i] = Contents(r)[i + n]
  BY <1>3, <1>4, SuffixFacts
<1>6. Contents(d) \in Seq(Sample) /\ Len(Contents(d)) = r.count - n
  BY <1>2, ContentsFacts
<1> HIDE DEF d, s
<1>7. Contents(d) = s
  BY <1>2, <1>5, <1>6, SeqEqual
<1> QED
  BY <1>7 DEF d, s

\* Dropping before appending is appending and keeping the newest.
LEMMA SuffixOfConcat ==
  ASSUME NEW c \in Seq(Sample), NEW xs \in Seq(Sample), NEW k \in 0 .. Len(c)
  PROVE  SubSeq(c, k + 1, Len(c)) \o xs
           = SubSeq(c \o xs, k + 1, Len(c) + Len(xs))
<1> DEFINE n == Len(c)
           m == Len(xs)
           cx == c \o xs
           a == SubSeq(c, k + 1, n)
           b == SubSeq(cx, k + 1, n + m)
<1>1. n \in Nat /\ m \in Nat /\ k \in Nat /\ k <= n
  BY LenProperties
<1>2. /\ cx \in Seq(Sample) /\ Len(cx) = n + m
      /\ \A i \in 1 .. n + m : cx[i] = IF i <= n THEN c[i] ELSE xs[i - n]
  BY ConcatProperties
<1>3. b = SubSeq(cx, k + 1, Len(cx)) /\ k \in 0 .. Len(cx)
  BY <1>1, <1>2
<1>4. a = SubSeq(c, k + 1, Len(c)) /\ m = Len(xs) /\ n = Len(c)
  OBVIOUS
<1> HIDE DEF a, b, n, m, cx
<1>5. /\ a \in Seq(Sample) /\ Len(a) = n - k
      /\ \A i \in 1 .. n - k : a[i] = c[i + k]
  BY <1>4, SuffixFacts
<1>6. /\ b \in Seq(Sample) /\ Len(b) = n + m - k
      /\ \A i \in 1 .. n + m - k : b[i] = cx[i + k]
  <2>1. /\ b \in Seq(Sample) /\ Len(b) = Len(cx) - k
        /\ \A i \in 1 .. Len(cx) - k : b[i] = cx[i + k]
    BY <1>2, <1>3, SuffixFacts
  <2>2. Len(cx) = n + m
    BY <1>2
  <2> QED
    BY <1>1, <2>1, <2>2
<1>7. /\ a \o xs \in Seq(Sample) /\ Len(a \o xs) = Len(a) + m
      /\ \A i \in 1 .. Len(a) + m :
           (a \o xs)[i] = IF i <= Len(a) THEN a[i] ELSE xs[i - Len(a)]
  BY <1>4, <1>5, ConcatProperties
<1>8. Len(a) + m = n + m - k /\ Len(a) \in Nat
  BY <1>1, <1>5
<1>9. ASSUME NEW i \in 1 .. n + m - k PROVE (a \o xs)[i] = b[i]
  <2>1. i + k \in 1 .. n + m /\ i \in 1 .. Len(a) + m
    BY <1>1, <1>8
  <2>2. b[i] = cx[i + k]
    BY <1>6
  <2>3. cx[i + k] = IF i + k <= n THEN c[i + k] ELSE xs[i + k - n]
    BY <1>1, <1>2, <2>1
  <2>4. CASE i <= Len(a)
    <3>1. i \in 1 .. n - k /\ i + k <= n
      BY <1>1, <1>5, <2>4
    <3>2. (a \o xs)[i] = a[i] /\ a[i] = c[i + k]
      BY <1>5, <1>7, <2>1, <2>4, <3>1
    <3> QED
      BY <2>2, <2>3, <3>1, <3>2
  <2>5. CASE ~(i <= Len(a))
    <3>1. ~(i + k <= n) /\ i - Len(a) = i + k - n
      BY <1>1, <1>5, <2>5
    <3>2. (a \o xs)[i] = xs[i - Len(a)]
      BY <1>7, <2>1, <2>5
    <3> QED
      BY <2>2, <2>3, <3>1, <3>2
  <2> QED
    BY <2>4, <2>5
<1>10. a \o xs = b
  BY <1>6, <1>7, <1>8, <1>9, SeqEqual
<1> QED
  BY <1>10 DEF a, b, n, m, cx

\* The newest samples of a sequence that is too long.
LEMMA NewestOf ==
  ASSUME NEW s \in Seq(Sample), NEW c \in Nat, NEW m \in Nat, NEW k \in Nat,
         Len(s) = m, m > c, m - c = k
  PROVE  Queues!Newest(s, c) = SubSeq(s, k + 1, m)
<1>2. ~(Len(s) <= c)
  OBVIOUS
<1>3. Queues!Newest(s, c) = SubSeq(s, Len(s) - c + 1, Len(s))
  BY <1>2 DEF Queues!Newest
<1> QED
  BY <1>3

\* What a push does to the contents, whether it overruns the ring or not.
LEMMA PushFacts ==
  ASSUME NEW r \in Ring, WellFormed(r), NEW xs \in Seq(Sample), Len(xs) <= Capacity
  PROVE  /\ PushSamples(r, xs) \in Ring /\ WellFormed(PushSamples(r, xs))
         /\ PushSamples(r, xs).count = Lesser(r.count + Len(xs), Capacity)
         /\ Contents(PushSamples(r, xs)) = Queues!Newest(Contents(r) \o xs, Capacity)
<1>1. /\ r.count \in Nat /\ Len(xs) \in Nat /\ Capacity \in Nat
      /\ r.count <= Capacity
      /\ Contents(r) \in Seq(Sample) /\ Len(Contents(r)) = r.count
      /\ Len(Contents(r) \o xs) = r.count + Len(xs)
  BY RingFields, LenProperties, ContentsFacts, ConcatProperties, MergerAssumption
<1>2. CASE ~Overrun(r, xs)
  <2>1. r.count + Len(xs) <= Capacity
    BY <1>1, <1>2 DEF Overrun, Space
  <2>2. PushSamples(r, xs) = [slots |-> Filled(r, xs), head |-> r.head,
                              tail |-> Wrap(r.tail + Len(xs)), count |-> r.count + Len(xs)]
    BY <1>2 DEF PushSamples
  <2>3. /\ PushSamples(r, xs) \in Ring /\ WellFormed(PushSamples(r, xs))
        /\ PushSamples(r, xs).count = r.count + Len(xs)
        /\ Contents(PushSamples(r, xs)) = Contents(r) \o xs
    BY <2>1, <2>2, PushWithRoom
  <2>4. Lesser(r.count + Len(xs), Capacity) = r.count + Len(xs)
    BY <1>1, <2>1 DEF Lesser
  <2> QED
    BY <1>1, <2>1, <2>3, <2>4 DEF Queues!Newest
<1>3. CASE Overrun(r, xs)
  <2> DEFINE n == Len(xs) - (Capacity - r.count)
             d == [r EXCEPT !.head = Wrap(r.head + n), !.count = r.count - n]
  <2>1. /\ n \in 0 .. r.count /\ Lesser(n, r.count) = n /\ r.count - n + Len(xs) = Capacity
        /\ r.count + Len(xs) > Capacity /\ r.count + Len(xs) - Capacity = n
    BY <1>1, <1>3 DEF Overrun, Space, Lesser
  <2>2. /\ d \in Ring /\ WellFormed(d) /\ d.count = r.count - n
        /\ Contents(d) = SubSeq(Contents(r), n + 1, r.count)
    BY <2>1, DropFacts, DropIsSuffix
  <2>3. PushSamples(r, xs) = [slots |-> Filled(d, xs), head |-> d.head,
                              tail |-> Wrap(d.tail + Len(xs)), count |-> d.count + Len(xs)]
    BY <1>3, <2>1 DEF PushSamples, DropOldest, Space
  <2> HIDE DEF d, n
  <2>4. d.count + Len(xs) <= Capacity
    BY <1>1, <2>1, <2>2
  <2>5. /\ PushSamples(r, xs) \in Ring /\ WellFormed(PushSamples(r, xs))
        /\ PushSamples(r, xs).count = d.count + Len(xs)
        /\ Contents(PushSamples(r, xs)) = Contents(d) \o xs
    BY <2>2, <2>3, <2>4, PushWithRoom
  <2>6. PushSamples(r, xs).count = Lesser(r.count + Len(xs), Capacity)
    BY <1>1, <2>1, <2>2, <2>5 DEF Lesser
  <2>7. Contents(d) \o xs = SubSeq(Contents(r) \o xs, n + 1, r.count + Len(xs))
    <3>1. Contents(r) \in Seq(Sample) /\ Len(Contents(r)) = r.count /\ n \in 0 .. r.count
      BY <1>1, <2>1
    <3>2. SubSeq(Contents(r), n + 1, r.count) \o xs
            = SubSeq(Contents(r) \o xs, n + 1, r.count + Len(xs))
      BY <3>1, SuffixOfConcat
    <3> QED
      BY <2>2, <3>2
  <2>8. Queues!Newest(Contents(r) \o xs, Capacity)
          = SubSeq(Contents(r) \o xs, n + 1, r.count + Len(xs))
    <3> DEFINE s == Contents(r) \o xs
               m == r.count + Len(xs)
    <3>1. s \in Seq(Sample) /\ Len(s) = m /\ Capacity \in Nat
      <4>1. Contents(r) \in Seq(Sample)
        BY <1>1
      <4>2. s \in Seq(Sample)
        BY <4>1, ConcatProperties
      <4> QED
        BY <1>1, <4>2
    <3>2. m \in Nat /\ n \in Nat
      BY <1>1, <2>1
    <3>3. m > Capacity /\ m - Capacity = n
      BY <1>1, <2>1, <3>2
    <3> HIDE DEF s, m
    <3>4. Queues!Newest(s, Capacity) = SubSeq(s, n + 1, m)
      BY <3>1, <3>2, <3>3, NewestOf
    <3> QED
      BY <3>4 DEF s, m
  <2> QED
    BY <2>5, <2>6, <2>7, <2>8
<1> QED
  BY <1>2, <1>3

\* What a pop takes and what it leaves.
LEMMA PopFacts ==
  ASSUME NEW r \in Ring, WellFormed(r), NEW n \in Nat
  PROVE  /\ PopSamples(r, n) \in Ring /\ WellFormed(PopSamples(r, n))
         /\ PopSamples(r, n).count = r.count - Lesser(n, r.count)
         /\ Contents(PopSamples(r, n)) = Queues!Rest(Contents(r), n)
         /\ Popped(r, n) = Queues!Oldest(Contents(r), n)
         /\ Popped(r, n) \in Seq(Sample) /\ Len(Popped(r, n)) = Lesser(n, r.count)
<1> DEFINE k == Lesser(n, r.count)
           p == [r EXCEPT !.head = Wrap(r.head + k), !.count = r.count - k]
           c == Contents(r)
           o == Popped(r, n)
<1>1. /\ r.count \in Nat /\ k \in 0 .. r.count /\ k \in Nat /\ k <= r.count
      /\ r.count <= n => k = r.count
      /\ ~(r.count <= n) => k = n
  BY RingFields DEF Lesser
<1>2. c \in Seq(Sample) /\ Len(c) = r.count /\ \A i \in 1 .. r.count : c[i] \in Sample
  BY ContentsFacts, ElementOfSeq
<1>3. /\ p \in Ring /\ WellFormed(p) /\ p.count = r.count - k
      /\ Contents(p) = SubSeq(c, k + 1, r.count)
  BY <1>1, DropFacts, DropIsSuffix
<1>4. PopSamples(r, n) = p
  BY DEF PopSamples
<1>5. \A i \in 1 .. k : r.slots[Wrap(r.head + (i - 1))] = c[i]
  BY <1>1, ContentsFacts
<1>6. o = [i \in 1 .. k |-> c[i]]
  BY <1>5 DEF Popped
<1>7. o \in Seq(Sample) /\ Len(o) = k /\ \A i \in 1 .. k : o[i] = c[i]
  <2>1. \A i \in 1 .. k : c[i] \in Sample
    BY <1>1, <1>2
  <2> HIDE DEF c, k
  <2>2. [i \in 1 .. k |-> c[i]] \in Seq(Sample)
    BY <1>1, <2>1, IsASeq
  <2> QED
    BY <1>1, <1>6, <2>2, LenProperties
<1> HIDE DEF k, p, c, o
<1>8. Contents(p) = Queues!Rest(c, n)
  <2>1. CASE r.count <= n
    <3>1. k = r.count /\ k + 1 \in Int /\ r.count \in Int /\ r.count < k + 1
      BY <1>1, <2>1
    <3>2. SubSeq(c, k + 1, r.count) = <<>>
      BY <3>1, SubSeqEmpty
    <3> QED
      BY <1>2, <1>3, <2>1, <3>2 DEF Queues!Rest
  <2>2. CASE ~(r.count <= n)
    BY <1>1, <1>2, <1>3, <2>2 DEF Queues!Rest
  <2> QED
    BY <2>1, <2>2
<1>9. o = Queues!Oldest(c, n)
  <2>1. CASE r.count <= n
    <3>1. k = Len(c) /\ \A i \in 1 .. Len(c) : o[i] = c[i]
      BY <1>1, <1>2, <1>7, <2>1
    <3>2. o = c
      BY <1>2, <1>7, <3>1, SeqEqual
    <3> QED
      BY <1>2, <2>1, <3>2 DEF Queues!Oldest
  <2>2. CASE ~(r.count <= n)
    <3> DEFINE s == SubSeq(c, 1, n)
    <3>1. n \in Int /\ 1 \in Int /\ \A i \in 1 .. n : c[i] \in Sample
      BY <1>1, <1>2, <2>2
    <3>2. /\ s \in Seq(Sample)
          /\ Len(s) = IF 1 <= n THEN n - 1 + 1 ELSE 0
          /\ \A i \in 1 .. n - 1 + 1 : s[i] = c[1 + i - 1]
      BY <3>1, SubSeqProperties
    <3> HIDE DEF s
    <3>3. Len(s) = n /\ \A i \in 1 .. n : s[i] = c[i]
      BY <3>1, <3>2
    <3>4. o = s
      BY <1>1, <1>7, <2>2, <3>2, <3>3, SeqEqual
    <3> QED
      BY <1>2, <2>2, <3>4 DEF Queues!Oldest, s
  <2> QED
    BY <2>1, <2>2
<1> QED
  BY <1>3, <1>4, <1>7, <1>8, <1>9 DEF k, p, c, o

-----------------------------------------------------------------------------
(***************************************************************************)
(* Types.                                                                  *)
(***************************************************************************)
RingsOK ==
  /\ mergerRing \in Ring /\ WellFormed(mergerRing)
  /\ mergerRevRing \in Ring /\ WellFormed(mergerRevRing)

\* A period is a sequence of BufferLen samples, and so is a period of silence.
LEMMA PeriodFacts ==
  /\ \A xs \in Period : xs \in Seq(Sample) /\ Len(xs) = BufferLen
  /\ \A n \in Nat : Quiet(n) \in Seq(Sample) /\ Len(Quiet(n)) = n
  /\ BufferLen \in Nat /\ BufferLen >= 1 /\ BufferLen <= Capacity /\ Capacity \in Nat
<1>1. BufferLen \in Nat /\ BufferLen >= 1 /\ BufferLen <= Capacity /\ Capacity \in Nat
  BY MergerAssumption
<1>2. ASSUME NEW xs \in Period PROVE xs \in Seq(Sample) /\ Len(xs) = BufferLen
  <2>1. xs \in [1 .. BufferLen -> Sample]
    BY PeriodAssumption DEF Buffer
  <2>2. xs = [i \in 1 .. BufferLen |-> xs[i]] /\ \A i \in 1 .. BufferLen : xs[i] \in Sample
    BY <2>1
  <2>3. [i \in 1 .. BufferLen |-> xs[i]] \in Seq(Sample)
    BY <1>1, <2>2, IsASeq
  <2>4. xs \in Seq(Sample) /\ DOMAIN xs = 1 .. BufferLen
    BY <2>1, <2>2, <2>3
  <2>5. Len(xs) \in Nat /\ 1 .. Len(xs) = 1 .. BufferLen
    BY <2>4, LenProperties
  <2> QED
    BY <1>1, <2>4, <2>5
<1>3. ASSUME NEW n \in Nat PROVE Quiet(n) \in Seq(Sample) /\ Len(Quiet(n)) = n
  <2>1. [i \in 1 .. n |-> Silence] \in Seq(Sample)
    BY MergerAssumption, IsASeq
  <2> QED
    BY <2>1, LenProperties DEF Quiet
<1> QED
  BY <1>1, <1>2, <1>3

\* One step of the jitter.
LEMMA ElapseFacts ==
  ASSUME skew \in Int, least \in Int, most \in Int, NEW d \in {-1, 1}, Elapse(d)
  PROVE  /\ skew' \in Int /\ least' \in Int /\ most' \in Int
         /\ skew' = skew + d
         /\ least' <= skew' /\ skew' <= most' /\ least' <= least /\ most <= most'
         /\ least' = least \/ least' = skew'
BY DEF Elapse

\* The upstream function's effect on the rings.
LEMMA UpstreamFacts ==
  ASSUME RingsOK, moduleLoopUpstream
  PROVE  /\ RingsOK'
         /\ mergerRing'.count = Lesser(mergerRing.count + BufferLen, Capacity)
         /\ mergerRevRing'.count
              = mergerRevRing.count - Lesser(BufferLen, mergerRevRing.count)
         /\ \E xs \in Period :
              Contents(mergerRing') = Queues!Newest(Contents(mergerRing) \o xs, Capacity)
         /\ upstreamMix' = Queues!Oldest(Contents(mergerRevRing), BufferLen)
         /\ upstreamMix' \in Seq(Sample) /\ Len(upstreamMix') <= BufferLen
         /\ Contents(mergerRevRing') = Queues!Rest(Contents(mergerRevRing), BufferLen)
         /\ colour' = IF Capacity - mergerRing.count < BufferLen THEN "red" ELSE "none"
<1>1. PICK xs \in Period :
        /\ mergerRing' = PushSamples(mergerRing, xs)
        /\ colour' = IF Overrun(mergerRing, xs) THEN "red" ELSE "none"
  BY DEF moduleLoopUpstream
<1>2. xs \in Seq(Sample) /\ Len(xs) = BufferLen /\ BufferLen <= Capacity /\ BufferLen \in Nat
  BY PeriodFacts
<1>3. /\ mergerRing' \in Ring /\ WellFormed(mergerRing')
      /\ mergerRing'.count = Lesser(mergerRing.count + BufferLen, Capacity)
      /\ Contents(mergerRing') = Queues!Newest(Contents(mergerRing) \o xs, Capacity)
  BY <1>1, <1>2, PushFacts DEF RingsOK
<1>4. /\ upstreamMix' = Popped(mergerRevRing, BufferLen)
      /\ mergerRevRing' = PopSamples(mergerRevRing, BufferLen)
  BY DEF moduleLoopUpstream
<1>5. /\ mergerRevRing' \in Ring /\ WellFormed(mergerRevRing')
      /\ mergerRevRing'.count = mergerRevRing.count - Lesser(BufferLen, mergerRevRing.count)
      /\ Contents(mergerRevRing') = Queues!Rest(Contents(mergerRevRing), BufferLen)
      /\ upstreamMix' = Queues!Oldest(Contents(mergerRevRing), BufferLen)
      /\ upstreamMix' \in Seq(Sample)
      /\ Len(upstreamMix') = Lesser(BufferLen, mergerRevRing.count)
  BY <1>2, <1>4, PopFacts DEF RingsOK
<1>6. Lesser(BufferLen, mergerRevRing.count) <= BufferLen
  BY <1>2, RingFields DEF RingsOK, Lesser
<1>7. colour' = IF Capacity - mergerRing.count < BufferLen THEN "red" ELSE "none"
  BY <1>1, <1>2 DEF Overrun, Space
<1>8. RingsOK'
  BY <1>3, <1>5 DEF RingsOK, WellFormed, Wrap
<1> QED
  BY <1>3, <1>5, <1>6, <1>7, <1>8

\* The downstream function's effect on the rings.
LEMMA DownstreamFacts ==
  ASSUME RingsOK, moduleLoopDownstream
  PROVE  /\ RingsOK'
         /\ IF mergerRing.count < BufferLen
              THEN /\ mergerRing'.count = BufferLen
                   /\ Contents(mergerRing') = Quiet(BufferLen)
                   /\ downstreamMix' = Contents(mergerRing)
                                         \o Quiet(BufferLen - mergerRing.count)
                   /\ underruns' = Lesser(underruns + 1, MaxSkew + 1)
              ELSE /\ mergerRing'.count = mergerRing.count - BufferLen
                   /\ Contents(mergerRing') = Queues!Rest(Contents(mergerRing), BufferLen)
                   /\ downstreamMix' = Queues!Oldest(Contents(mergerRing), BufferLen)
                   /\ underruns' = underruns
         /\ downstreamMix' \in Seq(Sample) /\ Len(downstreamMix') = BufferLen
         /\ \E ys \in Period :
              Contents(mergerRevRing') = Queues!Newest(Contents(mergerRevRing) \o ys, Capacity)
         /\ mergerRevRing'.count = Lesser(mergerRevRing.count + BufferLen, Capacity)
         /\ colour' \in {"none", "red", "yellow"}
         /\ Capacity - mergerRevRing.count < BufferLen => colour' = "red"
<1> DEFINE n == mergerRing.count
           missing == BufferLen - Lesser(BufferLen, n)
           drained == PopSamples(mergerRing, BufferLen)
<1>1. /\ BufferLen \in Nat /\ BufferLen >= 1 /\ BufferLen <= Capacity /\ Capacity \in Nat
      /\ n \in Nat /\ Contents(mergerRing) \in Seq(Sample) /\ Len(Contents(mergerRing)) = n
  BY PeriodFacts, RingFields, ContentsFacts DEF RingsOK
<1>2. /\ drained \in Ring /\ WellFormed(drained)
      /\ drained.count = n - Lesser(BufferLen, n)
      /\ Contents(drained) = Queues!Rest(Contents(mergerRing), BufferLen)
      /\ Popped(mergerRing, BufferLen) = Queues!Oldest(Contents(mergerRing), BufferLen)
      /\ Popped(mergerRing, BufferLen) \in Seq(Sample)
      /\ Len(Popped(mergerRing, BufferLen)) = Lesser(BufferLen, n)
  BY <1>1, PopFacts DEF RingsOK
<1>3. /\ downstreamMix' = Popped(mergerRing, BufferLen) \o Quiet(missing)
      /\ mergerRing' = IF missing > 0 THEN PushSamples(drained, Quiet(BufferLen)) ELSE drained
      /\ underruns' = IF missing > 0 THEN Lesser(underruns + 1, MaxSkew + 1) ELSE underruns
  BY DEF moduleLoopDownstream
<1>4. PICK ys \in Period :
        /\ mergerRevRing' = PushSamples(mergerRevRing, ys)
        /\ colour' = IF Overrun(mergerRevRing, ys) THEN "red"
                     ELSE IF missing > 0 THEN "yellow" ELSE "none"
  BY DEF moduleLoopDownstream
<1>5. ys \in Seq(Sample) /\ Len(ys) = BufferLen
  BY PeriodFacts
<1>6. /\ mergerRevRing' \in Ring /\ WellFormed(mergerRevRing')
      /\ mergerRevRing'.count = Lesser(mergerRevRing.count + BufferLen, Capacity)
      /\ Contents(mergerRevRing') = Queues!Newest(Contents(mergerRevRing) \o ys, Capacity)
  BY <1>1, <1>4, <1>5, PushFacts DEF RingsOK
<1>7. /\ colour' \in {"none", "red", "yellow"}
      /\ Capacity - mergerRevRing.count < BufferLen => colour' = "red"
  BY <1>4, <1>5 DEF Overrun, Space
<1>8. missing \in Nat /\ (missing > 0 <=> n < BufferLen)
      /\ Lesser(BufferLen, n) + missing = BufferLen
      /\ (n < BufferLen => Lesser(BufferLen, n) = n)
      /\ (~(n < BufferLen) => Lesser(BufferLen, n) = BufferLen /\ missing = 0)
  BY <1>1 DEF Lesser
<1> HIDE DEF missing, drained, n
<1>9. /\ downstreamMix' \in Seq(Sample) /\ Len(downstreamMix') = BufferLen
  <2>1. Quiet(missing) \in Seq(Sample) /\ Len(Quiet(missing)) = missing
    BY <1>8, PeriodFacts
  <2> QED
    BY <1>2, <1>3, <1>8, <2>1, ConcatProperties
<1>10. CASE n < BufferLen
  <2>1. missing > 0 /\ drained.count = 0 /\ missing = BufferLen - n
    BY <1>1, <1>2, <1>8, <1>10
  <2>2. /\ Quiet(BufferLen) \in Seq(Sample) /\ Len(Quiet(BufferLen)) = BufferLen
    BY <1>1, PeriodFacts
  <2>3. /\ mergerRing' \in Ring /\ WellFormed(mergerRing')
        /\ mergerRing'.count = Lesser(drained.count + BufferLen, Capacity)
        /\ Contents(mergerRing')
             = Queues!Newest(Contents(drained) \o Quiet(BufferLen), Capacity)
    BY <1>1, <1>2, <1>3, <2>1, <2>2, PushFacts
  <2>4. mergerRing'.count = BufferLen
    BY <1>1, <2>1, <2>3 DEF Lesser
  <2>5. Contents(drained) = <<>> /\ Popped(mergerRing, BufferLen) = Contents(mergerRing)
    BY <1>1, <1>2, <1>10 DEF Queues!Rest, Queues!Oldest
  <2>6. Contents(mergerRing') = Quiet(BufferLen)
    <3>1. <<>> \o Quiet(BufferLen) = Quiet(BufferLen)
      BY <2>2, ConcatEmptySeq
    <3> QED
      BY <1>1, <2>2, <2>3, <2>5, <3>1 DEF Queues!Newest
  <2>7. RingsOK'
    BY <1>6, <2>3 DEF RingsOK, WellFormed, Wrap
  <2> QED
    BY <1>3, <1>6, <1>7, <1>9, <1>10, <2>1, <2>4, <2>5, <2>6, <2>7 DEF n
<1>11. CASE ~(n < BufferLen)
  <2>1. missing = 0 /\ drained.count = n - BufferLen /\ ~(missing > 0)
    BY <1>2, <1>8, <1>11
  <2>2. downstreamMix' = Queues!Oldest(Contents(mergerRing), BufferLen)
    <3>1. Quiet(0) = <<>>
      BY PeriodFacts, EmptySeq DEF Quiet
    <3>2. Popped(mergerRing, BufferLen) \o <<>> = Popped(mergerRing, BufferLen)
      BY <1>2, ConcatEmptySeq
    <3> QED
      BY <1>2, <1>3, <2>1, <3>1, <3>2
  <2>3. RingsOK'
    BY <1>2, <1>3, <1>6, <2>1 DEF RingsOK, WellFormed, Wrap
  <2> QED
    BY <1>2, <1>3, <1>6, <1>7, <1>9, <1>11, <2>1, <2>2, <2>3 DEF n
<1> QED
  BY <1>10, <1>11

-----------------------------------------------------------------------------
(***************************************************************************)
(* The invariant.  Jitter orders the extremes of skew; the reverse ring    *)
(* never holds more than the periods that the upstream direction is behind *)
(* its best, and the forward ring holds exactly what skew and the silences *)
(* put in explain.                                                         *)
(***************************************************************************)
Jitter == least <= skew /\ skew <= most /\ least <= 0 /\ 0 <= most /\ -MaxSkew <= least

RevLevel == mergerRevRing.count <= (most - skew) * BufferLen

Level ==
  Roomy => /\ 2 * underruns <= 1 - least
           /\ skew + 2 * underruns >= 0
           /\ mergerRing.count = (skew + 2 * underruns) * BufferLen

IInv == TypeOK /\ Jitter /\ RevLevel /\ Level

\* A short enough sequence of samples is a mix.
LEMMA MixFacts ==
  ASSUME NEW s \in Seq(Sample), Len(s) <= BufferLen PROVE s \in Mix
<1>1. Len(s) \in Nat /\ s \in [1 .. Len(s) -> Sample] /\ BufferLen \in Nat
  BY LenProperties, PeriodFacts
<1>2. CASE Len(s) = 0
  BY <1>2, EmptySeq DEF Mix
<1>3. CASE Len(s) # 0
  <2>1. Len(s) \in 1 .. BufferLen
    BY <1>1, <1>3
  <2> QED
    BY <1>1, <2>1 DEF Mix
<1> QED
  BY <1>2, <1>3

\* Multiples of a period.
LEMMA Periods ==
  ASSUME NEW a \in Int, NEW b \in Int
  PROVE  /\ a <= b => a * BufferLen <= b * BufferLen
         /\ (a + 1) * BufferLen = a * BufferLen + BufferLen
         /\ (a - 1) * BufferLen = a * BufferLen - BufferLen
         /\ a * BufferLen \in Int
         /\ 0 * BufferLen = 0
<1>1. BufferLen \in Nat
  BY PeriodFacts
<1>2. a <= b => a * BufferLen <= b * BufferLen
  <2>1. SUFFICES ASSUME a <= b PROVE a * BufferLen <= b * BufferLen
    OBVIOUS
  <2>2. b * BufferLen = a * BufferLen + (b - a) * BufferLen /\ b - a \in Nat
    BY <1>1, <2>1
  <2>3. (b - a) * BufferLen \in Nat
    BY <1>1, <2>2
  <2> QED
    BY <1>1, <2>2, <2>3
<1> QED
  BY <1>1, <1>2

\* The invariant holds when the rings are empty.
LEMMA MergerInit ==
  ASSUME Init PROVE IInv
<1>1. RingsOK /\ mergerRing.count = 0 /\ mergerRevRing.count = 0
  BY EmptyRingFacts DEF Init, RingsOK
<1>2. TypeOK
  BY <1>1 DEF Init, TypeOK, RingsOK, Mix
<1>3. Jitter
  BY PeriodAssumption DEF Init, Jitter
<1>4. RevLevel /\ Level
  <2>1. (most - skew) = 0 /\ skew + 2 * underruns = 0
    BY DEF Init
  <2> QED
    BY <1>1, <2>1, Periods DEF Init, RevLevel, Level
<1> QED
  BY <1>2, <1>3, <1>4 DEF IInv

\* The distances that a period changes: from the skew to the most it has been,
\* and between its extremes.
LEMMA Nearer ==
  ASSUME NEW d \in Int, NEW e \in Int, NEW h \in Int, NEW g \in Int,
         e = d + 1, h <= g, e <= g
  PROVE  (h - d) - 1 <= g - e /\ 0 <= g - e
OBVIOUS

\* ... after a downstream period,
LEMMA Further ==
  ASSUME NEW d \in Int, NEW e \in Int, NEW h \in Int, NEW g \in Int,
         e = d - 1, h <= g
  PROVE  (h - d) + 1 <= g - e
OBVIOUS

\* ... and between the extremes after any period.
LEMMA Wider ==
  ASSUME NEW l \in Int, NEW m \in Int, NEW h \in Int, NEW g \in Int,
         m <= l, h <= g
  PROVE  h - l + 1 <= g - m + 1
OBVIOUS

\* The periods in the forward ring, skew + 2 * underruns: one more after an
\* upstream period, one less after a downstream period that found one, and one
\* after a downstream period that found none.
LEMMA OneMore ==
  ASSUME NEW d \in Int, NEW e \in Int, NEW u \in Nat, e = d + 1, d + 2 * u >= 0
  PROVE  e + 2 * u >= 0 /\ e + 2 * u = (d + 2 * u) + 1
OBVIOUS

\* after a downstream period that found one,
LEMMA OneLess ==
  ASSUME NEW d \in Int, NEW e \in Int, NEW u \in Nat, e = d - 1, d + 2 * u >= 0,
         d + 2 * u # 0
  PROVE  e + 2 * u >= 0 /\ e + 2 * u = (d + 2 * u) - 1
OBVIOUS

\* and after one that found none.
LEMMA OneAgain ==
  ASSUME NEW d \in Int, NEW e \in Int, NEW u \in Nat, NEW k \in Nat, NEW m \in Int,
         e = d - 1, d + 2 * u = 0, m <= e, -k <= m
  PROVE  u + 1 <= k + 1 /\ 2 * (u + 1) <= 1 - m /\ e + 2 * (u + 1) = 1
OBVIOUS

\* The bound on the underruns only grows with the jitter.
LEMMA Fewer ==
  ASSUME NEW u \in Nat, NEW l \in Int, NEW m \in Int, m <= l, 2 * u <= 1 - l
  PROVE  2 * u <= 1 - m
OBVIOUS

\* One more period still fits.
LEMMA OneMoreFits ==
  ASSUME NEW d \in Int, NEW e \in Int, NEW u \in Nat, NEW m \in Int, NEW g \in Int,
         e = d + 1, e <= g, 2 * u <= 1 - m
  PROVE  (d + 2 * u) + 1 <= g - m + 1
OBVIOUS

\* A ring that had room for a number of periods has room for fewer.
LEMMA RoomyBefore ==
  ASSUME NEW a \in Int, NEW b \in Int, a <= b, b * BufferLen <= Capacity
  PROVE  a * BufferLen <= Capacity
<1>1. a * BufferLen <= b * BufferLen /\ a * BufferLen \in Int /\ b * BufferLen \in Int
  BY Periods
<1> QED
  BY <1>1, PeriodFacts

\* The types that IInv gives.
LEMMA Numbers ==
  ASSUME IInv
  PROVE  /\ RingsOK /\ skew \in Int /\ least \in Int /\ most \in Int
         /\ underruns \in Nat
         /\ mergerRing.count \in Nat /\ mergerRevRing.count \in Nat
BY RingFields DEF IInv, TypeOK, RingsOK

\* An upstream period preserves the invariant.
LEMMA MergerUpstream ==
  ASSUME IInv, moduleLoopUpstream PROVE IInv'
<1>1. /\ skew \in Int /\ least \in Int /\ most \in Int /\ underruns \in Nat
      /\ mergerRing.count \in Nat /\ mergerRevRing.count \in Nat
  BY Numbers
<1>2. Elapse(1) /\ downstreamMix' = downstreamMix /\ underruns' = underruns
      /\ skew < MaxSkew
  BY DEF moduleLoopUpstream
<1>3. /\ skew' \in Int /\ least' \in Int /\ most' \in Int /\ skew' = skew + 1
      /\ least' <= skew' /\ skew' <= most' /\ least' <= least /\ most <= most'
      /\ (least' = least \/ least' = skew')
  BY <1>1, <1>2, ElapseFacts
<1>4. /\ RingsOK'
      /\ mergerRing'.count = Lesser(mergerRing.count + BufferLen, Capacity)
      /\ mergerRevRing'.count
           = mergerRevRing.count - Lesser(BufferLen, mergerRevRing.count)
      /\ upstreamMix' \in Seq(Sample) /\ Len(upstreamMix') <= BufferLen
      /\ colour' \in {"none", "red"}
  BY Numbers, UpstreamFacts
<1>5. TypeOK'
  BY <1>1, <1>2, <1>3, <1>4, MixFacts DEF IInv, TypeOK, RingsOK
<1>6. least <= skew /\ skew <= most /\ least <= 0 /\ 0 <= most /\ -MaxSkew <= least
  BY DEF IInv, Jitter
<1>7. Jitter'
  BY <1>1, <1>3, <1>6, PeriodAssumption DEF Jitter
<1>8. /\ (most - skew) - 1 <= most' - skew' /\ 0 <= most' - skew'
      /\ most - least + 1 <= most' - least' + 1
  BY <1>1, <1>3, Nearer, Wider
<1>9. RevLevel'
  <2>1. most - skew \in Int /\ (most - skew) - 1 \in Int /\ most' - skew' \in Int
    BY <1>1, <1>3
  <2>2. /\ ((most - skew) - 1) * BufferLen = (most - skew) * BufferLen - BufferLen
        /\ ((most - skew) - 1) * BufferLen <= (most' - skew') * BufferLen
        /\ 0 <= (most' - skew') * BufferLen
        /\ (most - skew) * BufferLen \in Int /\ (most' - skew') * BufferLen \in Int
    BY <1>8, <2>1, Periods
  <2> DEFINE x == (most - skew) * BufferLen
             y == (most' - skew') * BufferLen
             c == mergerRevRing.count
             e == mergerRevRing'.count
  <2>3. c <= x /\ x - BufferLen <= y /\ 0 <= y /\ x \in Int /\ y \in Int /\ c \in Nat
        /\ e = c - Lesser(BufferLen, c)
    BY <1>1, <1>4, <2>2 DEF IInv, RevLevel
  <2> HIDE DEF x, y, c, e
  <2>4. e <= y
    BY <2>3, PeriodFacts DEF Lesser
  <2> QED
    BY <2>4 DEF RevLevel, y, e
<1>10. Level'
  <2>1. SUFFICES ASSUME Roomy' PROVE Level'
    BY DEF Level
  <2> DEFINE q == skew + 2 * underruns
  <2>2. /\ most - least + 1 \in Int /\ most' - least' + 1 \in Int
        /\ q \in Int /\ q + 1 \in Int
    BY <1>1, <1>3
  <2>3. (most' - least' + 1) * BufferLen <= Capacity
    BY <2>1 DEF Roomy
  <2>4. Roomy
    BY <1>8, <2>2, <2>3, RoomyBefore DEF Roomy
  <2>5. 2 * underruns <= 1 - least /\ q >= 0 /\ mergerRing.count = q * BufferLen
    BY <2>4 DEF IInv, Level
  <2>6. /\ skew' + 2 * underruns >= 0 /\ skew' + 2 * underruns = q + 1
        /\ 2 * underruns <= 1 - least' /\ q + 1 <= most' - least' + 1
    <3>1. skew' + 2 * underruns >= 0 /\ skew' + 2 * underruns = q + 1
      BY <1>1, <1>3, <2>5, OneMore
    <3>2. 2 * underruns <= 1 - least'
      BY <1>1, <1>3, <2>5, Fewer
    <3>3. q + 1 <= most' - least' + 1
      BY <1>1, <1>3, <3>2, OneMoreFits
    <3> QED
      BY <3>1, <3>2, <3>3
  <2>7. mergerRing'.count = (q + 1) * BufferLen
    <3>1. (q + 1) * BufferLen = q * BufferLen + BufferLen
      BY <2>2, Periods
    <3>2. (q + 1) * BufferLen <= Capacity
      BY <2>2, <2>3, <2>6, RoomyBefore
    <3>3. mergerRing.count + BufferLen = (q + 1) * BufferLen
      BY <2>5, <3>1
    <3> HIDE DEF q
    <3> QED
      BY <1>4, <3>2, <3>3 DEF Lesser
  <2> QED
    BY <1>2, <2>6, <2>7 DEF Level
<1> QED
  BY <1>5, <1>7, <1>9, <1>10 DEF IInv

\* A downstream period preserves the invariant.
LEMMA MergerDownstream ==
  ASSUME IInv, moduleLoopDownstream PROVE IInv'
<1>1. /\ skew \in Int /\ least \in Int /\ most \in Int /\ underruns \in Nat
      /\ mergerRing.count \in Nat /\ mergerRevRing.count \in Nat
  BY Numbers
<1>2. Elapse(-1) /\ upstreamMix' = upstreamMix /\ skew > -MaxSkew /\ MaxSkew \in Nat
  BY PeriodAssumption DEF moduleLoopDownstream
<1>3. /\ skew' \in Int /\ least' \in Int /\ most' \in Int /\ skew' = skew + (-1)
      /\ least' <= skew' /\ skew' <= most' /\ least' <= least /\ most <= most'
      /\ (least' = least \/ least' = skew')
  BY <1>1, <1>2, ElapseFacts
<1>4. /\ RingsOK'
      /\ mergerRevRing'.count = Lesser(mergerRevRing.count + BufferLen, Capacity)
      /\ downstreamMix' \in Seq(Sample) /\ Len(downstreamMix') = BufferLen
      /\ colour' \in {"none", "red", "yellow"}
      /\ mergerRing.count < BufferLen
           => mergerRing'.count = BufferLen /\ underruns' = Lesser(underruns + 1, MaxSkew + 1)
      /\ ~(mergerRing.count < BufferLen)
           => mergerRing'.count = mergerRing.count - BufferLen /\ underruns' = underruns
  BY Numbers, DownstreamFacts
<1>5. underruns' \in Nat
  BY <1>1, <1>2, <1>4 DEF Lesser
<1>6. TypeOK'
  BY <1>2, <1>3, <1>4, <1>5, MixFacts, PeriodFacts DEF IInv, TypeOK, RingsOK
<1>7. least <= skew /\ skew <= most /\ least <= 0 /\ 0 <= most /\ -MaxSkew <= least
  BY DEF IInv, Jitter
<1>8. Jitter' /\ -MaxSkew <= least' /\ skew' = skew - 1
  BY <1>1, <1>2, <1>3, <1>7 DEF Jitter
<1>9. /\ (most - skew) + 1 <= most' - skew'
      /\ most - least + 1 <= most' - least' + 1
  BY <1>1, <1>3, <1>8, Further, Wider
<1>10. RevLevel'
  <2>1. most - skew \in Int /\ (most - skew) + 1 \in Int /\ most' - skew' \in Int
    BY <1>1, <1>3
  <2>2. /\ ((most - skew) + 1) * BufferLen = (most - skew) * BufferLen + BufferLen
        /\ ((most - skew) + 1) * BufferLen <= (most' - skew') * BufferLen
        /\ (most - skew) * BufferLen \in Int /\ (most' - skew') * BufferLen \in Int
    BY <1>9, <2>1, Periods
  <2> DEFINE x == (most - skew) * BufferLen
             y == (most' - skew') * BufferLen
             c == mergerRevRing.count
             e == mergerRevRing'.count
  <2>3. c <= x /\ x + BufferLen <= y /\ x \in Int /\ y \in Int /\ c \in Nat
        /\ e = Lesser(c + BufferLen, Capacity)
    BY <1>1, <1>4, <2>2 DEF IInv, RevLevel
  <2> HIDE DEF x, y, c, e
  <2>4. e <= y
    BY <2>3, PeriodFacts DEF Lesser
  <2> QED
    BY <2>4 DEF RevLevel, y, e
<1>11. Level'
  <2>1. SUFFICES ASSUME Roomy' PROVE Level'
    BY DEF Level
  <2> DEFINE q == skew + 2 * underruns
  <2>2. most - least + 1 \in Int /\ most' - least' + 1 \in Int /\ q \in Int /\ q - 1 \in Int
    BY <1>1, <1>3
  <2>3. Roomy
    <3>1. (most' - least' + 1) * BufferLen <= Capacity
      BY <2>1 DEF Roomy
    <3> QED
      BY <1>9, <2>2, <3>1, RoomyBefore DEF Roomy
  <2>4. 2 * underruns <= 1 - least /\ q >= 0 /\ mergerRing.count = q * BufferLen
    BY <2>3 DEF IInv, Level
  <2>5. IF q = 0
          THEN /\ underruns + 1 <= MaxSkew + 1 /\ 2 * (underruns + 1) <= 1 - least'
               /\ skew' + 2 * (underruns + 1) = 1
          ELSE /\ 2 * underruns <= 1 - least' /\ skew' + 2 * underruns = q - 1
               /\ skew' + 2 * underruns >= 0
    <3>1. CASE q = 0
      BY <1>1, <1>2, <1>3, <1>8, <3>1, OneAgain
    <3>2. CASE q # 0
      <4>1. 2 * underruns <= 1 - least'
        BY <1>1, <1>3, <2>4, Fewer
      <4>2. skew' + 2 * underruns = q - 1 /\ skew' + 2 * underruns >= 0
        BY <1>1, <1>3, <1>8, <2>4, <3>2, OneLess
      <4> QED
        BY <3>2, <4>1, <4>2
    <3> QED
      BY <3>1, <3>2
  <2>6. CASE q = 0
    <3>1. mergerRing.count < BufferLen
      BY <2>4, <2>6, Periods, PeriodFacts
    <3>2. underruns' = underruns + 1 /\ mergerRing'.count = BufferLen
      BY <1>1, <1>2, <1>4, <2>5, <2>6, <3>1 DEF Lesser
    <3>3. 1 * BufferLen = BufferLen
      BY PeriodFacts
    <3>4. 2 * underruns' <= 1 - least' /\ skew' + 2 * underruns' = 1
      BY <2>5, <2>6, <3>2
    <3>5. mergerRing'.count = (skew' + 2 * underruns') * BufferLen
      BY <3>2, <3>3, <3>4
    <3>6. skew' + 2 * underruns' >= 0
      BY <3>4
    <3> QED
      BY <3>4, <3>5, <3>6 DEF Level
  <2>7. CASE q # 0
    <3>1. 1 <= q
      BY <2>2, <2>4, <2>7
    <3>2. 1 * BufferLen <= q * BufferLen /\ q * BufferLen \in Int
          /\ (q - 1) * BufferLen = q * BufferLen - BufferLen
      BY <2>2, <3>1, Periods
    <3>3. 1 * BufferLen = BufferLen /\ BufferLen \in Nat
      BY PeriodFacts
    <3> HIDE DEF q
    <3>4. ~(mergerRing.count < BufferLen)
      BY <2>4, <3>2, <3>3
    <3>5. mergerRing'.count = (q - 1) * BufferLen /\ underruns' = underruns
      BY <1>4, <2>4, <3>2, <3>4
    <3> QED
      BY <2>5, <2>7, <3>5 DEF Level
  <2> QED
    BY <2>6, <2>7
<1> QED
  BY <1>6, <1>8, <1>10, <1>11 DEF IInv

\* Setting the module up empties both rings.
LEMMA MergerSetup ==
  ASSUME moduleSetup PROVE IInv'
<1>1. RingsOK' /\ mergerRing'.count = 0 /\ mergerRevRing'.count = 0
  BY EmptyRingFacts DEF moduleSetup, RingsOK
<1>2. TypeOK'
  BY <1>1 DEF moduleSetup, TypeOK, RingsOK, Mix
<1>3. Jitter'
  BY PeriodAssumption DEF moduleSetup, Jitter
<1>4. RevLevel' /\ Level'
  <2>1. (most' - skew') = 0 /\ skew' + 2 * underruns' = 0
    BY DEF moduleSetup
  <2> QED
    BY <1>1, <2>1, Periods DEF moduleSetup, RevLevel, Level
<1> QED
  BY <1>2, <1>3, <1>4 DEF IInv

\* The invariant holds in every reachable state, whatever the capacity, the
\* period, the samples and the bound on the skew.
THEOREM Invariance == Spec => []IInv
<1>1. Init => IInv
  BY MergerInit
<1>2. IInv /\ [Next]_vars => IInv'
  <2>1. SUFFICES ASSUME IInv, [Next]_vars PROVE IInv'
    OBVIOUS
  <2>2. CASE moduleSetup
    BY <2>2, MergerSetup
  <2>3. CASE moduleLoopUpstream
    BY <2>1, <2>3, MergerUpstream
  <2>4. CASE moduleLoopDownstream
    BY <2>1, <2>4, MergerDownstream
  <2>5. CASE UNCHANGED vars
    BY <2>1, <2>5 DEF IInv, TypeOK, Jitter, RevLevel, Level, Roomy, WellFormed,
                      vars, rings, mixes, history
  <2> QED
    BY <2>1, <2>2, <2>3, <2>4, <2>5 DEF Next
<1> QED
  BY <1>1, <1>2, PTL DEF Spec

\* The indices and the counts of both rings always fit each other and the array,
\* whatever pushes and pops came before.
THEOREM TypeCorrect == Spec => []TypeOK
<1>1. IInv => TypeOK
  BY DEF IInv
<1> QED
  BY <1>1, Invariance, PTL

\* With room for the jitter the downstream direction misses samples at most once
\* for every two periods that it has been ahead.
THEOREM UnderrunsCorrect == Spec => []UnderrunsStop
<1>1. IInv => UnderrunsStop
  <2>1. SUFFICES ASSUME IInv, Roomy
        PROVE /\ 2 * underruns <= 1 - least
              /\ mergerRing.count = (skew + 2 * underruns) * BufferLen
              /\ mergerRevRing.count <= (most - least) * BufferLen
    BY DEF UnderrunsStop
  <2>2. 2 * underruns <= 1 - least /\ mergerRing.count = (skew + 2 * underruns) * BufferLen
    BY <2>1 DEF IInv, Level
  <2>3. /\ skew \in Int /\ least \in Int /\ most \in Int /\ mergerRevRing.count \in Nat
        /\ least <= skew
    BY <2>1, Numbers DEF IInv, Jitter
  <2>4. most - skew \in Int /\ most - least \in Int /\ most - skew <= most - least
    BY <2>3
  <2>5. /\ (most - skew) * BufferLen <= (most - least) * BufferLen
        /\ (most - skew) * BufferLen \in Int /\ (most - least) * BufferLen \in Int
    BY <2>4, Periods
  <2>6. mergerRevRing.count <= (most - skew) * BufferLen
    BY <2>1 DEF IInv, RevLevel
  <2>7. mergerRevRing.count <= (most - least) * BufferLen
    BY <2>3, <2>5, <2>6
  <2> QED
    BY <2>2, <2>7
<1> QED
  BY <1>1, Invariance, PTL

\* A ring that ends up with less than a period more than it had was too full.
LEMMA Forgotten ==
  ASSUME NEW c \in Nat, NEW e, e = Lesser(c + BufferLen, Capacity), e < c + BufferLen
  PROVE  Capacity - c < BufferLen
<1>1. BufferLen \in Nat /\ Capacity \in Nat
  BY PeriodFacts
<1> QED
  BY <1>1 DEF Lesser

\* A period that makes a ring forget samples shows red.
THEOREM LossCorrect == Spec => LossIsShown
<1> DEFINE Shown == \/ moduleSetup
                    \/ /\ skew' > skew /\ mergerRing'.count < mergerRing.count + BufferLen
                            => colour' = "red"
                       /\ skew' < skew /\ mergerRevRing'.count < mergerRevRing.count + BufferLen
                            => colour' = "red"
<1>1. ASSUME IInv, moduleLoopUpstream PROVE Shown
  <2>1. skew \in Int /\ skew' = skew + 1 /\ mergerRing.count \in Nat
    BY <1>1, Numbers, ElapseFacts DEF moduleLoopUpstream
  <2>2. ~(skew' < skew)
    BY <2>1
  <2>3. /\ mergerRing'.count = Lesser(mergerRing.count + BufferLen, Capacity)
        /\ Capacity - mergerRing.count < BufferLen => colour' = "red"
    BY <1>1, Numbers, UpstreamFacts
  <2>4. mergerRing'.count < mergerRing.count + BufferLen => colour' = "red"
    BY <2>1, <2>3, Forgotten
  <2> QED
    BY <2>2, <2>4
<1>2. ASSUME IInv, moduleLoopDownstream PROVE Shown
  <2>1. skew \in Int /\ skew' = skew + (-1) /\ mergerRevRing.count \in Nat
    BY <1>2, Numbers, ElapseFacts DEF moduleLoopDownstream
  <2>2. ~(skew' > skew)
    BY <2>1
  <2>3. /\ mergerRevRing'.count = Lesser(mergerRevRing.count + BufferLen, Capacity)
        /\ Capacity - mergerRevRing.count < BufferLen => colour' = "red"
    BY <1>2, Numbers, DownstreamFacts
  <2>4. mergerRevRing'.count < mergerRevRing.count + BufferLen => colour' = "red"
    BY <2>1, <2>3, Forgotten
  <2> QED
    BY <2>2, <2>4
<1>3. IInv /\ [Next]_vars => [Shown]_vars
  BY <1>1, <1>2 DEF Next
<1> QED
  BY <1>3, Invariance, PTL DEF Spec, LossIsShown

-----------------------------------------------------------------------------
(***************************************************************************)
(* Refinement: the rings are queues that forget the oldest samples.        *)
(***************************************************************************)
\* An upstream period of the rings is one of the queues.
LEMMA UpstreamRefines ==
  ASSUME IInv, moduleLoopUpstream PROVE Queues!Upstream
<1>1. PICK xs \in Period :
        Contents(mergerRing') = Queues!Newest(Contents(mergerRing) \o xs, Capacity)
  BY Numbers, UpstreamFacts
<1>2. /\ upstreamMix' = Queues!Oldest(Contents(mergerRevRing), BufferLen)
      /\ Contents(mergerRevRing') = Queues!Rest(Contents(mergerRevRing), BufferLen)
  BY Numbers, UpstreamFacts
<1>3. downstreamMix' = downstreamMix
  BY DEF moduleLoopUpstream
<1> QED
  BY <1>1, <1>2, <1>3 DEF Queues!Upstream

\* A downstream period of the rings is one of the queues.
LEMMA DownstreamRefines ==
  ASSUME IInv, moduleLoopDownstream PROVE Queues!Downstream
<1> DEFINE s == Contents(mergerRing)
           got == Queues!Oldest(s, BufferLen)
<1>1. PICK ys \in Period :
        Contents(mergerRevRing') = Queues!Newest(Contents(mergerRevRing) \o ys, Capacity)
  BY Numbers, DownstreamFacts
<1>3. upstreamMix' = upstreamMix
  BY DEF moduleLoopDownstream
<1>4. \A n : Queues!Quiet(n) = Quiet(n)
  BY DEF Queues!Quiet, Quiet
<1>5. /\ s \in Seq(Sample) /\ Len(s) = mergerRing.count /\ Len(s) \in Nat
      /\ BufferLen \in Nat
  BY Numbers, ContentsFacts, PeriodFacts DEF RingsOK
<1>6. IF Len(got) < BufferLen
        THEN /\ downstreamMix' = got \o Queues!Quiet(BufferLen - Len(got))
             /\ Contents(mergerRing') = Queues!Quiet(BufferLen)
        ELSE /\ downstreamMix' = got
             /\ Contents(mergerRing') = Queues!Rest(s, BufferLen)
  <2>1. CASE mergerRing.count < BufferLen
    <3>1. got = s
      BY <1>5, <2>1 DEF Queues!Oldest
    <3>2. /\ Contents(mergerRing') = Quiet(BufferLen)
          /\ downstreamMix' = s \o Quiet(BufferLen - mergerRing.count)
      BY <2>1, Numbers, DownstreamFacts
    <3> HIDE DEF s, got
    <3> QED
      BY <1>4, <1>5, <2>1, <3>1, <3>2
  <2>2. CASE ~(mergerRing.count < BufferLen)
    <3>1. Len(got) = BufferLen
      <4>1. CASE Len(s) <= BufferLen
        BY <1>5, <2>2, <4>1 DEF Queues!Oldest
      <4>2. CASE ~(Len(s) <= BufferLen)
        <5>1. got = SubSeq(s, 1, BufferLen)
          BY <4>2 DEF Queues!Oldest
        <5>2. BufferLen \in 0 .. Len(s) /\ 1 \in 1 .. BufferLen + 1
          BY <1>5, <4>2
        <5> HIDE DEF s, got
        <5> QED
          BY <1>5, <5>1, <5>2, SubSeqProperties
      <4> QED
        BY <4>1, <4>2
    <3>2. /\ Contents(mergerRing') = Queues!Rest(s, BufferLen)
          /\ downstreamMix' = got
      BY <2>2, Numbers, DownstreamFacts
    <3> HIDE DEF s, got
    <3> QED
      BY <1>5, <3>1, <3>2
  <2> QED
    BY <2>1, <2>2
<1> HIDE DEF s, got
<1> QED
  BY <1>1, <1>3, <1>6 DEF Queues!Downstream, s, got

\* The merger's rings behave as the two drop-oldest queues.
THEOREM Refinement == Spec => QueuesSpec
<1>1. Init => Queues!Init
  BY EmptyRingFacts DEF Init, Queues!Init
<1>2. IInv /\ [Next]_vars => [Queues!Next]_Queues!vars
  <2>1. SUFFICES ASSUME IInv, [Next]_vars PROVE [Queues!Next]_Queues!vars
    OBVIOUS
  <2>2. CASE moduleSetup
    BY <2>2, EmptyRingFacts DEF moduleSetup, Queues!Setup, Queues!Next, Queues!vars
  <2>3. CASE moduleLoopUpstream
    BY <2>1, <2>3, UpstreamRefines DEF Queues!Next
  <2>4. CASE moduleLoopDownstream
    BY <2>1, <2>4, DownstreamRefines DEF Queues!Next
  <2>5. CASE UNCHANGED vars
    BY <2>5 DEF vars, rings, mixes, Queues!vars
  <2> QED
    BY <2>1, <2>2, <2>3, <2>4, <2>5 DEF Next
<1> QED
  BY <1>1, <1>2, Invariance, PTL DEF Spec, QueuesSpec, Queues!Spec

=============================================================================
