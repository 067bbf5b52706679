----------------------------- MODULE MergerRing -----------------------------
(***************************************************************************)
(* The ring buffer of merger.h: an array, the index of the oldest sample,  *)
(* the index one past the newest one and the number of samples held.  The  *)
(* module keeps two of them, with the same code twice (mergerRing and      *)
(* mergerRevRing), so the operations take the ring as an argument.         *)
(***************************************************************************)
EXTENDS Naturals, Sequences

CONSTANTS
  Capacity,   \* MERGER_RING_CAPACITY
  BufferLen,  \* BUFFER_LEN, the samples of a period
  Sample,     \* the values of a sample
  Silence     \* the sample 0

ASSUME MergerAssumption ==
  /\ Capacity \in Nat /\ BufferLen \in 1 .. Capacity
  /\ Silence \in Sample

Slot == 0 .. Capacity - 1
Ring == [slots : [Slot -> Sample], head : Slot, tail : Slot, count : 0 .. Capacity]
Buffer == [1 .. BufferLen -> Sample]

\* moduleSetup clears the indices and the array.
EmptyRing == [slots |-> [i \in Slot |-> Silence], head |-> 0, tail |-> 0, count |-> 0]

Lesser(m, n) == IF m <= n THEN m ELSE n
Wrap(i) == IF i >= Capacity THEN i - Capacity ELSE i
Space(r) == Capacity - r.count

FaultyDropOldest(r, n) ==  \* faulty variant: the head stays where it was
  [r EXCEPT !.count = r.count - Lesser(n, r.count)]
DropOldest(r, n) ==
  LET drop == Lesser(n, r.count)
  IN  [r EXCEPT !.head = Wrap(r.head + drop), !.count = r.count - drop]

FaultyFilled(r, xs) ==  \* faulty variant: the second copy starts over
  LET first == Lesser(Len(xs), Capacity - r.tail)
  IN  [i \in Slot |->
         IF r.tail <= i /\ i < r.tail + first THEN xs[i - r.tail + 1]
         ELSE IF i < Len(xs) - first THEN xs[i + 1]
         ELSE r.slots[i]]

\* The array after the two memcpys: one up to the end of the array, and one of
\* the samples left over to its beginning.
Filled(r, xs) ==
  LET first == Lesser(Len(xs), Capacity - r.tail)
  IN  [i \in Slot |->
         IF r.tail <= i /\ i < r.tail + first THEN xs[i - r.tail + 1]
         ELSE IF i < Len(xs) - first THEN xs[first + i + 1]
         ELSE r.slots[i]]

Overrun(r, xs) == Space(r) < Len(xs)

PushSamples(r, xs) ==
  LET room == IF Overrun(r, xs) THEN DropOldest(r, Len(xs) - Space(r)) ELSE r
  IN  [slots |-> Filled(room, xs),
       head  |-> room.head,
       tail  |-> Wrap(room.tail + Len(xs)),
       count |-> room.count + Len(xs)]

\* What PopSamples copies out, and the ring it leaves.
Popped(r, n) == [i \in 1 .. Lesser(n, r.count) |-> r.slots[Wrap(r.head + (i - 1))]]
PopSamples(r, n) ==
  [r EXCEPT !.head = Wrap(r.head + Lesser(n, r.count)),
            !.count = r.count - Lesser(n, r.count)]

\* The samples a ring holds, oldest first.
Contents(r) == [i \in 1 .. r.count |-> r.slots[Wrap(r.head + (i - 1))]]

\* What the three fields say of each other, after any sequence of operations.
WellFormed(r) == r.tail = Wrap(r.head + r.count)

=============================================================================
