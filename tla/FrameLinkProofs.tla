-------------------------- MODULE FrameLinkProofs --------------------------
(***************************************************************************)
(* Proofs about the bytes of frames, the frame readers and the line: what  *)
(* the firmware lays out is read back by each host, the readers take the   *)
(* frames that were sent and nothing else, and each goes to the operation  *)
(* it answers.                                                             *)
(***************************************************************************)
EXTENDS FrameLink, FiniteSetTheorems, SequenceTheorems, WellFoundedInduction, TLAPS

-----------------------------------------------------------------------------
(***************************************************************************)
(* Induction, with the set of the numbers for which a fact holds in the    *)
(* place of the fact.                                                      *)
(***************************************************************************)
\* A set of natural numbers has a least element.
LEMMA Least ==
  ASSUME NEW T, T \subseteq Nat, T # {}
  PROVE  \E n \in T : \A m \in T : n <= m
<1>1. PICK x \in T : \A y \in T : ~(<<y, x>> \in OpToRel(<, Nat))
  BY NatLessThanWellFounded, WFMin
<1>2. \A y \in T : ~(y < x)
  BY <1>1 DEF OpToRel
<1> QED
  BY <1>2

\* What holds of 0 and of n + 1 with n holds up to any bound.
LEMMA UpTo ==
  ASSUME NEW N \in Nat, NEW T, 0 \in T, \A n \in 0 .. N - 1 : n \in T => n + 1 \in T
  PROVE  \A n \in 0 .. N : n \in T
<1> DEFINE B == {n \in 0 .. N : n \notin T}
<1>0. B \subseteq Nat
  OBVIOUS
<1>1. ASSUME B # {} PROVE FALSE
  <2> HIDE DEF B
  <2>1. PICK n \in B : \A m \in B : n <= m
    BY <1>0, <1>1, Least
  <2> USE DEF B
  <2>2. n \in 0 .. N /\ n # 0 /\ n \notin T
    OBVIOUS
  <2>3. n - 1 \in 0 .. N - 1 /\ n - 1 \notin B
    BY <2>1, <2>2
  <2>4. n - 1 \in T /\ (n - 1) + 1 = n
    BY <2>2, <2>3
  <2> QED
    BY <2>2, <2>3, <2>4
<1> QED
  BY <1>1

-----------------------------------------------------------------------------
(***************************************************************************)
(* Numbers in bytes.                                                       *)
(***************************************************************************)
Byte == 0 .. 255
Word16 == {n \in Nat : n < 65536}
Word32 == {n \in Nat : n <= MAX_INT}

\* The two bytes of a number, and the number they stand for.
LEMMA Put16Facts ==
  ASSUME NEW n \in Nat
  PROVE  /\ Put16(n) \in Seq(Byte) /\ Len(Put16(n)) = 2
         /\ Put16(n)[1] \in Byte /\ Put16(n)[2] \in Byte
         /\ n \in Word16 => Put16(n)[1] + 256 * Put16(n)[2] = n
<1> DEFINE a == n % 256
           b == (n \div 256) % 256
<1>1. a \in Byte /\ b \in Byte
  BY SMT DEF Byte
<1>2. n \in Word16 => a + 256 * b = n
  BY SMT DEF Word16
<1>3. Put16(n) = <<a, b>>
  BY DEF Put16
<1> HIDE DEF a, b
<1> QED
  BY <1>1, <1>2, <1>3

\* The four bytes of a number, and the number they stand for.
LEMMA Put32Facts ==
  ASSUME NEW n \in Nat
  PROVE  /\ Put32(n) \in Seq(Byte) /\ Len(Put32(n)) = 4
         /\ \A i \in 1 .. 4 : Put32(n)[i] \in Byte
         /\ n \in Word32 => (Put32(n)[1] + 256 * Put32(n)[2]) + 65536 * (Put32(n)[3] + 256 * Put32(n)[4]) = n
<1> DEFINE h == n \div 65536
           p == Put16(n)
           q == Put16(h)
<1>1. h \in Nat /\ (n \in Word32 => h \in Word16) /\ n = (n % 65536) + 65536 * h
  BY SMT DEF Word32, Word16, MAX_INT
<1>2. n % 65536 = (n % 256) + 256 * ((n \div 256) % 256)
  BY SMT
<1>3. p[1] + 256 * p[2] = n % 65536
  BY <1>2 DEF Put16
<1>4. Put32(n) = p \o q
  BY DEF Put32
<1>5. p \in Seq(Byte) /\ Len(p) = 2 /\ p[1] \in Byte /\ p[2] \in Byte
  BY Put16Facts
<1> HIDE DEF h
<1>6. q \in Seq(Byte) /\ Len(q) = 2 /\ q[1] \in Byte /\ q[2] \in Byte
  BY <1>1, Put16Facts
<1>7. h \in Word16 => q[1] + 256 * q[2] = h
  BY <1>1, Put16Facts
<1> HIDE DEF p, q
<1>8. /\ p \o q \in Seq(Byte) /\ Len(p \o q) = 4
      /\ (p \o q)[1] = p[1] /\ (p \o q)[2] = p[2]
      /\ (p \o q)[3] = q[1] /\ (p \o q)[4] = q[2]
  BY <1>5, <1>6, ConcatProperties
<1>9. ASSUME NEW i \in 1 .. 4 PROVE (p \o q)[i] \in Byte
  BY <1>5, <1>6, <1>8
<1>10. n \in Word32 => (p[1] + 256 * p[2]) + 65536 * (q[1] + 256 * q[2]) = n
  BY <1>1, <1>3, <1>7
<1> QED
  BY <1>4, <1>8, <1>9, <1>10

\* A byte is a natural number.
LEMMA ByteNat ==
  ASSUME NEW b \in Byte
  PROVE  b \in Nat /\ b <= 255
BY DEF Byte

\* A number that is read is a natural number.
LEMMA GetType ==
  ASSUME NEW s \in Seq(Byte), NEW at \in Nat
  PROVE  /\ at + 2 <= Len(s) => Get16(s, at) \in Nat
         /\ at + 4 <= Len(s) => Get32(s, at) \in Nat
<1>1. ASSUME NEW k \in Nat, k + 2 <= Len(s) PROVE Get16(s, k) \in Nat
  <2>1. k + 1 \in 1 .. Len(s) /\ k + 2 \in 1 .. Len(s)
    BY <1>1, LenProperties
  <2> DEFINE a == s[k + 1]
             b == s[k + 2]
  <2>2. a \in Byte /\ b \in Byte
    BY <2>1, ElementOfSeq
  <2>3. Get16(s, k) = a + 256 * b
    BY DEF Get16
  <2> HIDE DEF a, b
  <2>4. a \in Nat /\ b \in Nat
    BY <2>2, ByteNat
  <2> QED
    BY <2>3, <2>4
<1>2. ASSUME at + 4 <= Len(s) PROVE Get32(s, at) \in Nat
  <2> DEFINE a == Get16(s, at)
             b == Get16(s, at + 2)
  <2>1. at + 2 \in Nat /\ (at + 2) + 2 <= Len(s) /\ at + 2 <= Len(s)
    BY <1>2, LenProperties
  <2>2. a \in Nat /\ b \in Nat
    BY <1>1, <2>1
  <2>3. Get32(s, at) = a + 65536 * b
    BY DEF Get32
  <2> HIDE DEF a, b
  <2> QED
    BY <2>2, <2>3
<1> QED
  BY <1>1, <1>2

\* The bytes q stand behind the first at bytes of s.
Holds(s, at, q) == at + Len(q) <= Len(s) /\ \A i \in 1 .. Len(q) : s[at + i] = q[i]

\* Reading a number where it was written.
LEMMA Get16Held ==
  ASSUME NEW s \in Seq(Byte), NEW at \in Nat, NEW n \in Word16, Holds(s, at, Put16(n))
  PROVE  at + 2 <= Len(s) /\ Get16(s, at) = n
<1> DEFINE p == Put16(n)
<1>1. Len(p) = 2 /\ p[1] + 256 * p[2] = n
  BY Put16Facts DEF Word16
<1>2. at + Len(p) <= Len(s) /\ \A i \in 1 .. Len(p) : s[at + i] = p[i]
  BY DEF Holds
<1> HIDE DEF p
<1>3. at + 2 <= Len(s) /\ s[at + 1] = p[1] /\ s[at + 2] = p[2]
  BY <1>1, <1>2
<1> QED
  BY <1>1, <1>3 DEF Get16

\* Reading a number of four bytes where it was written.
LEMMA Get32Held ==
  ASSUME NEW s \in Seq(Byte), NEW at \in Nat, NEW n \in Word32, Holds(s, at, Put32(n))
  PROVE  at + 4 <= Len(s) /\ Get32(s, at) = n
<1> DEFINE p == Put32(n)
<1>1. Len(p) = 4 /\ (p[1] + 256 * p[2]) + 65536 * (p[3] + 256 * p[4]) = n
  BY Put32Facts DEF Word32
<1>2. at + Len(p) <= Len(s) /\ \A i \in 1 .. Len(p) : s[at + i] = p[i]
  BY DEF Holds
<1> HIDE DEF p
<1>3. /\ at + 4 <= Len(s) /\ s[at + 1] = p[1] /\ s[at + 2] = p[2]
      /\ s[at + 3] = p[3] /\ s[at + 4] = p[4]
  BY <1>1, <1>2
<1>4. at + 2 + 1 = at + 3 /\ at + 2 + 2 = at + 4
  OBVIOUS
<1> QED
  BY <1>1, <1>3, <1>4 DEF Get32, Get16

\* The lengths of the fields.
LEMMA Sizes ==
  /\ BufferLen \in Nat /\ BufferLen > 0
  /\ AudioBytes \in Nat /\ AudioBytes = 2 * BufferLen
  /\ StatusAt \in Nat /\ StatusAt = 10 + 2 * AudioBytes /\ StatusAt >= 14
  /\ HEADER = 6 /\ PREFIX = 4 /\ ACK_SIZE = 12 /\ OFFLINE_SIZE = StatusAt + 2
BY ProtocolAssumption DEF AudioBytes, StatusAt, HEADER, PREFIX, ACK_SIZE, OFFLINE_SIZE

\* The samples of a period, as 16-bit patterns.
Wave == [1 .. BufferLen -> Word16]

\* The place of a sample in the bytes of a period.
LEMMA Places ==
  ASSUME NEW i \in 1 .. BufferLen
  PROVE  /\ 2 * i - 1 \in 1 .. AudioBytes /\ 2 * i \in 1 .. AudioBytes
         /\ ((2 * i - 1) + 1) \div 2 = i /\ 2 - ((2 * i - 1) % 2) = 1
         /\ ((2 * i) + 1) \div 2 = i /\ 2 - ((2 * i) % 2) = 2
BY Sizes, SMT

\* The bytes of a period.
LEMMA PeriodFacts ==
  ASSUME NEW w \in Wave
  PROVE  /\ Period(w) \in Seq(Byte) /\ Len(Period(w)) = AudioBytes
         /\ \A i \in 1 .. BufferLen : /\ Period(w)[2 * i - 1] = Put16(w[i])[1]
                                      /\ Period(w)[2 * i] = Put16(w[i])[2]
<1>1. ASSUME NEW j \in 1 .. AudioBytes PROVE Put16(w[(j + 1) \div 2])[2 - (j % 2)] \in Byte
  <2>1. (j + 1) \div 2 \in 1 .. BufferLen /\ 2 - (j % 2) \in {1, 2}
    BY Sizes, SMT
  <2>2. w[(j + 1) \div 2] \in Nat
    BY <2>1 DEF Wave, Word16
  <2> QED
    BY <2>1, <2>2, Put16Facts
<1>2. Period(w) \in [1 .. AudioBytes -> Byte]
  BY <1>1 DEF Period
<1>3. Period(w) \in Seq(Byte) /\ Len(Period(w)) = AudioBytes
  BY <1>2, Sizes
<1>4. ASSUME NEW i \in 1 .. BufferLen
      PROVE  Period(w)[2 * i - 1] = Put16(w[i])[1] /\ Period(w)[2 * i] = Put16(w[i])[2]
  BY Places DEF Period
<1> QED
  BY <1>3, <1>4

\* Reading the samples where they were written.
LEMMA SamplesHeld ==
  ASSUME NEW s \in Seq(Byte), NEW at \in Nat, NEW w \in Wave, Holds(s, at, Period(w))
  PROVE  at + AudioBytes <= Len(s) /\ Samples(s, at) = w
<1> DEFINE p == Period(w)
<1>1. Len(p) = AudioBytes
  BY PeriodFacts
<1>2. at + Len(p) <= Len(s) /\ \A i \in 1 .. Len(p) : s[at + i] = p[i]
  BY DEF Holds
<1>3. ASSUME NEW i \in 1 .. BufferLen PROVE Get16(s, at + 2 * (i - 1)) = w[i]
  <2>1. p[2 * i - 1] = Put16(w[i])[1] /\ p[2 * i] = Put16(w[i])[2]
    BY PeriodFacts
  <2>2. w[i] \in Word16
    BY DEF Wave
  <2>3. Put16(w[i])[1] + 256 * Put16(w[i])[2] = w[i]
    BY <2>2, Put16Facts DEF Word16
  <2> HIDE DEF p
  <2>4. s[at + (2 * i - 1)] = p[2 * i - 1] /\ s[at + 2 * i] = p[2 * i]
    BY <1>1, <1>2, Places
  <2>5. at + 2 * (i - 1) + 1 = at + (2 * i - 1) /\ at + 2 * (i - 1) + 2 = at + 2 * i
    BY Sizes
  <2> QED
    BY <2>1, <2>3, <2>4, <2>5 DEF Get16
<1>4. w = [i \in 1 .. BufferLen |-> w[i]]
  BY DEF Wave
<1> QED
  BY <1>1, <1>2, <1>3, <1>4, Sizes DEF Samples

\* What stands where in bytes that follow each other.
LEMMA Behind ==
  ASSUME NEW s \in Seq(Byte), NEW t \in Seq(Byte)
  PROVE  /\ s \o t \in Seq(Byte) /\ Len(s \o t) = Len(s) + Len(t)
         /\ Len(s) \in Nat /\ Len(t) \in Nat
         /\ Holds(s \o t, 0, s) /\ Holds(s \o t, Len(s), t)
<1> DEFINE u == s \o t
<1>1. /\ u \in Seq(Byte) /\ Len(u) = Len(s) + Len(t)
      /\ \A i \in 1 .. Len(s) + Len(t) : u[i] = IF i <= Len(s) THEN s[i] ELSE t[i - Len(s)]
  BY ConcatProperties
<1>2. Len(s) \in Nat /\ Len(t) \in Nat
  BY LenProperties
<1> HIDE DEF u
<1>3. ASSUME NEW i \in 1 .. Len(s) PROVE u[0 + i] = s[i]
  BY <1>1, <1>2
<1>4. ASSUME NEW i \in 1 .. Len(t) PROVE u[Len(s) + i] = t[i]
  <2>1. Len(s) + i \in 1 .. Len(s) + Len(t) /\ ~(Len(s) + i <= Len(s)) /\ (Len(s) + i) - Len(s) = i
    BY <1>2
  <2> QED
    BY <1>1, <2>1
<1>5. Holds(u, 0, s) /\ Holds(u, Len(s), t)
  BY <1>1, <1>2, <1>3, <1>4 DEF Holds
<1> QED
  BY <1>1, <1>2, <1>5 DEF u

\* What stands somewhere in a part stands at the same distance in the whole.
LEMMA Within ==
  ASSUME NEW s \in Seq(Byte), NEW p \in Seq(Byte), NEW q \in Seq(Byte),
         NEW at \in Nat, NEW to \in Nat, Holds(s, at, p), Holds(p, to, q)
  PROVE  Holds(s, at + to, q)
<1>1. Len(s) \in Nat /\ Len(p) \in Nat /\ Len(q) \in Nat
  BY LenProperties
<1>2. at + Len(p) <= Len(s) /\ \A i \in 1 .. Len(p) : s[at + i] = p[i]
  BY DEF Holds
<1>3. to + Len(q) <= Len(p) /\ \A i \in 1 .. Len(q) : p[to + i] = q[i]
  BY DEF Holds
<1>4. ASSUME NEW i \in 1 .. Len(q) PROVE s[at + to + i] = q[i]
  <2>1. to + i \in 1 .. Len(p) /\ at + (to + i) = at + to + i
    BY <1>1, <1>3
  <2> QED
    BY <1>2, <1>3, <2>1
<1> QED
  BY <1>1, <1>2, <1>3, <1>4 DEF Holds

\* Bytes that follow change nothing of what stood before.
LEMMA Before ==
  ASSUME NEW s \in Seq(Byte), NEW t \in Seq(Byte), NEW q \in Seq(Byte), NEW at \in Nat, Holds(s, at, q)
  PROVE  Holds(s \o t, at, q)
<1>1. s \o t \in Seq(Byte) /\ Holds(s \o t, 0, s) /\ 0 \in Nat /\ 0 + at = at
  BY Behind
<1>2. Holds(s \o t, 0 + at, q)
  BY <1>1, Within
<1> QED
  BY <1>1, <1>2

-----------------------------------------------------------------------------
(***************************************************************************)
(* Frames: the answers that the firmware lays out are read back, field for *)
(* field, by each of the four copies of the protocol.                      *)
(***************************************************************************)
\* The magic number.
LEMMA Magic == MAGIC \in Word32 /\ MAGIC \in Nat
BY SMT DEF MAGIC, Word32, MAX_INT

\* The places of the fields.
Start == 0
CommandAt == 4
DownAt == HEADER + 4
UpAt == HEADER + 4 + AudioBytes

\* Where each field ends and the next one begins.
LEMMA PlacesOfFields ==
  /\ Start \in Nat /\ CommandAt \in Nat /\ HEADER \in Nat /\ DownAt \in Nat /\ UpAt \in Nat
  /\ StatusAt \in Nat /\ AudioBytes \in Nat /\ StatusAt + 2 \in Nat
  /\ CommandAt = 4 /\ CommandAt + 2 = HEADER /\ HEADER + 4 = DownAt /\ DownAt + AudioBytes = UpAt
  /\ UpAt + AudioBytes = StatusAt
BY Sizes DEF Start, CommandAt, DownAt, UpAt, HEADER

\* The header of a frame.
LEMMA HeaderFacts ==
  ASSUME NEW c \in Byte, NEW m \in Byte
  PROVE  /\ Header(c, m) \in Seq(Byte) /\ Len(Header(c, m)) = HEADER
         /\ Holds(Header(c, m), Start, Put32(MAGIC)) /\ Holds(Header(c, m), CommandAt, <<c, m>>)
<1> DEFINE p == Put32(MAGIC)
           q == <<c, m>>
<1>1. p \in Seq(Byte) /\ Len(p) = CommandAt
  BY Magic, Put32Facts DEF CommandAt
<1>2. q \in Seq(Byte) /\ Len(q) = 2
  OBVIOUS
<1>3. Header(c, m) = p \o q
  BY DEF Header
<1> HIDE DEF p, q
<1>4. /\ p \o q \in Seq(Byte) /\ Len(p \o q) = CommandAt + 2
      /\ Holds(p \o q, Start, p) /\ Holds(p \o q, CommandAt, q)
  BY <1>1, <1>2, Behind DEF Start
<1> QED
  BY <1>3, <1>4, PlacesOfFields DEF p, q

\* What an answer says of an exchange, and where its bytes stand.
Echoes == [command : Byte, sequence : Word32, down : Wave, up : Wave, status : Word16]
Begins(s, r) ==
  /\ Holds(s, Start, Put32(MAGIC)) /\ Holds(s, CommandAt, <<r.command, 0>>)
  /\ Holds(s, HEADER, Put32(r.sequence))
  /\ Holds(s, DownAt, Period(r.down)) /\ Holds(s, UpAt, Period(r.up))
Laid(s, r) == Begins(s, r) /\ Holds(s, StatusAt, Put16(r.status))

\* The fields of an answer are bytes.
LEMMA FieldFacts ==
  ASSUME NEW r \in Echoes
  PROVE  /\ r.command \in Byte /\ r.sequence \in Word32 /\ r.sequence \in Nat
         /\ r.down \in Wave /\ r.up \in Wave /\ r.status \in Word16 /\ r.status \in Nat
         /\ Put32(MAGIC) \in Seq(Byte) /\ <<r.command, 0>> \in Seq(Byte)
         /\ Put32(r.sequence) \in Seq(Byte) /\ Len(Put32(r.sequence)) = 4
         /\ Period(r.down) \in Seq(Byte) /\ Len(Period(r.down)) = AudioBytes
         /\ Period(r.up) \in Seq(Byte) /\ Len(Period(r.up)) = AudioBytes
         /\ Put16(r.status) \in Seq(Byte) /\ Len(Put16(r.status)) = 2
<1>1. /\ r.command \in Byte /\ r.sequence \in Word32 /\ r.down \in Wave /\ r.up \in Wave
      /\ r.status \in Word16
  BY DEF Echoes
<1>2. r.sequence \in Nat /\ r.status \in Nat
  BY <1>1 DEF Word16, Word32
<1>3. 0 \in Byte
  BY DEF Byte
<1>4. <<r.command, 0>> \in Seq(Byte)
  BY <1>1, <1>3
<1>5. Put32(MAGIC) \in Seq(Byte)
  BY Magic, Put32Facts
<1>6. Put32(r.sequence) \in Seq(Byte) /\ Len(Put32(r.sequence)) = 4
  BY <1>2, Put32Facts
<1>7. Period(r.down) \in Seq(Byte) /\ Len(Period(r.down)) = AudioBytes
  BY <1>1, PeriodFacts
<1>8. Period(r.up) \in Seq(Byte) /\ Len(Period(r.up)) = AudioBytes
  BY <1>1, PeriodFacts
<1>9. Put16(r.status) \in Seq(Byte) /\ Len(Put16(r.status)) = 2
  BY <1>2, Put16Facts
<1> QED
  BY <1>1, <1>2, <1>4, <1>5, <1>6, <1>7, <1>8, <1>9

\* What stands in an answer stands there when more bytes follow.
LEMMA LaidBefore ==
  ASSUME NEW s \in Seq(Byte), NEW t \in Seq(Byte), NEW r \in Echoes
  PROVE  /\ Begins(s, r) => Begins(s \o t, r)
         /\ Laid(s, r) => Laid(s \o t, r)
<1>1. Begins(s, r) => Begins(s \o t, r)
  BY PlacesOfFields, FieldFacts, Before DEF Begins
<1>2. Laid(s, r) => Laid(s \o t, r)
  BY <1>1, PlacesOfFields, FieldFacts, Before DEF Laid
<1> QED
  BY <1>1, <1>2

\* What a request and its answer begin with.
Body(r) == Header(r.command, 0) \o Put32(r.sequence) \o Period(r.down) \o Period(r.up)
\* It lays the fields out in their places.
LEMMA BodyLaid ==
  ASSUME NEW r \in Echoes
  PROVE  Body(r) \in Seq(Byte) /\ Len(Body(r)) = StatusAt /\ Begins(Body(r), r)
<1> DEFINE h == Header(r.command, 0)
           n == Put32(r.sequence)
           d == Period(r.down)
           u == Period(r.up)
           m == Put32(MAGIC)
           c == <<r.command, 0>>
           s2 == h \o n
           s3 == s2 \o d
           s4 == s3 \o u
<1>1. /\ m \in Seq(Byte) /\ c \in Seq(Byte) /\ n \in Seq(Byte) /\ Len(n) = 4
      /\ d \in Seq(Byte) /\ Len(d) = AudioBytes /\ u \in Seq(Byte) /\ Len(u) = AudioBytes
  BY FieldFacts
<1>2. h \in Seq(Byte) /\ Len(h) = HEADER /\ Holds(h, Start, m) /\ Holds(h, CommandAt, c)
  <2>1. r.command \in Byte /\ 0 \in Byte
    BY FieldFacts DEF Byte
  <2> QED
    BY <2>1, HeaderFacts
<1>3. Body(r) = s4
  BY DEF Body
<1> HIDE DEF h, n, d, u, m, c
<1>4. s2 \in Seq(Byte) /\ Len(s2) = Len(h) + Len(n) /\ Holds(s2, Len(h), n)
  BY <1>1, <1>2, Behind
<1>5. Holds(s2, Start, m) /\ Holds(s2, CommandAt, c)
  BY <1>1, <1>2, Before, PlacesOfFields
<1> HIDE DEF s2
<1>6. s2 \in Seq(Byte) /\ Len(s2) = DownAt /\ Holds(s2, HEADER, n)
  BY <1>1, <1>2, <1>4, PlacesOfFields
<1>7. s3 \in Seq(Byte) /\ Len(s3) = Len(s2) + Len(d) /\ Holds(s3, Len(s2), d)
  BY <1>1, <1>6, <1>5, Behind
<1>8. Holds(s3, Start, m) /\ Holds(s3, CommandAt, c) /\ Holds(s3, HEADER, n)
  BY <1>1, <1>6, <1>5, Before, PlacesOfFields
<1> HIDE DEF s3
<1>9. s3 \in Seq(Byte) /\ Len(s3) = UpAt /\ Holds(s3, DownAt, d)
  BY <1>1, <1>6, <1>7, PlacesOfFields
<1>10. s4 \in Seq(Byte) /\ Len(s4) = Len(s3) + Len(u) /\ Holds(s4, Len(s3), u)
  BY <1>1, <1>9, <1>8, Behind
<1>11. Holds(s4, Start, m) /\ Holds(s4, CommandAt, c) /\ Holds(s4, HEADER, n) /\ Holds(s4, DownAt, d)
  BY <1>1, <1>9, <1>8, Before, PlacesOfFields
<1> HIDE DEF s4
<1>12. s4 \in Seq(Byte) /\ Len(s4) = StatusAt /\ Holds(s4, UpAt, u)
  BY <1>1, <1>9, <1>10, PlacesOfFields
<1>13. Begins(s4, r)
  BY <1>11, <1>12 DEF Begins, m, c, n, d, u
<1> QED
  BY <1>3, <1>12, <1>13

\* The bytes of the offline tools' answer, with which the other answers begin.
LEMMA OfflineLaid ==
  ASSUME NEW r \in Echoes
  PROVE  /\ OfflineBytes(r) \in Seq(Byte) /\ Len(OfflineBytes(r)) = StatusAt + 2
         /\ Laid(OfflineBytes(r), r)
<1> DEFINE s == Body(r)
           t == Put16(r.status)
<1>1. s \in Seq(Byte) /\ Len(s) = StatusAt /\ Begins(s, r) /\ StatusAt \in Nat
  BY BodyLaid, Sizes
<1>2. t \in Seq(Byte) /\ Len(t) = 2
  BY FieldFacts
<1>3. OfflineBytes(r) = s \o t
  BY DEF OfflineBytes, Body
<1> HIDE DEF s, t
<1>4. s \o t \in Seq(Byte) /\ Len(s \o t) = StatusAt + 2 /\ Holds(s \o t, StatusAt, t)
  BY <1>1, <1>2, Behind
<1>5. Begins(s \o t, r)
  BY <1>1, <1>2, LaidBefore
<1>6. Laid(s \o t, r)
  BY <1>4, <1>5 DEF Laid, t
<1> QED
  BY <1>3, <1>4, <1>6

\* The answer with its telemetry.
LEMMA ResponseLaid ==
  ASSUME NEW r, NEW e \in Echoes, NEW time \in Word32, NEW processing \in Word32,
         OfflineBytes(r) = OfflineBytes(e), r.time = time, r.processing = processing
  PROVE  /\ ResponseBytes(r) \in Seq(Byte) /\ Len(ResponseBytes(r)) = StatusAt + 18
         /\ Laid(ResponseBytes(r), e)
         /\ Holds(ResponseBytes(r), StatusAt + 2, Put32(time))
         /\ Holds(ResponseBytes(r), StatusAt + 14, Put32(processing))
<1> DEFINE s1 == OfflineBytes(e)
           t == Put32(time)
           p == Put32(processing)
           s2 == s1 \o t
           s3 == s2 \o HALF
           s4 == s3 \o HALF
           s5 == s4 \o p
<1>1. s1 \in Seq(Byte) /\ Len(s1) = StatusAt + 2 /\ Laid(s1, e)
  BY OfflineLaid
<1>2. t \in Seq(Byte) /\ Len(t) = 4 /\ p \in Seq(Byte) /\ Len(p) = 4
  BY Put32Facts DEF Word32
<1>3. HALF \in Seq(Byte) /\ Len(HALF) = 4
  <2>1. 0 \in Byte /\ 63 \in Byte
    BY DEF Byte
  <2> QED
    BY <2>1 DEF HALF
<1>4. ResponseBytes(r) = s5
  BY DEF ResponseBytes
<1>5. /\ StatusAt \in Nat /\ StatusAt + 2 \in Nat /\ StatusAt + 14 \in Nat
      /\ (StatusAt + 2) + 4 = StatusAt + 6 /\ (StatusAt + 6) + 4 = StatusAt + 10
      /\ (StatusAt + 10) + 4 = StatusAt + 14 /\ (StatusAt + 14) + 4 = StatusAt + 18
  BY Sizes
<1> HIDE DEF s1, t, p
<1>6. s2 \in Seq(Byte) /\ Len(s2) = StatusAt + 6 /\ Laid(s2, e) /\ Holds(s2, StatusAt + 2, t)
  BY <1>1, <1>2, <1>5, Behind, LaidBefore
<1> HIDE DEF s2
<1>7. s3 \in Seq(Byte) /\ Len(s3) = StatusAt + 10 /\ Laid(s3, e) /\ Holds(s3, StatusAt + 2, t)
  <2>1. s3 \in Seq(Byte) /\ Len(s3) = StatusAt + 10
    BY <1>3, <1>5, <1>6, Behind
  <2>2. Laid(s3, e)
    BY <1>3, <1>6, LaidBefore
  <2>3. Holds(s3, StatusAt + 2, t)
    BY <1>2, <1>3, <1>5, <1>6, Before
  <2> QED
    BY <2>1, <2>2, <2>3
<1> HIDE DEF s3
<1>8. s4 \in Seq(Byte) /\ Len(s4) = StatusAt + 14 /\ Laid(s4, e) /\ Holds(s4, StatusAt + 2, t)
  <2>1. s4 \in Seq(Byte) /\ Len(s4) = StatusAt + 14
    BY <1>3, <1>5, <1>7, Behind
  <2>2. Laid(s4, e)
    BY <1>3, <1>7, LaidBefore
  <2>3. Holds(s4, StatusAt + 2, t)
    BY <1>2, <1>3, <1>5, <1>7, Before
  <2> QED
    BY <2>1, <2>2, <2>3
<1> HIDE DEF s4
<1>9. /\ s5 \in Seq(Byte) /\ Len(s5) = StatusAt + 18 /\ Laid(s5, e)
      /\ Holds(s5, StatusAt + 2, t) /\ Holds(s5, StatusAt + 14, p)
  <2>1. s5 \in Seq(Byte) /\ Len(s5) = StatusAt + 18 /\ Holds(s5, StatusAt + 14, p)
    BY <1>2, <1>5, <1>8, Behind
  <2>2. Laid(s5, e)
    BY <1>2, <1>8, LaidBefore
  <2>3. Holds(s5, StatusAt + 2, t)
    BY <1>2, <1>5, <1>8, Before
  <2> QED
    BY <2>1, <2>2, <2>3
<1> QED
  BY <1>4, <1>9 DEF t, p

\* The fields that are read where a request or an answer begins.
LEMMA BodyRead ==
  ASSUME NEW s \in Seq(Byte), NEW e \in Echoes, Begins(s, e)
  PROVE  /\ Get32(s, 0) = MAGIC /\ s[5] = e.command /\ Get32(s, HEADER) = e.sequence
         /\ Samples(s, HEADER + 4) = e.down /\ Samples(s, HEADER + 4 + AudioBytes) = e.up
<1>1. Get32(s, Start) = MAGIC
  BY Magic, PlacesOfFields, Get32Held DEF Begins
<1>2. s[5] = e.command
  <2> DEFINE c == <<e.command, 0>>
  <2>1. Len(c) = 2 /\ c[1] = e.command
    OBVIOUS
  <2>2. Holds(s, CommandAt, c)
    BY DEF Begins
  <2> HIDE DEF c
  <2>3. s[CommandAt + 1] = c[1]
    BY <2>1, <2>2 DEF Holds
  <2> QED
    BY <2>1, <2>3, PlacesOfFields
<1>3. Get32(s, HEADER) = e.sequence
  BY PlacesOfFields, FieldFacts, Get32Held DEF Begins
<1>4. Samples(s, DownAt) = e.down /\ Samples(s, UpAt) = e.up
  BY PlacesOfFields, FieldFacts, SamplesHeld DEF Begins
<1> QED
  BY <1>1, <1>2, <1>3, <1>4 DEF Start, DownAt, UpAt

\* The fields that all copies read, where an answer stands.
LEMMA LaidCommon ==
  ASSUME NEW s \in Seq(Byte), NEW e \in Echoes, Laid(s, e)
  PROVE  Common(s) = e /\ Get32(s, 0) = MAGIC
<1>1. /\ Get32(s, 0) = MAGIC /\ s[5] = e.command /\ Get32(s, HEADER) = e.sequence
      /\ Samples(s, HEADER + 4) = e.down /\ Samples(s, HEADER + 4 + AudioBytes) = e.up
  BY BodyRead DEF Laid
<1>2. Get16(s, StatusAt) = e.status
  BY PlacesOfFields, FieldFacts, Get16Held DEF Laid
<1>3. Common(s) = [command |-> e.command, sequence |-> e.sequence, down |-> e.down, up |-> e.up,
                   status |-> e.status]
  BY <1>1, <1>2 DEF Common
<1>4. e = [command |-> e.command, sequence |-> e.sequence, down |-> e.down, up |-> e.up,
           status |-> e.status]
  BY DEF Echoes
<1> QED
  BY <1>1, <1>3, <1>4

\* An answer with its telemetry begins as the one without, and keeps its fields.
LEMMA WithFields ==
  ASSUME NEW e \in Echoes, NEW time, NEW processing
  PROVE  /\ OfflineBytes(With(e, time, processing)) = OfflineBytes(e)
         /\ With(e, time, processing).time = time /\ With(e, time, processing).processing = processing
         /\ With(e, time, processing).command = e.command
         /\ With(e, time, processing).sequence = e.sequence
         /\ With(e, time, processing).down = e.down /\ With(e, time, processing).up = e.up
         /\ With(e, time, processing).status = e.status
BY DEF With, OfflineBytes

\* For every length of a period: what the firmware answers to an exchange (bridgeWriteUsbExchangeResponse
\* and bridgeWriteExchangeResponseOn) is read back field for field by parseExchangeResponse of the
\* page, of the bridge server, of the realtime tools and of the offline tools.
THEOREM AnswersRead ==
  ASSUME NEW e \in Echoes, NEW time \in Word32, NEW processing \in Word32,
         NEW address \in Nat, address % 2 = 0
  PROVE  /\ HostResponse(ResponseBytes(With(e, time, processing)), address) = With(e, time, processing)
         /\ BridgeResponse(ResponseBytes(With(e, time, processing)), address) = With(e, time, processing)
         /\ RealtimeResponse(ResponseBytes(With(e, time, processing)), address) = With(e, time, processing)
         /\ OfflineResponse(OfflineBytes(e), address) = e
<1> DEFINE r == With(e, time, processing)
           b == ResponseBytes(r)
           o == OfflineBytes(e)
<1>1. /\ b \in Seq(Byte) /\ Len(b) = StatusAt + 18 /\ Laid(b, e)
      /\ Holds(b, StatusAt + 2, Put32(time)) /\ Holds(b, StatusAt + 14, Put32(processing))
  BY WithFields, ResponseLaid
<1>2. o \in Seq(Byte) /\ Len(o) = StatusAt + 2 /\ Laid(o, e)
  BY OfflineLaid
<1>3. With(e, time, processing) = r
  OBVIOUS
<1> HIDE DEF r, b, o
<1>4. Common(b) = e /\ Get32(b, 0) = MAGIC /\ Common(o) = e /\ Get32(o, 0) = MAGIC
  BY <1>1, <1>2, LaidCommon
<1>5. Get32(b, StatusAt + 2) = time /\ Get32(b, StatusAt + 14) = processing
  BY <1>1, Get32Held, Sizes
<1>6. /\ StatusAt \in Nat /\ StatusAt # StatusAt + 1 /\ address % 2 # 1
      /\ (StatusAt + 6) + 8 = StatusAt + 14 /\ time # Absent
  BY Sizes DEF Absent, Word32
<1>7. Word(b, StatusAt + 2) = time /\ Word(b, StatusAt + 14) = processing
  BY <1>1, <1>5, <1>6 DEF Word
<1>8. Sound(b, StatusAt + 2) /\ Sound(b, StatusAt + 6)
  BY <1>1, <1>4, <1>6 DEF Sound
<1>9. HostResponse(b, address) = r
  BY <1>1, <1>3, <1>4, <1>6, <1>7, <1>8 DEF HostResponse
<1>10. RealtimeResponse(b, address) = r
  BY <1>1, <1>3, <1>4, <1>6, <1>7, <1>8 DEF RealtimeResponse
<1>11. BridgeResponse(b, address) = r
  BY <1>1, <1>3, <1>4, <1>5, <1>6, <1>7, <1>8 DEF BridgeResponse
<1>12. OfflineResponse(o, address) = e
  BY <1>2, <1>4, <1>6, Sizes DEF OfflineResponse, Sound
<1> QED
  BY <1>9, <1>10, <1>11, <1>12 DEF r, b, o

\* The bytes of an ack are read back, and no copy takes them for the answer to an exchange.
LEMMA AcksRead ==
  ASSUME NEW c \in Byte, NEW w \in Word32, NEW status \in Word16, NEW address
  PROVE  /\ AckBytes(c, w, status) \in Seq(Byte) /\ Len(AckBytes(c, w, status)) = ACK_SIZE
         /\ Holds(AckBytes(c, w, status), Start, Put32(MAGIC))
         /\ Ack(AckBytes(c, w, status)) = [command |-> c, sequence |-> w, status |-> status]
         /\ HostResponse(AckBytes(c, w, status), address) = Refused
         /\ BridgeResponse(AckBytes(c, w, status), address) = Refused
         /\ RealtimeResponse(AckBytes(c, w, status), address) = Refused
         /\ OfflineResponse(AckBytes(c, w, status), address) = Refused
<1> DEFINE h == Header(c, 0)
           n == Put32(w)
           t == Put16(status)
           m == Put32(MAGIC)
           q == <<c, 0>>
           s2 == h \o n
           s3 == s2 \o t
<1>1. /\ h \in Seq(Byte) /\ Len(h) = HEADER /\ Holds(h, Start, m) /\ Holds(h, CommandAt, q)
      /\ q \in Seq(Byte) /\ m \in Seq(Byte)
  <2>1. 0 \in Byte
    BY DEF Byte
  <2>2. q \in Seq(Byte)
    BY <2>1
  <2> QED
    BY <2>1, <2>2, HeaderFacts, Magic, Put32Facts
<1>2. n \in Seq(Byte) /\ Len(n) = 4 /\ t \in Seq(Byte) /\ Len(t) = 2
  BY Put32Facts, Put16Facts DEF Word32, Word16
<1>3. AckBytes(c, w, status) = s3
  BY DEF AckBytes
<1>4. Len(q) = 2 /\ q[1] = c
  OBVIOUS
<1> HIDE DEF h, n, t, m, q
<1>5. s2 \in Seq(Byte) /\ Len(s2) = Len(h) + Len(n) /\ Holds(s2, Len(h), n)
  BY <1>1, <1>2, Behind
<1>6. Holds(s2, Start, m) /\ Holds(s2, CommandAt, q)
  BY <1>1, <1>2, Before, PlacesOfFields
<1> HIDE DEF s2
<1>7. s2 \in Seq(Byte) /\ Len(s2) = DownAt /\ Holds(s2, HEADER, n)
  BY <1>1, <1>2, <1>5, PlacesOfFields
<1>8. s3 \in Seq(Byte) /\ Len(s3) = Len(s2) + Len(t) /\ Holds(s3, Len(s2), t)
  BY <1>2, <1>7, Behind
<1>9. Holds(s3, Start, m) /\ Holds(s3, CommandAt, q) /\ Holds(s3, HEADER, n)
  BY <1>1, <1>2, <1>6, <1>7, Before, PlacesOfFields
<1> HIDE DEF s3
<1>10. s3 \in Seq(Byte) /\ Len(s3) = ACK_SIZE /\ Holds(s3, DownAt, t) /\ DownAt = HEADER + 4
  BY <1>2, <1>7, <1>8, PlacesOfFields, Sizes
<1>11. Get32(s3, 0) = MAGIC /\ Get32(s3, HEADER) = w /\ Get16(s3, HEADER + 4) = status
  BY <1>9, <1>10, Get32Held, Get16Held, Magic, PlacesOfFields DEF m, n, t, Start
<1>12. s3[5] = c
  <2>1. s3[CommandAt + 1] = q[1]
    BY <1>4, <1>9 DEF Holds
  <2> QED
    BY <1>4, <2>1, PlacesOfFields
<1>13. Ack(s3) = [command |-> c, sequence |-> w, status |-> status]
  BY <1>10, <1>11, <1>12, Sizes DEF Ack, Sound
<1>14. ~Sound(s3, StatusAt + 2) /\ ~Sound(s3, StatusAt + 6) /\ ~Sound(s3, OFFLINE_SIZE)
  BY <1>10, Sizes DEF Sound
<1>15. /\ HostResponse(s3, address) = Refused /\ BridgeResponse(s3, address) = Refused
       /\ RealtimeResponse(s3, address) = Refused /\ OfflineResponse(s3, address) = Refused
  BY <1>14 DEF HostResponse, BridgeResponse, RealtimeResponse, OfflineResponse
<1> QED
  BY <1>3, <1>9, <1>10, <1>13, <1>15 DEF m

\* Two parts, taken apart again.
LEMMA Parts ==
  ASSUME NEW S, NEW a \in Seq(S), NEW b \in Seq(S)
  PROVE  /\ SubSeq(a \o b, 1, Len(a)) = a
         /\ SubSeq(a \o b, Len(a) + 1, Len(a \o b)) = b
<1> DEFINE u == a \o b
           m == Len(a)
           n == Len(b)
           p == SubSeq(u, 1, m)
           q == SubSeq(u, m + 1, Len(u))
<1>1. /\ u \in Seq(S) /\ Len(u) = m + n
      /\ \A i \in 1 .. m + n : u[i] = IF i <= m THEN a[i] ELSE b[i - m]
  BY ConcatProperties
<1>2. m \in Nat /\ n \in Nat
  BY LenProperties
<1>3. \A i \in 1 .. m + n : u[i] \in S
  BY <1>1, ElementOfSeq
<1> HIDE DEF u, m, n
<1>4. p \in Seq(S) /\ Len(p) = m /\ \A i \in 1 .. m : p[i] = u[i]
  <2>1. 1 \in Int /\ m \in Int /\ \A i \in 1 .. m : u[i] \in S
    BY <1>2, <1>3
  <2>2. /\ p \in Seq(S) /\ Len(p) = IF 1 <= m THEN m - 1 + 1 ELSE 0
        /\ \A i \in 1 .. m - 1 + 1 : p[i] = u[1 + i - 1]
    BY <2>1, SubSeqProperties
  <2> HIDE DEF p
  <2>3. (IF 1 <= m THEN m - 1 + 1 ELSE 0) = m /\ m - 1 + 1 = m /\ \A i \in 1 .. m : 1 + i - 1 = i
    BY <1>2
  <2> QED
    BY <2>2, <2>3
<1>5. q \in Seq(S) /\ Len(q) = n /\ \A i \in 1 .. n : q[i] = u[m + i]
  <2> DEFINE e == m + n
  <2>1. m + 1 \in Int /\ e \in Int /\ \A i \in m + 1 .. e : u[i] \in S
    BY <1>2, <1>3
  <2>2. q = SubSeq(u, m + 1, e)
    BY <1>1
  <2> HIDE DEF q
  <2>3. /\ q \in Seq(S) /\ Len(q) = IF m + 1 <= e THEN e - (m + 1) + 1 ELSE 0
        /\ \A i \in 1 .. e - (m + 1) + 1 : q[i] = u[m + 1 + i - 1]
    BY <2>1, <2>2, SubSeqProperties
  <2>4. /\ (IF m + 1 <= e THEN e - (m + 1) + 1 ELSE 0) = n /\ e - (m + 1) + 1 = n
        /\ \A i \in 1 .. n : m + 1 + i - 1 = m + i
    BY <1>2
  <2> HIDE DEF e
  <2> QED
    BY <2>3, <2>4
<1> HIDE DEF p, q
<1>6. \A i \in 1 .. m : p[i] = a[i]
  BY <1>1, <1>2, <1>4
<1>7. p = a
  BY <1>4, <1>6, SeqEqual DEF m
<1>8. \A i \in 1 .. n : q[i] = b[i]
  <2> SUFFICES ASSUME NEW i \in 1 .. n PROVE q[i] = b[i]
    OBVIOUS
  <2>1. m + i \in 1 .. m + n /\ ~(m + i <= m) /\ (m + i) - m = i
    BY <1>2
  <2> QED
    BY <1>1, <1>5, <2>1
<1>9. q = b
  BY <1>5, <1>8, SeqEqual DEF n
<1> QED
  BY <1>7, <1>9 DEF p, q, u, m

\* A frame with its length before it.
LEMMA WrapFacts ==
  ASSUME NEW inner \in Seq(Byte)
  PROVE  /\ Wrap(inner) \in Seq(Byte) /\ Len(Wrap(inner)) = PREFIX + Len(inner)
         /\ SubSeq(Wrap(inner), PREFIX + 1, Len(Wrap(inner))) = inner
         /\ Holds(Wrap(inner), Start, Put32(Len(inner)))
<1> DEFINE p == Put32(Len(inner))
           w == p \o inner
<1>1. p \in Seq(Byte) /\ Len(p) = PREFIX
  BY LenProperties, Put32Facts, Sizes
<1>2. Wrap(inner) = w
  BY DEF Wrap
<1> HIDE DEF p
<1>3. w \in Seq(Byte) /\ Len(w) = Len(p) + Len(inner) /\ Holds(w, Start, p)
  BY <1>1, Behind DEF Start
<1>4. SubSeq(w, Len(p) + 1, Len(w)) = inner
  BY <1>1, Parts
<1> QED
  BY <1>1, <1>2, <1>3, <1>4 DEF p

\* A period of an exchange, and its number.
LEMMA PeriodOfFacts ==
  ASSUME NEW i \in 1 .. MaxOps
  PROVE  PeriodOf(i).down \in Wave /\ PeriodOf(i).up \in Wave /\ Number(i) \in Word32
<1>1. \A n \in Nat : n % 32768 \in Word16
  BY SMT DEF Word16
<1>2. \A j \in 1 .. BufferLen : (i + j) % 32768 \in Word16
  <2>1. \A j \in 1 .. BufferLen : i + j \in Nat
    BY Sizes
  <2> QED
    BY <1>1, <2>1
<1>3. (300 + i) % 32768 \in Word16
  <2>1. 300 + i \in Nat
    OBVIOUS
  <2> QED
    BY <1>1, <2>1
<1>4. PeriodOf(i).down \in Wave /\ PeriodOf(i).up \in Wave
  BY <1>2, <1>3 DEF PeriodOf, Wave
<1>5. MaxOps \in Nat /\ MaxOps <= MAX_INT
  BY LinkAssumption
<1>6. Number(i) \in Word32
  BY <1>5, SMT DEF Number, Word32, MAX_INT
<1> QED
  BY <1>4, <1>6

\* What the device understands of a command.
LEMMA CommandHeard ==
  ASSUME NEW c \in Byte, NEW m \in Byte
  PROVE  Header(c, m) \in Seq(Byte) /\ DeviceRequest(Header(c, m)).command = c
<1> DEFINE h == Header(c, m)
           q == <<c, m>>
<1>1. h \in Seq(Byte) /\ Holds(h, CommandAt, q)
  BY HeaderFacts
<1>2. Len(q) = 2 /\ q[1] = c
  OBVIOUS
<1> HIDE DEF h, q
<1>3. h[5] = c
  BY <1>1, <1>2, PlacesOfFields DEF Holds
<1> QED
  BY <1>1, <1>3 DEF DeviceRequest, h

\* What the device understands of an exchange.
LEMMA RequestHeard ==
  ASSUME NEW i \in 1 .. MaxOps, NEW c \in Byte, NEW p \in Seq(Byte), NEW s \in Seq(Byte)
  PROVE  /\ Request(c, Number(i), PeriodOf(i), p, s) \in Seq(Byte)
         /\ DeviceRequest(Request(c, Number(i), PeriodOf(i), p, s)) =
              [command |-> c, sequence |-> Number(i),
               period |-> [down |-> PeriodOf(i).down, up |-> PeriodOf(i).up]]
<1> DEFINE r == Request(c, Number(i), PeriodOf(i), p, s)
           d == PeriodOf(i).down
           u == PeriodOf(i).up
           n == Number(i)
           e == [command |-> c, sequence |-> n, down |-> d, up |-> u, status |-> 0]
           b == Body(e)
           t == b \o p
<1>1. r = t \o s
  BY DEF Request, Body
<1>2. d \in Wave /\ u \in Wave /\ n \in Word32
  BY PeriodOfFacts
<1> HIDE DEF d, u, n
<1>3. e \in Echoes /\ e.command = c /\ e.sequence = n /\ e.down = d /\ e.up = u
  BY <1>2 DEF Echoes, Word16
<1> HIDE DEF e
<1>4. b \in Seq(Byte) /\ Len(b) = StatusAt /\ Begins(b, e)
  BY <1>3, BodyLaid
<1> HIDE DEF b
<1>5. t \in Seq(Byte) /\ Len(t) = Len(b) + Len(p) /\ Len(p) \in Nat /\ Len(s) \in Nat
  BY <1>4, Behind
<1>6. Begins(t, e)
  BY <1>3, <1>4, LaidBefore
<1> HIDE DEF t
<1>7. t \o s \in Seq(Byte) /\ Len(t \o s) = Len(t) + Len(s)
  BY <1>5, Behind
<1>8. Begins(t \o s, e)
  BY <1>3, <1>5, <1>6, LaidBefore
<1> DEFINE z == t \o s
<1> HIDE DEF z, r
<1>9. z \in Seq(Byte) /\ r = z /\ Begins(z, e) /\ Len(z) > HEADER
  BY <1>1, <1>4, <1>5, <1>7, <1>8, Sizes DEF z
<1>10. /\ z[5] = c /\ Get32(z, HEADER) = n
       /\ Samples(z, HEADER + 4) = d /\ Samples(z, HEADER + 4 + AudioBytes) = u
  BY <1>3, <1>9, BodyRead
<1>11. DeviceRequest(z) = [command |-> c, sequence |-> n, period |-> [down |-> d, up |-> u]]
  BY <1>9, <1>10 DEF DeviceRequest
<1> QED
  BY <1>9, <1>11 DEF r, d, u, n

\* The request of the operation i.
Asks(kind, i) == [op |-> i, bytes |-> Bytes(kind, i)]

\* What the device understands of the bytes that each host writes: its command, and of an
\* exchange its number and its period.
LEMMA HeardFacts ==
  ASSUME host \in Hosts, NEW kind \in {"enter", "query", "exchange", "exit"}, NEW i \in 1 .. MaxOps
  PROVE  /\ Heard(Asks(kind, i)).command \in Byte
         /\ kind = "exchange" =>
              /\ Heard(Asks(kind, i)).sequence = Number(i)
              /\ Heard(Asks(kind, i)).period.down = PeriodOf(i).down
              /\ Heard(Asks(kind, i)).period.up = PeriodOf(i).up
<1> DEFINE Exchange(c, p) == Request(c, Number(i), PeriodOf(i), p, p)
           Zeros == <<0, 0, 0, 0>>
           inner == IF Offline THEN Bytes(kind, i) ELSE SubSeq(Bytes(kind, i), PREFIX + 1, Len(Bytes(kind, i)))
<1>1. Heard(Asks(kind, i)) = DeviceRequest(inner)
  BY DEF Heard, Asks
<1>2. /\ \A c \in {0, 1, 2, 3, 17, 18, 19, 21} : c \in Byte
      /\ HALF \in Seq(Byte) /\ Zeros \in Seq(Byte)
  <2>1. \A c \in {0, 1, 2, 3, 17, 18, 19, 21, 63} : c \in Byte
    BY DEF Byte
  <2> QED
    BY <2>1 DEF HALF
<1> HIDE DEF Zeros
<1>3. ASSUME NEW c \in {1, 2, 17, 18, 21}, NEW m \in {0, 1}, kind # "exchange",
             IF Offline THEN Bytes(kind, i) = Header(c, m) ELSE Bytes(kind, i) = Wrap(Header(c, m))
      PROVE  DeviceRequest(inner).command \in Byte
  <2>0. c \in Byte /\ m \in Byte
    BY <1>2
  <2>1. Header(c, m) \in Seq(Byte) /\ DeviceRequest(Header(c, m)).command = c /\ c \in Byte
    BY <2>0, CommandHeard
  <2>2. inner = Header(c, m)
    BY <1>3, <2>1, WrapFacts
  <2> QED
    BY <2>1, <2>2
<1>4. ASSUME NEW c \in {3, 19}, NEW p \in Seq(Byte),
             IF Offline THEN Bytes(kind, i) = Exchange(c, p) ELSE Bytes(kind, i) = Wrap(Exchange(c, p))
      PROVE  /\ DeviceRequest(inner).command \in Byte
             /\ DeviceRequest(inner).sequence = Number(i)
             /\ DeviceRequest(inner).period.down = PeriodOf(i).down
             /\ DeviceRequest(inner).period.up = PeriodOf(i).up
  <2>0. c \in Byte
    BY <1>2
  <2>1. /\ Exchange(c, p) \in Seq(Byte)
        /\ DeviceRequest(Exchange(c, p)) =
              [command |-> c, sequence |-> Number(i),
               period |-> [down |-> PeriodOf(i).down, up |-> PeriodOf(i).up]]
    BY <2>0, RequestHeard
  <2> HIDE DEF Exchange
  <2>2. inner = Exchange(c, p)
    BY <1>4, <2>1, WrapFacts
  <2> HIDE DEF inner
  <2> QED
    BY <2>0, <2>1, <2>2
<1>5. CASE host = "webserial"
  <2>1. Web /\ ~Offline
    BY <1>5 DEF Web, Offline
  <2>2. Bytes(kind, i) = HostFrame(kind, i)
    BY <1>5, <2>1 DEF Bytes
  <2>3. CASE kind # "exchange"
    <3>1. \/ Bytes(kind, i) = Wrap(Header(17, 1)) \/ Bytes(kind, i) = Wrap(Header(21, 0))
          \/ Bytes(kind, i) = Wrap(Header(18, 0))
      BY <2>2, <2>3 DEF HostFrame, HostEnter, HostQuery, HostExit
    <3> HIDE DEF inner
    <3> QED
      BY <1>1, <1>3, <2>1, <2>3, <3>1
  <2>4. CASE kind = "exchange"
    <3>1. Bytes(kind, i) = Wrap(Exchange(19, HALF))
      BY <2>2, <2>4 DEF HostFrame, HostExchange
    <3> HIDE DEF inner, Exchange
    <3> QED
      BY <1>1, <1>2, <1>4, <2>1, <2>4, <3>1
  <2> QED
    BY <2>3, <2>4
<1>6. CASE host = "bridge"
  <2>1. ~Web /\ ~Offline
    BY <1>6 DEF Web, Offline
  <2>2. Bytes(kind, i) = BridgeFrame(kind, i)
    BY <1>6, <2>1 DEF Bytes
  <2>3. CASE kind # "exchange"
    <3>1. \/ Bytes(kind, i) = Wrap(Header(17, 1)) \/ Bytes(kind, i) = Wrap(Header(21, 0))
          \/ Bytes(kind, i) = Wrap(Header(18, 0))
      BY <2>2, <2>3 DEF BridgeFrame, BridgeEnter, BridgeQuery, BridgeExit
    <3> HIDE DEF inner
    <3> QED
      BY <1>1, <1>3, <2>1, <2>3, <3>1
  <2>4. CASE kind = "exchange"
    <3>1. Bytes(kind, i) = Wrap(Exchange(19, HALF))
      BY <2>2, <2>4 DEF BridgeFrame, BridgeExchange
    <3> HIDE DEF inner, Exchange
    <3> QED
      BY <1>1, <1>2, <1>4, <2>1, <2>4, <3>1
  <2> QED
    BY <2>3, <2>4
<1>7. CASE host = "realtime"
  <2>1. ~Web /\ ~Offline
    BY <1>7 DEF Web, Offline
  <2>2. Bytes(kind, i) = RealtimeFrame(kind, i)
    BY <1>7, <2>1 DEF Bytes
  <2>3. CASE kind \in {"enter", "exit"}
    <3>1. Bytes(kind, i) = Wrap(Header(17, 0)) \/ Bytes(kind, i) = Wrap(Header(18, 0))
      BY <2>2, <2>3 DEF RealtimeFrame, RealtimeEnter, RealtimeExit
    <3>2. kind # "exchange"
      BY <2>3
    <3> HIDE DEF inner
    <3> QED
      BY <1>1, <1>3, <2>1, <3>1, <3>2
  <2>4. CASE kind \in {"query", "exchange"}
    <3>1. Bytes(kind, i) = Wrap(Exchange(19, HALF))
      BY <2>2, <2>4 DEF RealtimeFrame, RealtimeExchange
    <3> HIDE DEF inner, Exchange
    <3> QED
      BY <1>1, <1>2, <1>4, <2>1, <2>4, <3>1
  <2> QED
    BY <2>3, <2>4
<1>8. CASE host = "offline"
  <2>1. ~Web /\ Offline
    BY <1>8 DEF Web, Offline
  <2>2. Bytes(kind, i) = OfflineFrame(kind, i)
    BY <1>8, <2>1 DEF Bytes
  <2>3. CASE kind \in {"enter", "exit"}
    <3>1. Bytes(kind, i) = Header(1, 0) \/ Bytes(kind, i) = Header(2, 0)
      BY <2>2, <2>3 DEF OfflineFrame, OfflineEnter, OfflineExit
    <3>2. kind # "exchange"
      BY <2>3
    <3> HIDE DEF inner
    <3> QED
      BY <1>1, <1>3, <2>1, <3>1, <3>2
  <2>4. CASE kind \in {"query", "exchange"}
    <3>1. Bytes(kind, i) = Exchange(3, Zeros)
      BY <2>2, <2>4 DEF OfflineFrame, OfflineExchange, Zeros
    <3> HIDE DEF inner, Exchange
    <3> QED
      BY <1>1, <1>2, <1>4, <2>1, <2>4, <3>1
  <2> QED
    BY <2>3, <2>4
<1> QED
  BY <1>5, <1>6, <1>7, <1>8 DEF Hosts

\* What the device says, and the bytes of it.
LEMMA AnswerFacts ==
  ASSUME host \in Hosts, NEW kind \in {"enter", "query", "exchange", "exit"}, NEW i \in 1 .. MaxOps
  PROVE  /\ \A word \in {0, 2}, status \in {OK, NOT_ACTIVE} :
              AckBytes(Heard(Asks(kind, i)).command, word, status) \in Seq(Byte)
         /\ kind = "exchange" =>
              \A status \in Statuses :
                /\ Offline => OfflineBytes(EchoOf(Asks(kind, i), status)) \in Seq(Byte)
                /\ ~Offline => ResponseBytes(EchoOf(Asks(kind, i), status)) \in Seq(Byte)
<1> DEFINE q == Asks(kind, i)
           c == Heard(q).command
<1>1. c \in Byte
  BY HeardFacts
<1>2. /\ \A word \in {0, 2, 7, 9} : word \in Word32
      /\ \A status \in {OK, NOT_ACTIVE, OK + SEQ_GAP, OK + UNDERRUN} : status \in Word16
  BY SMT DEF OK, NOT_ACTIVE, SEQ_GAP, UNDERRUN, Word32, Word16, MAX_INT
<1>3. ASSUME NEW word \in {0, 2}, NEW status \in {OK, NOT_ACTIVE}
      PROVE  AckBytes(c, word, status) \in Seq(Byte)
  <2>1. word \in Word32 /\ status \in Word16
    BY <1>2
  <2> HIDE DEF c
  <2> QED
    BY <1>1, <2>1, AcksRead
<1>4. ASSUME kind = "exchange", NEW status \in Statuses
      PROVE  /\ Offline => OfflineBytes(EchoOf(q, status)) \in Seq(Byte)
             /\ ~Offline => ResponseBytes(EchoOf(q, status)) \in Seq(Byte)
  <2> DEFINE e == [command |-> c, sequence |-> Heard(q).sequence, down |-> Heard(q).period.down,
                   up |-> Heard(q).period.up, status |-> status]
             w == With(e, 7, 9)
  <2>1. status \in Word16
    BY <1>2 DEF Statuses
  <2>2. Heard(q).sequence \in Word32 /\ Heard(q).period.down \in Wave /\ Heard(q).period.up \in Wave
    BY <1>4, HeardFacts, PeriodOfFacts
  <2>3. e \in Echoes
    <3> HIDE DEF c, q
    <3> QED
      BY <1>1, <2>1, <2>2 DEF Echoes
  <2>4. EchoOf(q, status) = IF Offline THEN e ELSE w
    BY DEF EchoOf
  <2> HIDE DEF e, c, q
  <2>5. OfflineBytes(e) \in Seq(Byte)
    BY <2>3, OfflineLaid
  <2>6. 7 \in Word32 /\ 9 \in Word32
    BY <1>2
  <2>7. OfflineBytes(w) = OfflineBytes(e) /\ w.time = 7 /\ w.processing = 9
    BY <2>3, WithFields
  <2> HIDE DEF w
  <2>8. ResponseBytes(w) \in Seq(Byte)
    BY <2>3, <2>6, <2>7, ResponseLaid
  <2> QED
    BY <2>4, <2>5, <2>8
<1> QED
  BY <1>3, <1>4

-----------------------------------------------------------------------------
(***************************************************************************)
(* The frame readers.                                                      *)
(***************************************************************************)
Readers(W) == [buffer : Seq(Byte), address : Nat, waiters : Seq(W)]
Stopped(bytes) == Len(bytes) < PREFIX \/ ~BadPrefix(bytes)

\* The end of some bytes.
LEMMA EndOf ==
  ASSUME NEW b \in Seq(Byte), NEW k \in 0 .. Len(b)
  PROVE  /\ SubSeq(b, k + 1, Len(b)) \in Seq(Byte) /\ Len(SubSeq(b, k + 1, Len(b))) = Len(b) - k
         /\ k = 0 => SubSeq(b, k + 1, Len(b)) = b
<1>1. Len(b) \in Nat /\ k + 1 \in Int /\ \A i \in k + 1 .. Len(b) : b[i] \in Byte
  BY LenProperties, ElementOfSeq
<1>2. /\ SubSeq(b, k + 1, Len(b)) \in Seq(Byte)
      /\ Len(SubSeq(b, k + 1, Len(b))) = IF k + 1 <= Len(b) THEN Len(b) - (k + 1) + 1 ELSE 0
  BY <1>1, SubSeqProperties
<1>3. ASSUME k = 0 PROVE SubSeq(b, k + 1, Len(b)) = b
  <2>1. k + 1 = 1
    BY <1>3
  <2>2. SubSeq(b, 1, Len(b)) = b
    BY SubSeqFull
  <2> QED
    BY <2>1, <2>2
<1>4. (IF k + 1 <= Len(b) THEN Len(b) - (k + 1) + 1 ELSE 0) = Len(b) - k
  BY <1>1
<1> QED
  BY <1>2, <1>3, <1>4

\* What is skipped: nothing when a frame may begin at once, otherwise up to where one may.
LEMMA SkippedFacts ==
  ASSUME NEW b \in Seq(Byte)
  PROVE  /\ Skipped(b) \in 0 .. Len(b) /\ Stopped(SubSeq(b, Skipped(b) + 1, Len(b)))
         /\ Stopped(b) => Skipped(b) = 0
<1> DEFINE Stops(k) == Len(b) - k < PREFIX \/ ~BadPrefix(SubSeq(b, k + 1, Len(b)))
           T == {k \in 0 .. Len(b) : Stops(k)}
           S == Skipped(b)
<1>1. Len(b) \in Nat
  BY LenProperties
<1>2. Len(b) \in T /\ T \subseteq Nat
  BY <1>1, Sizes
<1>3. \E k \in T : \A j \in T : k <= j
  <2> HIDE DEF T
  <2> QED
    BY <1>2, Least
<1>4. \E k \in 0 .. Len(b) : Stops(k) /\ \A j \in 0 .. k - 1 : ~Stops(j)
  <2>1. PICK k \in T : \A j \in T : k <= j
    BY <1>3
  <2>2. k \in 0 .. Len(b) /\ Stops(k)
    OBVIOUS
  <2>3. ASSUME NEW j \in 0 .. k - 1 PROVE ~Stops(j)
    <3>1. j \in 0 .. Len(b) /\ ~(k <= j)
      BY <1>1, <2>2
    <3>2. j \notin T
      BY <2>1, <3>1
    <3> QED
      BY <3>1, <3>2
  <2> QED
    BY <2>2, <2>3
<1>5. S = CHOOSE k \in 0 .. Len(b) : Stops(k) /\ \A j \in 0 .. k - 1 : ~Stops(j)
  BY DEF Skipped
<1> HIDE DEF Stops, S
<1>6. S \in 0 .. Len(b) /\ Stops(S) /\ \A j \in 0 .. S - 1 : ~Stops(j)
  BY <1>4, <1>5
<1>7. Stopped(SubSeq(b, S + 1, Len(b)))
  <2>1. Len(SubSeq(b, S + 1, Len(b))) = Len(b) - S
    BY <1>6, EndOf
  <2> QED
    BY <1>6, <2>1 DEF Stops, Stopped
<1>8. ASSUME Stopped(b) PROVE S = 0
  <2>1. 0 \in 0 .. Len(b) /\ 0 + 1 = 1
    BY <1>1
  <2> DEFINE c == SubSeq(b, 0 + 1, Len(b))
  <2>2. c = b
    BY <2>1, SubSeqFull
  <2>3. Stops(0)
    <3>1. Stops(0) <=> Len(b) - 0 < PREFIX \/ ~BadPrefix(c)
      BY DEF Stops
    <3> HIDE DEF c
    <3>2. Len(b) - 0 = Len(b)
      BY <1>1
    <3> QED
      BY <1>8, <2>2, <3>1, <3>2 DEF Stopped
  <2>4. ~(0 \in 0 .. S - 1)
    BY <1>6, <2>3
  <2> QED
    BY <1>6, <2>4, <1>1
<1> QED
  BY <1>6, <1>7, <1>8 DEF S

\* A reader with another buffer, whose address has moved on.
Moved(r, b, k) == [r EXCEPT !.buffer = b, !.address = @ + k]
\* What such a reader has.
LEMMA MovedFacts ==
  ASSUME NEW W, NEW r \in Readers(W), NEW b \in Seq(Byte), NEW k \in Nat
  PROVE  /\ Moved(r, b, k) \in Readers(W) /\ Moved(r, b, k).buffer = b
         /\ Moved(r, b, k).waiters = r.waiters /\ Moved(r, b, k).address = r.address + k
<1> DEFINE A == Seq(Byte)
           C == Seq(W)
           R == [buffer : A, address : Nat, waiters : C]
           p == [r EXCEPT !.buffer = b]
           a == r.address + k
           q == [p EXCEPT !.address = a]
<1>1. Readers(W) = R
  BY DEF Readers
<1>2. r \in R /\ b \in A
  BY DEF Readers
<1> HIDE DEF A, C
<1>3. p \in R /\ p.buffer = b /\ p.waiters = r.waiters
  BY <1>2
<1>4. a \in Nat
  BY <1>2
<1>5. Moved(r, b, k) = q
  BY DEF Moved
<1> HIDE DEF p, a
<1>6. q \in R /\ q.buffer = p.buffer /\ q.waiters = p.waiters /\ q.address = a
  BY <1>3, <1>4
<1> HIDE DEF q, R
<1> QED
  BY <1>1, <1>3, <1>5, <1>6 DEF a

\* A reader with another buffer, with other waiters, or cleared.
Holding(r, b) == [r EXCEPT !.buffer = b]
Queued(r, w) == [r EXCEPT !.waiters = w]
\* Another buffer leaves the address and the waiters as they are.
LEMMA HoldingFacts ==
  ASSUME NEW W, NEW r \in Readers(W), NEW b \in Seq(Byte)
  PROVE  /\ Holding(r, b) \in Readers(W) /\ Holding(r, b).waiters = r.waiters
         /\ Holding(r, b).buffer = b /\ Holding(r, b).address = r.address
<1> DEFINE A == Seq(Byte)
           C == Seq(W)
           R == [buffer : A, address : Nat, waiters : C]
<1>1. Readers(W) = R
  BY DEF Readers
<1>2. r \in R /\ b \in A
  BY DEF Readers
<1> HIDE DEF A, C
<1> QED
  BY <1>1, <1>2 DEF Holding
\* Other waiters leave the buffer and its address as they are.
LEMMA QueuedFacts ==
  ASSUME NEW V, NEW W, NEW r \in Readers(V), NEW w \in Seq(W)
  PROVE  /\ Queued(r, w) \in Readers(W) /\ Queued(r, w).waiters = w
         /\ Queued(r, w).buffer = r.buffer /\ Queued(r, w).address = r.address
<1> DEFINE A == Seq(Byte)
           C == Seq(V)
           D == Seq(W)
<1>1. Readers(W) = [buffer : A, address : Nat, waiters : D]
  BY DEF Readers
<1>2. r \in [buffer : A, address : Nat, waiters : C] /\ w \in D
  BY DEF Readers
<1> HIDE DEF A, C, D
<1> QED
  BY <1>1, <1>2 DEF Queued
\* A cleared reader begins again at the address 0, with the same waiters.
LEMMA ClearedFacts ==
  ASSUME NEW W, NEW r \in Readers(W)
  PROVE  /\ Cleared(r) \in Readers(W) /\ Cleared(r).waiters = r.waiters
         /\ Cleared(r).buffer = <<>> /\ Cleared(r).address = 0
<1> DEFINE A == Seq(Byte)
           C == Seq(W)
           R == [buffer : A, address : Nat, waiters : C]
           e == <<>>
           p == [r EXCEPT !.buffer = e]
           c == [p EXCEPT !.address = 0]
<1>1. Readers(W) = R
  BY DEF Readers
<1>2. r \in R /\ e \in A
  BY DEF Readers
<1> HIDE DEF A, C, e
<1>3. p \in R /\ p.waiters = r.waiters /\ p.buffer = e
  BY <1>2
<1>4. Cleared(r) = c
  BY DEF Cleared, e
<1> HIDE DEF p
<1>5. c \in R /\ c.waiters = r.waiters /\ c.buffer = e /\ c.address = 0
  BY <1>3
<1> HIDE DEF c, R
<1> QED
  BY <1>1, <1>4, <1>5 DEF e

\* Without a whole frame nothing is taken.
LEMMA NotTaken ==
  ASSUME NEW r, NEW bytes, bytes = SubSeq(r.buffer, Skipped(r.buffer) + 1, Len(r.buffer)),
         Len(bytes) < PREFIX \/ Len(bytes) < PREFIX + Get32(bytes, 0)
  PROVE  ~TryTake(r).taken
<1>1. ASSUME TryTake(r).taken PROVE FALSE
  BY <1>1 DEF TryTake
<1> QED
  BY <1>1

\* What tryTake does: it leaves the waiters alone and hands on bytes; a reader from which it has
\* taken nothing gives nothing the next time either.
LEMMA TakeFacts ==
  ASSUME NEW W, NEW r \in Readers(W)
  PROVE  /\ TryTake(r).reader \in Readers(W) /\ TryTake(r).reader.waiters = r.waiters
         /\ TryTake(r).taken \in BOOLEAN
         /\ TryTake(r).taken => TryTake(r).inner \in Seq(Byte) /\ TryTake(r).address \in Nat
         /\ ~TryTake(r).taken => ~TryTake(TryTake(r).reader).taken
<1> DEFINE b == r.buffer
           k == Skipped(b)
           bytes == SubSeq(b, k + 1, Len(b))
           total == PREFIX + Get32(bytes, 0)
           rest == [r EXCEPT !.buffer = bytes, !.address = @ + k]
           inner == SubSeq(bytes, PREFIX + 1, total)
           tail == SubSeq(bytes, total + 1, Len(bytes))
           after == [rest EXCEPT !.buffer = tail, !.address = @ + total]
           short == Len(bytes) < PREFIX \/ Len(bytes) < total
           t == IF short
                  THEN [taken |-> FALSE, reader |-> rest]
                  ELSE [taken |-> TRUE, inner |-> inner, address |-> rest.address + PREFIX, reader |-> after]
<1>1. TryTake(r) = t
  BY DEF TryTake
<1>2. b \in Seq(Byte) /\ r.address \in Nat /\ r.waiters \in Seq(W)
  BY DEF Readers
<1> HIDE DEF b
<1>3. k \in 0 .. Len(b) /\ Stopped(bytes)
  BY <1>2, SkippedFacts
<1> HIDE DEF k
<1>4. bytes \in Seq(Byte) /\ Len(bytes) \in Nat /\ k \in Nat
  <2>1. bytes \in Seq(Byte)
    BY <1>2, <1>3, EndOf
  <2> QED
    BY <1>3, <2>1, LenProperties
<1> HIDE DEF bytes
<1>5. rest \in Readers(W) /\ rest.buffer = bytes /\ rest.waiters = r.waiters /\ rest.address \in Nat
  <2>1. rest = Moved(r, bytes, k)
    BY DEF Moved
  <2> HIDE DEF rest
  <2>2. rest \in Readers(W) /\ rest.buffer = bytes /\ rest.waiters = r.waiters
    BY <1>4, <2>1, MovedFacts
  <2> QED
    BY <2>2 DEF Readers
<1> HIDE DEF rest
<1>6. ASSUME ~short PROVE total \in Nat /\ total >= PREFIX /\ total <= Len(bytes)
  <2>1. Len(bytes) >= PREFIX /\ 0 \in Nat /\ 0 + 4 = PREFIX /\ PREFIX \in Nat
    BY <1>4, <1>6, Sizes
  <2>2. Get32(bytes, 0) \in Nat
    BY <1>4, <2>1, GetType
  <2> HIDE DEF total
  <2>3. total = PREFIX + Get32(bytes, 0)
    BY DEF total
  <2> QED
    BY <1>4, <1>6, <2>1, <2>2, <2>3
<1>7. ASSUME ~short PROVE inner \in Seq(Byte) /\ tail \in Seq(Byte)
  <2>1. total \in 0 .. Len(bytes) /\ PREFIX \in 0 .. Len(bytes)
    BY <1>4, <1>6, <1>7, Sizes
  <2> HIDE DEF total
  <2>2. tail \in Seq(Byte)
    BY <1>4, <2>1, EndOf
  <2>3. PREFIX + 1 \in Int /\ total \in Int /\ \A i \in PREFIX + 1 .. total : i \in 1 .. Len(bytes)
    BY <1>4, <2>1, Sizes
  <2>4. \A i \in PREFIX + 1 .. total : bytes[i] \in Byte
    BY <1>4, <2>3, ElementOfSeq
  <2>5. inner \in Seq(Byte)
    BY <2>3, <2>4, SubSeqProperties
  <2> QED
    BY <2>2, <2>5
<1>8. CASE short
  <2>1. t = [taken |-> FALSE, reader |-> rest]
    BY <1>8
  <2> DEFINE b2 == rest.buffer
             bytes2 == SubSeq(b2, Skipped(b2) + 1, Len(b2))
  <2>2. Skipped(b2) = 0 /\ b2 \in Seq(Byte)
    BY <1>3, <1>4, <1>5, SkippedFacts
  <2>3. bytes2 = bytes
    BY <1>5, <2>2, SubSeqFull
  <2>4. Len(bytes2) < PREFIX \/ Len(bytes2) < PREFIX + Get32(bytes2, 0)
    BY <1>8, <2>3
  <2>5. ~TryTake(rest).taken
    <3> HIDE DEF short, rest, bytes2, b2
    <3> QED
      BY <2>4, NotTaken DEF bytes2, b2
  <2> HIDE DEF short, total, inner, tail, after
  <2> QED
    BY <1>1, <1>5, <2>1, <2>5
<1>9. CASE ~short
  <2> HIDE DEF inner, tail
  <2>1. inner \in Seq(Byte) /\ tail \in Seq(Byte) /\ total \in Nat
    BY <1>6, <1>7, <1>9
  <2> HIDE DEF total
  <2>2. after \in Readers(W) /\ after.waiters = r.waiters
    <3>1. after = Moved(rest, tail, total)
      BY DEF Moved
    <3> HIDE DEF after
    <3>2. rest \in Readers(W) /\ tail \in Seq(Byte) /\ total \in Nat
      BY <1>5, <2>1
    <3> HIDE DEF t, short
    <3>3. Moved(rest, tail, total) \in Readers(W) /\ Moved(rest, tail, total).waiters = rest.waiters
      BY <3>2, MovedFacts
    <3> QED
      BY <1>5, <3>1, <3>3
  <2>3. t = [taken |-> TRUE, inner |-> inner, address |-> rest.address + PREFIX, reader |-> after]
    BY <1>9
  <2>4. rest.address + PREFIX \in Nat
    BY <1>5, Sizes
  <2> HIDE DEF short, after
  <2> QED
    BY <1>1, <2>1, <2>2, <2>3, <2>4
<1> HIDE DEF short
<1> QED
  BY <1>8, <1>9

\* A sequence, whatever its elements are.
IsTuple(s) == Len(s) \in Nat /\ s = [i \in 1 .. Len(s) |-> s[i]]

\* A sequence of some set is one.
LEMMA SeqTuple ==
  ASSUME NEW S, NEW s \in Seq(S)
  PROVE  IsTuple(s)
<1>1. Len(s) \in Nat /\ s \in [1 .. Len(s) -> S]
  BY LenProperties
<1>2. s = [i \in 1 .. Len(s) |-> s[i]]
  BY <1>1
<1> QED
  BY <1>1, <1>2 DEF IsTuple

\* One that is known has a set.
LEMMA TupleSeq ==
  ASSUME NEW s, IsTuple(s)
  PROVE  Len(s) \in Nat /\ DOMAIN s = 1 .. Len(s) /\ \E S : s \in Seq(S)
<1> DEFINE n == Len(s)
           S == {s[i] : i \in 1 .. n}
<1>1. n \in Nat /\ s = [i \in 1 .. n |-> s[i]]
  BY DEF IsTuple
<1> HIDE DEF n
<1>2. s \in [1 .. n -> S]
  BY <1>1
<1>3. s \in Seq(S)
  BY <1>1, <1>2
<1>4. DOMAIN s = 1 .. n
  BY <1>1
<1> QED
  BY <1>1, <1>3, <1>4 DEF n

\* A function on the first numbers is a sequence.
LEMMA FunctionTuple ==
  ASSUME NEW n \in Nat, NEW f, f = [i \in 1 .. n |-> f[i]]
  PROVE  IsTuple(f) /\ Len(f) = n
<1> DEFINE S == {f[i] : i \in 1 .. n}
<1>1. f \in [1 .. n -> S]
  OBVIOUS
<1>2. f \in Seq(S) /\ Len(f) = n
  BY <1>1
<1> QED
  BY <1>2, SeqTuple

\* Something comes behind a sequence.
LEMMA AppendTuple ==
  ASSUME NEW s, IsTuple(s), NEW e
  PROVE  /\ IsTuple(Append(s, e)) /\ Len(Append(s, e)) = Len(s) + 1
         /\ \A i \in 1 .. Len(s) : Append(s, e)[i] = s[i]
         /\ Append(s, e)[Len(s) + 1] = e
<1>1. PICK S : s \in Seq(S)
  BY TupleSeq
<1> DEFINE U == S \cup {e}
<1>2. S \subseteq U /\ e \in U
  OBVIOUS
<1> HIDE DEF U
<1>3. s \in Seq(U)
  BY <1>1, <1>2, SeqMonotonic
<1> DEFINE a == Append(s, e)
<1>4. /\ a \in Seq(U) /\ Len(a) = Len(s) + 1 /\ a[Len(s) + 1] = e
      /\ \A i \in 1 .. Len(s) : a[i] = s[i]
  BY <1>2, <1>3, AppendProperties
<1> HIDE DEF a
<1>5. IsTuple(a)
  BY <1>4, SeqTuple
<1> QED
  BY <1>4, <1>5 DEF a

\* The first element goes.
LEMMA TailTuple ==
  ASSUME NEW s, IsTuple(s), s # <<>>
  PROVE  /\ Len(s) \in Nat \ {0} /\ Head(s) = s[1]
         /\ IsTuple(Tail(s)) /\ Len(Tail(s)) = Len(s) - 1
         /\ \A i \in 1 .. Len(s) - 1 : Tail(s)[i] = s[i + 1]
<1>1. PICK S : s \in Seq(S)
  BY TupleSeq
<1>2. Len(s) \in Nat \ {0}
  BY <1>1, EmptySeq
<1>3. Head(s) = s[1]
  BY <1>1, <1>2
<1> QED
  BY <1>1, <1>2, <1>3, HeadTailProperties, SeqTuple

\* The takes in a row, one after the other.
TakeFirst(r) == [frames |-> <<>>, reader |-> r, more |-> TRUE]
TakeNext(before) ==
  LET t == TryTake(before.reader)
  IN  IF ~before.more THEN before
      ELSE [frames |-> IF t.taken THEN Append(before.frames, t) ELSE before.frames,
            reader |-> t.reader, more |-> t.taken]
IsTake(f, r, n) == f = [k \in 0 .. n |-> IF k = 0 THEN TakeFirst(r) ELSE TakeNext(f[k - 1])]

\* There are as many as asked for.
LEMMA TakesExist ==
  ASSUME NEW r, NEW n \in Nat
  PROVE  \E f : IsTake(f, r, n)
<1> DEFINE T == {m \in 0 .. n : \E f : IsTake(f, r, m)}
<1>1. 0 \in T
  <2> DEFINE f == [k \in 0 .. 0 |-> TakeFirst(r)]
  <2>1. IsTake(f, r, 0)
    BY DEF IsTake
  <2> QED
    BY <2>1
<1>2. ASSUME NEW m \in 0 .. n - 1, m \in T PROVE m + 1 \in T
  <2>1. PICK f : IsTake(f, r, m)
    BY <1>2
  <2> DEFINE e == TakeNext(f[m])
             g == [k \in 0 .. m + 1 |-> IF k <= m THEN f[k] ELSE e]
             h == [k \in 0 .. m + 1 |-> IF k = 0 THEN TakeFirst(r) ELSE TakeNext(g[k - 1])]
  <2>2. f = [k \in 0 .. m |-> IF k = 0 THEN TakeFirst(r) ELSE TakeNext(f[k - 1])]
    BY <2>1 DEF IsTake
  <2>3. ASSUME NEW k \in 0 .. m + 1 PROVE g[k] = h[k]
    <3>1. CASE k = 0
      BY <2>2, <3>1
    <3>2. CASE k # 0 /\ k <= m
      <4>1. k \in 0 .. m /\ k - 1 \in 0 .. m + 1 /\ k - 1 <= m
        BY <3>2
      <4>2. g[k - 1] = f[k - 1] /\ g[k] = f[k] /\ h[k] = TakeNext(g[k - 1])
        BY <3>2, <4>1
      <4>3. f[k] = TakeNext(f[k - 1])
        BY <2>2, <3>2, <4>1
      <4> QED
        BY <4>2, <4>3
    <3>3. CASE ~(k <= m)
      <4>1. k = m + 1 /\ k # 0 /\ k - 1 = m /\ m \in 0 .. m + 1 /\ m <= m
        BY <3>3
      <4>2. g[k] = e /\ g[m] = f[m] /\ h[k] = TakeNext(g[k - 1])
        BY <3>3, <4>1
      <4> QED
        BY <4>1, <4>2
    <3> QED
      BY <3>1, <3>2, <3>3
  <2>4. g = h
    <3> HIDE DEF e
    <3> QED
      BY <2>3
  <2>5. IsTake(g, r, m + 1)
    BY <2>4 DEF IsTake
  <2>6. m + 1 \in 0 .. n
    OBVIOUS
  <2> QED
    BY <2>5, <2>6
<1>3. n \in 0 .. n
  OBVIOUS
<1> HIDE DEF T
<1>4. n \in T
  BY <1>1, <1>2, <1>3, UpTo
<1> QED
  BY <1>4 DEF T

\* What the takes come to.
TakesRow(f, r, n) ==
  Takes(r, n) = f[n] /\ f[0] = TakeFirst(r) /\ \A k \in 0 .. n - 1 : f[k + 1] = TakeNext(f[k])
\* There is such a row of them.
LEMMA TakesUnfold ==
  ASSUME NEW r, NEW n \in Nat
  PROVE  \E f : TakesRow(f, r, n)
<1> DEFINE f == CHOOSE g : IsTake(g, r, n)
<1>1. Takes(r, n) = f[n]
  BY DEF Takes, IsTake, TakeFirst, TakeNext
<1>2. IsTake(f, r, n)
  BY TakesExist
<1> HIDE DEF f
<1>3. f = [k \in 0 .. n |-> IF k = 0 THEN TakeFirst(r) ELSE TakeNext(f[k - 1])]
  BY <1>2 DEF IsTake
<1>4. f[0] = TakeFirst(r)
  BY <1>3
<1>5. ASSUME NEW k \in 0 .. n - 1 PROVE f[k + 1] = TakeNext(f[k])
  <2>1. k + 1 \in 0 .. n /\ k + 1 # 0 /\ (k + 1) - 1 = k
    OBVIOUS
  <2> QED
    BY <1>3, <2>1
<1> QED
  BY <1>1, <1>4, <1>5 DEF TakesRow

\* What flushing comes to: no more frames than were asked for, and when there are fewer, none is
\* left in the reader.
Flushed(r, s, k) ==
  /\ IsTuple(s.frames) /\ Len(s.frames) <= k
  /\ s.reader \in Readers(Nat) /\ s.reader.waiters = r.waiters
  /\ s.more \in BOOLEAN /\ (s.more => Len(s.frames) = k)
  /\ ~s.more => ~TryTake(s.reader).taken

\* One more take.
LEMMA TakeNextFacts ==
  ASSUME NEW r, NEW s, NEW k \in Nat, Flushed(r, s, k)
  PROVE  Flushed(r, TakeNext(s), k + 1)
<1> DEFINE t == TryTake(s.reader)
           frames == s.frames
           after == t.reader
<1>1. /\ after \in Readers(Nat) /\ after.waiters = r.waiters
      /\ t.taken \in BOOLEAN /\ (~t.taken => ~TryTake(after).taken)
  BY TakeFacts DEF Flushed
<1>2. CASE ~s.more
  <2>1. TakeNext(s) = s
    BY <1>2 DEF TakeNext
  <2>2. Len(frames) \in Nat /\ Len(frames) <= k
    BY DEF Flushed, IsTuple
  <2> HIDE DEF t, after
  <2>3. Len(frames) <= k + 1
    BY <2>2
  <2> QED
    BY <1>2, <2>1, <2>3 DEF Flushed
<1>3. CASE s.more /\ t.taken
  <2> DEFINE more == Append(frames, t)
  <2>1. TakeNext(s) = [frames |-> more, reader |-> after, more |-> t.taken]
    BY <1>3 DEF TakeNext
  <2>2. IsTuple(frames) /\ Len(frames) = k
    BY <1>3 DEF Flushed
  <2> HIDE DEF t, after, frames
  <2>3. IsTuple(more) /\ Len(more) = k + 1 /\ Len(more) <= k + 1
    BY <2>2, AppendTuple
  <2> HIDE DEF more
  <2> QED
    BY <1>1, <1>3, <2>1, <2>3 DEF Flushed
<1>4. CASE s.more /\ ~t.taken
  <2>1. TakeNext(s) = [frames |-> frames, reader |-> after, more |-> t.taken]
    BY <1>4 DEF TakeNext
  <2>2. IsTuple(frames) /\ Len(frames) = k
    BY <1>4 DEF Flushed
  <2> HIDE DEF t, after, frames
  <2>3. Len(frames) <= k + 1
    BY <2>2
  <2> QED
    BY <1>1, <1>4, <2>1, <2>2, <2>3 DEF Flushed
<1>5. s.more \in BOOLEAN
  BY DEF Flushed
<1> QED
  BY <1>1, <1>2, <1>3, <1>4, <1>5

\* All of them.
LEMMA TakesFacts ==
  ASSUME NEW r \in Readers(Nat), NEW n \in Nat
  PROVE  Flushed(r, Takes(r, n), n)
<1>0. PICK f : TakesRow(f, r, n)
  BY TakesUnfold
<1>1. /\ Takes(r, n) = f[n] /\ f[0] = TakeFirst(r)
      /\ \A k \in 0 .. n - 1 : f[k + 1] = TakeNext(f[k])
  BY <1>0 DEF TakesRow
<1> DEFINE T == {k \in 0 .. n : Flushed(r, f[k], k)}
<1>2. 0 \in T
  <2>1. IsTuple(<<>>) /\ Len(<<>>) = 0
    BY DEF IsTuple
  <2>2. Flushed(r, TakeFirst(r), 0)
    BY <2>1 DEF Flushed, TakeFirst
  <2> QED
    BY <1>1, <2>2
<1>3. ASSUME NEW k \in 0 .. n - 1, k \in T PROVE k + 1 \in T
  <2>1. f[k + 1] = TakeNext(f[k]) /\ k \in Nat /\ k + 1 \in 0 .. n /\ Flushed(r, f[k], k)
    BY <1>1, <1>3
  <2>2. Flushed(r, TakeNext(f[k]), k + 1)
    BY <2>1, TakeNextFacts
  <2> QED
    BY <2>1, <2>2
<1>4. n \in 0 .. n
  OBVIOUS
<1> HIDE DEF T
<1>5. n \in T
  BY <1>2, <1>3, <1>4, UpTo
<1> QED
  BY <1>1, <1>5 DEF T

\* The readers of the page and of the tools, when bytes have come.
LEMMA FlushFacts ==
  ASSUME NEW r \in Readers(Nat)
  PROVE  /\ IsTuple(Flush(r).frames)
         /\ Flush(r).reader \in Readers(Nat) /\ Flush(r).reader.waiters = r.waiters
         /\ Len(Flush(r).frames) < Len(r.waiters) => ~TryTake(Flush(r).reader).taken
         /\ Len(Flush(r).frames) <= Len(r.waiters) + 1
<1> DEFINE n == Len(r.waiters)
<1>1. n \in Nat
  BY LenProperties DEF Readers
<1>2. r.waiters = <<>> => n = 0
  OBVIOUS
<1> HIDE DEF n
<1>3. CASE r.waiters = <<>> /\ host # "webserial"
  <2>1. Flush(r) = Takes(r, 0)
    BY <1>3 DEF Flush, RealtimeFlush
  <2>2. Flushed(r, Takes(r, 0), 0)
    BY TakesFacts
  <2>3. IsTuple(Takes(r, 0).frames) /\ Len(Takes(r, 0).frames) = 0
    BY <2>2 DEF Flushed, IsTuple
  <2> QED
    BY <1>2, <1>3, <2>1, <2>2, <2>3 DEF Flushed, n
<1>4. CASE ~(r.waiters = <<>> /\ host # "webserial")
  <2> DEFINE s == Takes(r, n + 1)
  <2>1. Flush(r) = s
    BY <1>4 DEF Flush, RealtimeFlush, WebFlush, n
  <2>2. Flushed(r, s, n + 1)
    BY <1>1, TakesFacts
  <2> HIDE DEF s
  <2>3. /\ IsTuple(s.frames) /\ Len(s.frames) \in Nat /\ Len(s.frames) <= n + 1
        /\ s.reader \in Readers(Nat) /\ s.reader.waiters = r.waiters
        /\ s.more \in BOOLEAN /\ (s.more => Len(s.frames) = n + 1)
        /\ (~s.more => ~TryTake(s.reader).taken)
    BY <2>2 DEF Flushed, IsTuple
  <2>4. ASSUME Len(s.frames) < n PROVE ~s.more
    BY <1>1, <2>3, <2>4
  <2> QED
    BY <2>1, <2>3, <2>4 DEF n
<1> QED
  BY <1>3, <1>4

\* The least element of a set of numbers.
LEMMA MinFacts ==
  ASSUME NEW T, T \subseteq Nat, T # {}
  PROVE  Min(T) \in T /\ \A m \in T : Min(T) <= m
<1>1. \E n \in T : \A m \in T : n <= m
  BY Least
<1> QED
  BY <1>1 DEF Min
\* The greater of two numbers.
LEMMA MaxOfTwo ==
  ASSUME NEW a \in Int, NEW b \in Int
  PROVE  Max({a, b}) = IF a >= b THEN a ELSE b
<1> DEFINE m == IF a >= b THEN a ELSE b
<1>1. m \in {a, b} /\ \A y \in {a, b} : m >= y
  OBVIOUS
<1>2. ASSUME NEW x \in {a, b}, \A y \in {a, b} : x >= y PROVE x = m
  BY <1>2
<1> QED
  BY <1>1, <1>2 DEF Max
\* The smaller of two numbers.
LEMMA MinOfTwo ==
  ASSUME NEW a \in Int, NEW b \in Int
  PROVE  Min({a, b}) = IF a <= b THEN a ELSE b
<1> DEFINE m == IF a <= b THEN a ELSE b
<1>1. m \in {a, b} /\ \A y \in {a, b} : m <= y
  OBVIOUS
<1>2. ASSUME NEW x \in {a, b}, \A y \in {a, b} : x <= y PROVE x = m
  BY <1>2
<1> QED
  BY <1>1, <1>2 DEF Min

\* The reader of the offline tools: at most one frame, and the waiters stay.
LEMMA ExtractFacts ==
  ASSUME NEW r \in Readers(Nat), NEW i
  PROVE  /\ IsTuple(OfflineExtract(r, i).frames) /\ Len(OfflineExtract(r, i).frames) \in {0, 1}
         /\ OfflineExtract(r, i).reader \in Readers(Nat)
         /\ OfflineExtract(r, i).reader.waiters = r.waiters
         /\ OfflineExtract(r, i).frames # <<>> => OfflineExtract(r, i).reader.buffer = <<>>
<1> DEFINE b == r.buffer
           k == IF MagicAt(b) = {} THEN Max({0, Len(b) - 3}) ELSE Min(MagicAt(b))
           bytes == SubSeq(b, k + 1, Len(b))
           rest == [r EXCEPT !.buffer = bytes, !.address = @ + k]
           none == MagicAt(b) = {} \/ Len(bytes) < Wanted(i)
           frame == [inner |-> SubSeq(bytes, 1, Wanted(i)), address |-> rest.address]
           after == [rest EXCEPT !.buffer = <<>>]
           e == IF none THEN [frames |-> <<>>, reader |-> rest]
                ELSE [frames |-> <<frame>>, reader |-> after]
<1>1. OfflineExtract(r, i) = e
  BY DEF OfflineExtract
<1>2. b \in Seq(Byte) /\ Len(b) \in Nat
  BY LenProperties DEF Readers
<1> HIDE DEF b
<1>3. k \in 0 .. Len(b)
  <2>1. CASE MagicAt(b) = {}
    <3> DEFINE c == Len(b) - 3
    <3>1. c \in Int /\ c <= Len(b)
      BY <1>2
    <3>2. k = Max({0, c})
      BY <2>1
    <3> HIDE DEF c
    <3>3. Max({0, c}) = IF 0 >= c THEN 0 ELSE c
      BY <3>1, MaxOfTwo
    <3> QED
      BY <1>2, <3>1, <3>2, <3>3
  <2>2. CASE MagicAt(b) # {}
    <3>1. MagicAt(b) \subseteq 0 .. Len(b) - 4
      BY DEF MagicAt
    <3>2. MagicAt(b) \subseteq Nat
      BY <3>1
    <3>3. Min(MagicAt(b)) \in MagicAt(b)
      BY <2>2, <3>2, MinFacts
    <3> QED
      BY <1>2, <2>2, <3>1, <3>3
  <2> QED
    BY <2>1, <2>2
<1> HIDE DEF k
<1>4. bytes \in Seq(Byte) /\ k \in Nat
  BY <1>2, <1>3, EndOf
<1> HIDE DEF bytes
<1>5. rest \in Readers(Nat) /\ rest.waiters = r.waiters
  <2>1. rest = Moved(r, bytes, k)
    BY DEF Moved
  <2> HIDE DEF rest
  <2> QED
    BY <1>4, <2>1, MovedFacts
<1> HIDE DEF rest
<1>6. after \in Readers(Nat) /\ after.waiters = r.waiters /\ after.buffer = <<>>
  <2>1. after = Holding(rest, <<>>)
    BY DEF Holding
  <2> HIDE DEF after
  <2>2. <<>> \in Seq(Byte)
    OBVIOUS
  <2> QED
    BY <1>5, <2>1, <2>2, HoldingFacts
<1> HIDE DEF after, frame, none
<1>7. CASE none
  <2>1. e = [frames |-> <<>>, reader |-> rest]
    BY <1>7
  <2>2. IsTuple(<<>>) /\ Len(<<>>) = 0
    BY DEF IsTuple
  <2> QED
    BY <1>1, <1>5, <2>1, <2>2
<1>8. CASE ~none
  <2>1. e = [frames |-> <<frame>>, reader |-> after]
    BY <1>8
  <2>2. IsTuple(<<frame>>) /\ Len(<<frame>>) = 1
    BY DEF IsTuple
  <2> QED
    BY <1>1, <1>6, <2>1, <2>2
<1> QED
  BY <1>7, <1>8

-----------------------------------------------------------------------------
(***************************************************************************)
(* Types, and the order of the operations and of those that wait.          *)
(***************************************************************************)
Kinds == {"enter", "query", "exchange", "exit"}
Ats == {"writing", "reading", "done", "failed"}
Sessions == {"closed", "entered", "active", "lost", "over"}
Shaped(op) == op.kind \in Kinds /\ op.at \in Ats
              /\ op = [kind |-> op.kind, at |-> op.at, result |-> op.result]
Going(op) == op.at \in {"writing", "reading"}

\* What holds of the operations o: one after the other but for the page's exchanges, of which
\* there are two at most and which are written and read at once.
OpsTyped(o) == IsTuple(o) /\ \A i \in 1 .. Len(o) : Shaped(o[i])
LastOnly(o) ==
  \A i \in 1 .. Len(o) : Going(o[i]) /\ (~Web \/ o[i].kind # "exchange") => i = Len(o)
AtOnce(o) == \A i \in 1 .. Len(o) : Web /\ o[i].kind = "exchange" => o[i].at # "writing"
Exchanges(o) == {i \in 1 .. Len(o) : Going(o[i]) /\ o[i].kind = "exchange"}
OneByOne(o) == OpsTyped(o) /\ LastOnly(o) /\ Cardinality(Exchanges(o)) <= 2

\* What holds of the waiters w: they wait in the order of their operations, none that is still
\* being written, and all of them read unless the page has given some of them up.
Rising(w) == \A j, k \in 1 .. Len(w) : j < k => w[j] < w[k]
NoneWriting(o, w) == \A k \in 1 .. Len(w) : o[w[k]].at # "writing"
AllReading(o, w) == \A k \in 1 .. Len(w) : o[w[k]].at = "reading"
Waiting(o, w) == w \in Seq(1 .. Len(o)) /\ Rising(w) /\ NoneWriting(o, w)

Typed ==
  /\ host \in Hosts /\ session \in Sessions
  /\ OneByOne(ops) /\ AtOnce(ops) /\ Len(ops) <= MaxOps
  /\ line \in Seq(Byte) /\ reader \in Readers(Nat)
  /\ left \in [mishap : 0 .. Mishaps, cut : 0 .. Cuts, late : 0 .. Lates, bad : 0 .. Bads]
  /\ trouble \subseteq {"noise", "silent", "early", "late", "stale"}
Queueing ==
  /\ Waiting(ops, reader.waiters)
  /\ ~Web \/ "stale" \notin trouble => AllReading(ops, reader.waiters)
  /\ ~Offline /\ reader.waiters # <<>> => ~TryTake(reader).taken

\* The programs.
LEMMA Programs ==
  ASSUME host \in Hosts
  PROVE  /\ Web \in BOOLEAN /\ Offline \in BOOLEAN /\ ~(Web /\ Offline)
         /\ Web <=> host = "webserial"
BY DEF Hosts, Web, Offline

\* Operations that have only moved on: what is written may become read, what is under way may end.
Follows(o, p) ==
  /\ IsTuple(p) /\ Len(p) = Len(o)
  /\ \A i \in 1 .. Len(o) :
       /\ Shaped(p[i]) /\ p[i].kind = o[i].kind
       /\ p[i].at = "writing" => o[i].at = "writing"
       /\ Going(p[i]) => Going(o[i])

\* Operations that have not moved follow themselves.
LEMMA FollowsSame ==
  ASSUME NEW o, OpsTyped(o)
  PROVE  Follows(o, o)
BY DEF OpsTyped, Follows

\* Operations that have moved on twice have moved on.
LEMMA FollowsOver ==
  ASSUME NEW o, NEW p, NEW q, Follows(o, p), Follows(p, q)
  PROVE  Follows(o, q)
BY DEF Follows

\* The exchanges are a finite set.
LEMMA ExchangesFinite ==
  ASSUME NEW o, IsTuple(o)
  PROVE  IsFiniteSet(Exchanges(o)) /\ Cardinality(Exchanges(o)) \in Nat
<1>1. Len(o) \in Nat
  BY DEF IsTuple
<1>2. IsFiniteSet(1 .. Len(o))
  BY <1>1, FS_Interval
<1>3. Exchanges(o) \in SUBSET (1 .. Len(o))
  BY DEF Exchanges
<1>4. IsFiniteSet(Exchanges(o))
  BY <1>2, <1>3, FS_Subset
<1> QED
  BY <1>4, FS_CardinalityType

\* Operations that have moved on are one after the other still.
LEMMA FollowsKeeps ==
  ASSUME NEW o, NEW p, OneByOne(o), Follows(o, p)
  PROVE  OneByOne(p) /\ (AtOnce(o) => AtOnce(p))
<1>1. IsTuple(p) /\ Len(p) = Len(o)
  BY DEF Follows
<1>2. OpsTyped(p)
  BY <1>1 DEF Follows, OpsTyped
<1>3. LastOnly(p)
  BY <1>1 DEF OneByOne, LastOnly, Follows
<1>4. AtOnce(o) => AtOnce(p)
  BY <1>1 DEF AtOnce, Follows
<1>5. Exchanges(p) \in SUBSET Exchanges(o)
  BY <1>1 DEF Exchanges, Follows
<1>6. IsFiniteSet(Exchanges(o)) /\ Cardinality(Exchanges(o)) \in Nat /\ Cardinality(Exchanges(p)) \in Nat
  BY <1>1, ExchangesFinite DEF OneByOne, OpsTyped
<1>7. Cardinality(Exchanges(p)) <= Cardinality(Exchanges(o))
  BY <1>5, <1>6, FS_Subset
<1>8. Cardinality(Exchanges(o)) <= 2
  BY DEF OneByOne
<1>9. Cardinality(Exchanges(p)) <= 2
  BY <1>6, <1>7, <1>8
<1> QED
  BY <1>2, <1>3, <1>4, <1>9 DEF OneByOne

\* Who waits goes on waiting.
LEMMA FollowsWaiting ==
  ASSUME NEW o, NEW p, NEW w, Waiting(o, w), Follows(o, p)
  PROVE  Waiting(p, w)
<1>1. Len(p) = Len(o) /\ w \in Seq(1 .. Len(o)) /\ Rising(w)
  BY DEF Follows, Waiting
<1>2. ASSUME NEW k \in 1 .. Len(w) PROVE p[w[k]].at # "writing"
  <2>1. w[k] \in 1 .. Len(o)
    BY <1>1, ElementOfSeq
  <2>2. o[w[k]].at # "writing"
    BY DEF Waiting, NoneWriting
  <2> QED
    BY <2>1, <2>2 DEF Follows
<1> QED
  BY <1>1, <1>2 DEF Waiting, NoneWriting

\* What is given up has moved on, and only the page gives up.
LEMMA GivenUpFacts ==
  ASSUME NEW o, OpsTyped(o)
  PROVE  /\ Follows(o, GivenUp(o)) /\ OpsTyped(GivenUp(o)) /\ Len(GivenUp(o)) = Len(o)
         /\ ~Lost(o) /\ ~(Web /\ Exited(o)) => GivenUp(o) = o
         /\ ~Web => GivenUp(o) = o
<1> DEFINE p == GivenUp(o)
           gone == Lost(o) \/ (Web /\ Exited(o))
           Ends(op) == gone /\ op.kind = "exchange" /\ op.at = "reading"
<1>1. Len(o) \in Nat /\ DOMAIN o = 1 .. Len(o) /\ o = [i \in 1 .. Len(o) |-> o[i]]
  BY TupleSeq DEF OpsTyped, IsTuple
<1>2. p = [i \in 1 .. Len(o) |-> IF Ends(o[i]) THEN [o[i] EXCEPT !.at = "failed"] ELSE o[i]]
  BY <1>1 DEF GivenUp
<1> HIDE DEF p
<1>3. p = [i \in 1 .. Len(o) |-> p[i]]
  BY <1>2
<1>4. IsTuple(p) /\ Len(p) = Len(o)
  BY <1>1, <1>3, FunctionTuple
<1>5. ASSUME NEW i \in 1 .. Len(o)
      PROVE  /\ Shaped(p[i]) /\ p[i].kind = o[i].kind
             /\ p[i].at = "writing" => o[i].at = "writing"
             /\ Going(p[i]) => Going(o[i])
  <2> DEFINE op == o[i]
             e == [op EXCEPT !.at = "failed"]
  <2>1. Shaped(op)
    BY DEF OpsTyped
  <2>2. p[i] = IF Ends(op) THEN e ELSE op
    BY <1>2
  <2> HIDE DEF op, Ends
  <2>3. Shaped(e) /\ e.kind = op.kind /\ e.at = "failed"
    BY <2>1 DEF Shaped, Ats
  <2> HIDE DEF e
  <2> QED
    BY <2>1, <2>2, <2>3 DEF op, Going
<1>6. Follows(o, p)
  BY <1>4, <1>5 DEF Follows
<1>7. OpsTyped(p)
  BY <1>4, <1>5 DEF OpsTyped
<1>8. ASSUME ~gone PROVE p = o
  BY <1>1, <1>2, <1>8
<1>9. ~Web => ~gone
  BY DEF Lost
<1> QED
  BY <1>4, <1>6, <1>7, <1>8, <1>9 DEF p

\* An answer ends the operation that reads it, and no other.
LEMMA SettleFacts ==
  ASSUME NEW op, Shaped(op), NEW f
  PROVE  /\ Shaped(Settle(op, f)) /\ Settle(op, f).kind = op.kind
         /\ op.at = "reading" => Settle(op, f).at \in {"done", "failed"}
         /\ op.at # "reading" => Settle(op, f) = op
<1> DEFINE result == Read(op.kind, f)
           at == IF Accepted(op.kind, result) THEN "done" ELSE "failed"
           p == [op EXCEPT !.at = at]
           q == [p EXCEPT !.result = result]
<1>1. Settle(op, f) = IF op.at # "reading" THEN op ELSE q
  BY DEF Settle
<1>2. at \in {"done", "failed"} /\ at \in Ats
  BY DEF Ats
<1> HIDE DEF at, result
<1>3. p.kind = op.kind /\ p.at = at /\ p = [kind |-> op.kind, at |-> at, result |-> op.result]
  BY DEF Shaped
<1> HIDE DEF p
<1>4. q.kind = op.kind /\ q.at = at /\ q = [kind |-> op.kind, at |-> at, result |-> result]
  BY <1>3
<1> HIDE DEF q
<1>5. q = [kind |-> q.kind, at |-> q.at, result |-> q.result] /\ q.kind \in Kinds
  BY <1>4 DEF Shaped
<1>6. Shaped(q)
  BY <1>2, <1>4, <1>5 DEF Shaped
<1> QED
  BY <1>1, <1>2, <1>4, <1>6

\* The session is one of its states.
LEMMA SessionType ==
  ASSUME session \in Sessions, NEW o
  PROVE  Session(o) \in Sessions
BY DEF Session, Sessions

\* Whoever is about to read is the last operation, and nothing else has moved.
About(i, o) ==
  /\ OneByOne(o) /\ Len(o) \in Nat /\ i = Len(o) /\ i \in 1 .. Len(o) /\ o[i].at = "writing"
  /\ \A j \in 1 .. Len(o) : j # i =>
       j \in DOMAIN ops /\ ops[j] = o[j] /\ (Web /\ o[j].kind = "exchange" => o[j].at # "writing")

\* The operation i in another state.
Placed(o, i, op) == [o EXCEPT ![i] = op]

\* The last operation reads, or has its answer: the order stays.
LEMMA AboutToRead ==
  ASSUME NEW i, NEW o, About(i, o), NEW op, Shaped(op), op.kind = o[i].kind, op.at # "writing",
         NEW q, q = Placed(o, i, op)
  PROVE  /\ OneByOne(q) /\ AtOnce(q) /\ Len(q) = Len(o) /\ q[i] = op
         /\ \A j \in 1 .. Len(o) : j # i => q[j] = o[j]
         /\ Follows(o, q)
<1>1. /\ i \in 1 .. Len(o) /\ Len(o) \in Nat /\ o = [j \in 1 .. Len(o) |-> o[j]] /\ OneByOne(o)
      /\ \A j \in 1 .. Len(o) : Shaped(o[j])
  BY DEF About, OneByOne, OpsTyped, IsTuple
<1>2. q = [j \in 1 .. Len(o) |-> IF j = i THEN op ELSE o[j]]
  BY <1>1 DEF Placed
<1>3. q = [j \in 1 .. Len(o) |-> q[j]] /\ q[i] = op /\ \A j \in 1 .. Len(o) : j # i => q[j] = o[j]
  BY <1>1, <1>2
<1>4. IsTuple(q) /\ Len(q) = Len(o)
  BY <1>1, <1>3, FunctionTuple
<1>5. ASSUME NEW j \in 1 .. Len(o)
      PROVE  /\ Shaped(q[j]) /\ q[j].kind = o[j].kind
             /\ q[j].at = "writing" => o[j].at = "writing"
             /\ Going(q[j]) => Going(o[j])
  <2>1. CASE j = i
    <3>1. o[i].at = "writing"
      BY DEF About
    <3> QED
      BY <1>3, <2>1, <3>1 DEF Going
  <2>2. CASE j # i
    BY <1>1, <1>3, <2>2
  <2> QED
    BY <2>1, <2>2
<1>6. Follows(o, q)
  BY <1>4, <1>5 DEF Follows
<1>7. OneByOne(q)
  BY <1>1, <1>6, FollowsKeeps
<1>8. AtOnce(q)
  <2> SUFFICES ASSUME NEW j \in 1 .. Len(q), Web, q[j].kind = "exchange" PROVE q[j].at # "writing"
    BY DEF AtOnce
  <2>1. CASE j = i
    BY <1>3, <2>1
  <2>2. CASE j # i
    BY <1>3, <1>4, <2>2 DEF About
  <2> QED
    BY <2>1, <2>2
<1> QED
  BY <1>3, <1>4, <1>6, <1>7, <1>8

\* As long as it has no answer, nothing ends and nothing is given up.
LEMMA NothingEnds ==
  ASSUME NEW i, NEW o, About(i, o), NEW q, IsTuple(q), OpsTyped(q), Len(q) = Len(o), q[i].at = "reading",
         \A j \in 1 .. Len(o) : j # i => q[j] = o[j]
  PROVE  GivenUp(q) = q /\ ~Exited(q)
<1>1. ASSUME NEW kind, NEW at \in {"done", "failed"} PROVE ~Just(q, kind, at)
  <2> SUFFICES ASSUME NEW j \in DOMAIN q, q[j].at = at, j \in DOMAIN ops => ops[j].at \in {"writing", "reading"}
               PROVE  FALSE
    BY DEF Just
  <2>1. j \in 1 .. Len(o)
    BY TupleSeq
  <2>2. j # i
    BY <1>1
  <2>3. j \in DOMAIN ops /\ ops[j] = o[j] /\ q[j] = o[j]
    BY <2>1, <2>2 DEF About
  <2> QED
    BY <1>1, <2>3
<1>2. ~Lost(q) /\ ~Exited(q)
  BY <1>1 DEF Lost, Exited
<1> QED
  BY <1>2, GivenUpFacts

\* Whether a frame can be taken depends on the bytes alone.
LEMMA TakenByBytes ==
  ASSUME NEW r, NEW s, r.buffer = s.buffer
  PROVE  TryTake(r).taken = TryTake(s).taken
BY DEF TryTake

\* An empty reader gives nothing.
LEMMA EmptyGivesNothing ==
  ASSUME NEW r, r.buffer = <<>>
  PROVE  ~TryTake(r).taken
<1> DEFINE b == r.buffer
           bytes == SubSeq(b, Skipped(b) + 1, Len(b))
<1>1. b \in Seq(Byte) /\ Len(b) = 0
  OBVIOUS
<1>2. Skipped(b) \in 0 .. Len(b)
  BY <1>1, SkippedFacts
<1>3. Len(bytes) = 0
  BY <1>1, <1>2, EndOf
<1> HIDE DEF bytes
<1>4. Len(bytes) < PREFIX
  BY <1>3, Sizes
<1>5. ASSUME TryTake(r).taken PROVE FALSE
  BY <1>4, <1>5 DEF TryTake, bytes
<1> QED
  BY <1>5

\* The operation i joins the waiters, all of which are before it.
LEMMA JoinsWaiters ==
  ASSUME NEW o, NEW q, NEW w, Waiting(o, w), Follows(o, q), NEW i \in 1 .. Len(o), q[i].at = "reading",
         \A k \in 1 .. Len(w) : w[k] < i
  PROVE  /\ Waiting(q, Append(w, i))
         /\ AllReading(o, w) /\ (\A k \in 1 .. Len(w) : q[w[k]] = o[w[k]]) => AllReading(q, Append(w, i))
<1> DEFINE v == Append(w, i)
<1>1. w \in Seq(1 .. Len(o)) /\ Len(q) = Len(o) /\ Len(w) \in Nat
  BY LenProperties DEF Waiting, Follows
<1>2. /\ v \in Seq(1 .. Len(o)) /\ Len(v) = Len(w) + 1 /\ v[Len(w) + 1] = i
      /\ \A k \in 1 .. Len(w) : v[k] = w[k]
  BY <1>1, AppendProperties
<1> HIDE DEF v
<1>3. Waiting(q, w)
  BY FollowsWaiting
<1>4. Rising(v)
  <2> SUFFICES ASSUME NEW j \in 1 .. Len(v), NEW k \in 1 .. Len(v), j < k PROVE v[j] < v[k]
    BY DEF Rising
  <2>0. j \in 1 .. Len(w)
    BY <1>1, <1>2
  <2>1. j \in 1 .. Len(w) /\ v[j] = w[j]
    BY <1>2, <2>0
  <2>2. CASE k = Len(w) + 1
    BY <1>2, <2>1, <2>2
  <2>3. CASE k # Len(w) + 1
    <3> DEFINE n == Len(w)
               m == Len(v)
    <3>1. n \in Nat /\ m = n + 1 /\ k \in 1 .. m /\ k # n + 1
      BY <1>1, <1>2, <2>3
    <3> HIDE DEF n, m
    <3>2. k \in 1 .. n
      BY <3>1
    <3>3. k \in 1 .. Len(w) /\ v[k] = w[k]
      BY <1>2, <3>2 DEF n
    <3> QED
      BY <1>3, <2>1, <3>3 DEF Waiting, Rising
  <2> QED
    BY <2>2, <2>3
<1>5. ASSUME NEW k \in 1 .. Len(v) PROVE v[k] = i \/ (k \in 1 .. Len(w) /\ v[k] = w[k])
  BY <1>1, <1>2
<1>6. NoneWriting(q, v)
  BY <1>3, <1>5 DEF Waiting, NoneWriting
<1>7. ASSUME AllReading(o, w), \A k \in 1 .. Len(w) : q[w[k]] = o[w[k]] PROVE AllReading(q, v)
  BY <1>5, <1>7 DEF AllReading
<1> QED
  BY <1>1, <1>2, <1>4, <1>6, <1>7 DEF Waiting, v

\* What is asked of a reader before and after a step.
Served(o, r) ==
  /\ r \in Readers(Nat) /\ Waiting(o, r.waiters)
  /\ ~Web \/ "stale" \notin trouble => AllReading(o, r.waiters)
  /\ ~Offline /\ r.waiters # <<>> => ~TryTake(r).taken

\* readFrame: types, the order of the operations, and that of the waiters.
LEMMA ReadFrameKeeps ==
  ASSUME host \in Hosts, session \in Sessions, NEW i, NEW o, NEW r, About(i, o), Served(o, r),
         \A k \in 1 .. Len(r.waiters) : r.waiters[k] < i, ReadFrame(i, o, r)
  PROVE  /\ OneByOne(ops') /\ AtOnce(ops') /\ Follows(o, ops') /\ session' \in Sessions
         /\ Served(ops', reader')
<1> DEFINE t == TryTake(r)
           op == [o[i] EXCEPT !.at = "reading"]
           q == [o EXCEPT ![i] = op]
           w == r.waiters
<1>1. /\ OneByOne(o) /\ OpsTyped(o) /\ IsTuple(o) /\ Len(o) \in Nat /\ i \in 1 .. Len(o)
      /\ o = [j \in 1 .. Len(o) |-> o[j]] /\ Shaped(o[i])
  BY DEF About, OneByOne, OpsTyped, IsTuple
<1>2. op = [o[i] EXCEPT !.at = "reading"]
  OBVIOUS
<1>3. Shaped(op) /\ op.kind = o[i].kind /\ op.at = "reading"
  BY <1>1 DEF Shaped, Ats
<1>4. [o EXCEPT ![i].at = "reading"] = q
  OBVIOUS
<1>5. r \in Readers(Nat) /\ w \in Seq(1 .. Len(o)) /\ Len(w) \in Nat
  BY LenProperties DEF Served, Waiting
<1>6. t.reader \in Readers(Nat) /\ t.reader.waiters = w
  BY <1>5, TakeFacts
<1>7. CASE Offline \/ ~t.taken
  <2> DEFINE base == IF Offline THEN Cleared(r) ELSE t.reader
             v == Append(w, i)
             new == [base EXCEPT !.waiters = Append(@, i)]
  <2>1. base \in Readers(Nat) /\ base.waiters = w
    BY <1>5, <1>6, ClearedFacts
  <2>2. Ended(q, new)
    BY <1>4, <1>7 DEF ReadFrame
  <2> HIDE DEF op
  <2>0. q = Placed(o, i, op)
    BY DEF Placed
  <2> HIDE DEF q
  <2>3. /\ OneByOne(q) /\ AtOnce(q) /\ Len(q) = Len(o) /\ q[i] = op /\ Follows(o, q)
        /\ \A j \in 1 .. Len(o) : j # i => q[j] = o[j]
    BY <1>3, <2>0, AboutToRead
  <2>4. GivenUp(q) = q /\ ~Exited(q)
    BY <1>3, <2>3, NothingEnds DEF OneByOne, OpsTyped
  <2> HIDE DEF new
  <2>5. ops' = q /\ session' = Session(q) /\ reader' = new
    BY <2>2, <2>4 DEF Ended
  <2>6. session' \in Sessions
    BY <2>5, SessionType
  <2>7. v \in Seq(Nat)
    <3>1. w \in Seq(Nat) /\ i \in Nat
      BY <1>1, <1>5, SeqMonotonic
    <3> QED
      BY <3>1, AppendProperties
  <2>8. new = Queued(base, v)
    BY <2>1 DEF new, Queued
  <2> HIDE DEF base, v
  <2>9. new \in Readers(Nat) /\ new.waiters = v /\ new.buffer = base.buffer
    BY <2>1, <2>7, <2>8, QueuedFacts
  <2>10. /\ Waiting(q, v)
         /\ AllReading(o, w) /\ (\A k \in 1 .. Len(w) : q[w[k]] = o[w[k]]) => AllReading(q, v)
    <3> HIDE DEF w
    <3>1. Waiting(o, w) /\ q[i].at = "reading" /\ Follows(o, q) /\ \A k \in 1 .. Len(w) : w[k] < i
      BY <1>3, <2>3 DEF Served, w
    <3> QED
      BY <1>1, <3>1, JoinsWaiters DEF v
  <2>11. \A k \in 1 .. Len(w) : q[w[k]] = o[w[k]]
    <3> SUFFICES ASSUME NEW k \in 1 .. Len(w) PROVE q[w[k]] = o[w[k]]
      OBVIOUS
    <3>1. w[k] \in 1 .. Len(o) /\ w[k] < i
      BY <1>5, ElementOfSeq
    <3>2. w[k] # i
      BY <1>1, <3>1
    <3> QED
      BY <2>3, <3>1, <3>2
  <2>12. ~Web \/ "stale" \notin trouble => AllReading(q, v)
    BY <2>10, <2>11 DEF Served
  <2>13. ~Offline => ~TryTake(new).taken
    <3> SUFFICES ASSUME ~Offline PROVE ~TryTake(new).taken
      OBVIOUS
    <3>1. base = t.reader /\ ~t.taken
      BY <1>7 DEF base
    <3>2. ~TryTake(base).taken
      BY <1>5, <3>1, TakeFacts
    <3> QED
      BY <2>9, <3>2, TakenByBytes
  <2>14. Served(q, new)
    BY <2>9, <2>10, <2>12, <2>13 DEF Served
  <2> QED
    BY <2>3, <2>5, <2>6, <2>14
<1>8. CASE ~Offline /\ t.taken
  <2> DEFINE op2 == Settle(op, t)
             q2 == [o EXCEPT ![i] = op2]
             p == GivenUp(q2)
  <2>1. Ended(q2, t.reader)
    <3>1. [q EXCEPT ![i] = Settle(@, t)] = q2
      BY <1>1
    <3> QED
      BY <1>4, <1>8, <3>1 DEF ReadFrame
  <2> HIDE DEF op
  <2>2. Shaped(op2) /\ op2.kind = o[i].kind /\ op2.at # "writing"
    BY <1>3, SettleFacts
  <2> HIDE DEF op2
  <2>0. q2 = Placed(o, i, op2)
    BY DEF Placed
  <2> HIDE DEF q2
  <2>3. OneByOne(q2) /\ AtOnce(q2) /\ Follows(o, q2) /\ OpsTyped(q2)
    BY <2>0, <2>2, AboutToRead DEF OneByOne
  <2>4. Follows(q2, p)
    BY <2>3, GivenUpFacts
  <2>10. OneByOne(p) /\ AtOnce(p) /\ Follows(o, p)
    BY <2>3, <2>4, FollowsKeeps, FollowsOver
  <2>5. ops' = p /\ session' \in Sessions /\ (reader' = t.reader \/ reader' = Cleared(t.reader))
    BY <2>1, SessionType DEF Ended
  <2>6. w = <<>>
    BY <1>8 DEF Served
  <2>7. reader' \in Readers(Nat) /\ reader'.waiters = <<>>
    BY <1>6, <2>5, <2>6, ClearedFacts
  <2> HIDE DEF p
  <2>8. Waiting(p, <<>>) /\ AllReading(p, <<>>)
    BY DEF Waiting, Rising, NoneWriting, AllReading
  <2>9. Served(p, reader')
    BY <2>7, <2>8 DEF Served
  <2> QED
    BY <2>5, <2>9, <2>10
<1> QED
  BY <1>7, <1>8

\* The first n waiters have their answers.
Handed(n, w, frames) ==
  [i \in DOMAIN ops |->
     LET k == {j \in 1 .. n : w[j] = i}
     IN  IF k = {} THEN ops[i] ELSE Settle(ops[i], frames[Min(k)])]
\* The others stay as they are.
LEMMA HandedFacts ==
  ASSUME OneByOne(ops), NEW w, Waiting(ops, w), NEW n \in 0 .. Len(w), NEW frames
  PROVE  /\ Follows(ops, Handed(n, w, frames))
         /\ \A j \in 1 .. n : Handed(n, w, frames)[w[j]] = Settle(ops[w[j]], frames[j])
         /\ \A i \in 1 .. Len(ops) : (\A j \in 1 .. n : w[j] # i) => Handed(n, w, frames)[i] = ops[i]
<1> DEFINE o == Handed(n, w, frames)
           K(i) == {j \in 1 .. n : w[j] = i}
<1>1. /\ Len(ops) \in Nat /\ DOMAIN ops = 1 .. Len(ops) /\ Len(w) \in Nat
      /\ \A i \in 1 .. Len(ops) : Shaped(ops[i])
      /\ \A j \in 1 .. Len(w) : w[j] \in 1 .. Len(ops)
  BY TupleSeq, LenProperties, ElementOfSeq DEF OneByOne, OpsTyped, Waiting
<1>2. o = [i \in 1 .. Len(ops) |-> IF K(i) = {} THEN ops[i] ELSE Settle(ops[i], frames[Min(K(i))])]
  BY <1>1 DEF Handed
<1> HIDE DEF o
<1>3. ASSUME NEW i \in 1 .. Len(ops), \A j \in 1 .. n : w[j] # i PROVE o[i] = ops[i]
  <2>1. K(i) = {}
    BY <1>3
  <2> HIDE DEF K
  <2> QED
    BY <1>2, <2>1
<1>4. ASSUME NEW j \in 1 .. n PROVE o[w[j]] = Settle(ops[w[j]], frames[j])
  <2>1. j \in 1 .. Len(w) /\ w[j] \in 1 .. Len(ops)
    BY <1>1
  <2>2. ASSUME NEW k \in K(w[j]) PROVE k = j
    <3>1. k \in 1 .. Len(w) /\ w[k] = w[j]
      BY <1>1
    <3>2. w[j] \in Nat
      BY <2>1
    <3>3. ~(k < j) /\ ~(j < k)
      BY <2>1, <3>1, <3>2 DEF Waiting, Rising
    <3> QED
      BY <2>1, <3>1, <3>3
  <2>3. K(w[j]) = {j} /\ j \in Nat
    BY <2>2
  <2>4. Min({j}) = j
    BY <2>3, MinFacts
  <2> HIDE DEF K
  <2> QED
    BY <1>2, <2>1, <2>3, <2>4
<1>5. o = [i \in 1 .. Len(ops) |-> o[i]]
  BY <1>2
<1>6. IsTuple(o) /\ Len(o) = Len(ops)
  BY <1>1, <1>5, FunctionTuple
<1>7. ASSUME NEW i \in 1 .. Len(ops)
      PROVE  /\ Shaped(o[i]) /\ o[i].kind = ops[i].kind
             /\ o[i].at = "writing" => ops[i].at = "writing"
             /\ Going(o[i]) => Going(ops[i])
  <2>1. CASE \A j \in 1 .. n : w[j] # i
    <3>1. o[i] = ops[i]
      BY <1>3, <2>1
    <3> QED
      BY <1>1, <3>1
  <2>2. CASE \E j \in 1 .. n : w[j] = i
    <3>1. PICK j \in 1 .. n : w[j] = i
      BY <2>2
    <3>2. o[i] = Settle(ops[i], frames[j]) /\ Shaped(ops[i])
      BY <1>1, <1>4, <3>1
    <3> QED
      BY <3>2, SettleFacts DEF Going
  <2> QED
    BY <2>1, <2>2
<1>8. Follows(ops, o)
  BY <1>6, <1>7 DEF Follows
<1> QED
  BY <1>3, <1>4, <1>8 DEF o

\* The end of the waiters.
LEMMA WaitersEnd ==
  ASSUME NEW o, NEW w, Waiting(o, w), NEW n \in 0 .. Len(w)
  PROVE  LET v == SubSeq(w, n + 1, Len(w))
         IN  /\ Waiting(o, v) /\ Len(v) = Len(w) - n
             /\ \A k \in 1 .. Len(v) : n + k \in 1 .. Len(w) /\ v[k] = w[n + k]
<1> DEFINE v == SubSeq(w, n + 1, Len(w))
<1>1. w \in Seq(1 .. Len(o)) /\ Len(w) \in Nat /\ Rising(w)
  BY LenProperties DEF Waiting
<1>2. n + 1 \in Int /\ Len(w) \in Int /\ \A k \in n + 1 .. Len(w) : w[k] \in 1 .. Len(o)
  BY <1>1, ElementOfSeq
<1>3. /\ v \in Seq(1 .. Len(o)) /\ Len(v) = IF n + 1 <= Len(w) THEN Len(w) - (n + 1) + 1 ELSE 0
      /\ \A k \in 1 .. Len(w) - (n + 1) + 1 : v[k] = w[n + 1 + k - 1]
  BY <1>2, SubSeqProperties
<1> HIDE DEF v
<1>4. Len(v) = Len(w) - n
  BY <1>1, <1>3
<1>5. ASSUME NEW k \in 1 .. Len(v) PROVE n + k \in 1 .. Len(w) /\ v[k] = w[n + k]
  <2>1. k \in 1 .. Len(w) - (n + 1) + 1 /\ n + 1 + k - 1 = n + k /\ n + k \in 1 .. Len(w)
    BY <1>1, <1>4
  <2> QED
    BY <1>3, <2>1
<1>6. Rising(v)
  <2> SUFFICES ASSUME NEW j \in 1 .. Len(v), NEW k \in 1 .. Len(v), j < k PROVE v[j] < v[k]
    BY DEF Rising
  <2>1. n + j \in 1 .. Len(w) /\ n + k \in 1 .. Len(w) /\ v[j] = w[n + j] /\ v[k] = w[n + k]
    BY <1>5
  <2>2. n + j < n + k
    BY <1>4, <1>1
  <2> QED
    BY <1>1, <2>1, <2>2 DEF Rising
<1>7. NoneWriting(o, v)
  BY <1>5 DEF Waiting, NoneWriting
<1> QED
  BY <1>3, <1>4, <1>5, <1>6, <1>7 DEF Waiting, v

\* The frames are handed on: types, the order of the operations, and that of the waiters.
LEMMA HandKeeps ==
  ASSUME session \in Sessions, OneByOne(ops), AtOnce(ops),
         NEW r \in Readers(Nat), Waiting(ops, r.waiters),
         ~Web \/ "stale" \notin trouble => AllReading(ops, r.waiters),
         NEW frames, IsTuple(frames),
         ~Offline /\ Len(frames) < Len(r.waiters) => ~TryTake(r).taken,
         Hand(r, frames)
  PROVE  /\ OneByOne(ops') /\ AtOnce(ops') /\ Follows(ops, ops') /\ session' \in Sessions
         /\ reader' \in Readers(Nat) /\ Waiting(ops', reader'.waiters)
         /\ ~Web \/ "stale" \notin trouble' => AllReading(ops', reader'.waiters)
         /\ ~Offline /\ reader'.waiters # <<>> => ~TryTake(reader').taken
         /\ \E new \in SUBSET {"early", "stale"} : trouble' = trouble \cup new
<1> DEFINE w == r.waiters
           n == Min({Len(frames), Len(w)})
           o == Handed(n, w, frames)
           v == SubSeq(w, n + 1, Len(w))
           after == [r EXCEPT !.waiters = SubSeq(@, n + 1, Len(@))]
           p == GivenUp(o)
           early == IF Len(frames) > n THEN {"early"} ELSE {}
           stale == IF Stale(p, after) THEN {"stale"} ELSE {}
<1>1. Ended(o, after) /\ trouble' = trouble \cup early \cup stale
  BY DEF Hand, Handed
<1>2. Len(w) \in Nat /\ Len(frames) \in Nat /\ w \in Seq(1 .. Len(ops))
  BY LenProperties DEF Waiting, IsTuple
<1>3. n \in 0 .. Len(w) /\ n <= Len(frames) /\ (n = Len(frames) \/ n = Len(w))
  <2> DEFINE a == Len(frames)
             b == Len(w)
  <2>1. a \in Nat /\ b \in Nat
    BY <1>2
  <2> HIDE DEF a, b
  <2>2. Min({a, b}) = IF a <= b THEN a ELSE b
    BY <2>1, MinOfTwo
  <2> QED
    BY <2>1, <2>2 DEF a, b
<1> HIDE DEF n
<1>4. /\ Follows(ops, o)
      /\ \A i \in 1 .. Len(ops) : (\A j \in 1 .. n : w[j] # i) => o[i] = ops[i]
  BY <1>3, HandedFacts
<1>5. /\ Waiting(ops, v) /\ Len(v) = Len(w) - n
      /\ \A k \in 1 .. Len(v) : n + k \in 1 .. Len(w) /\ v[k] = w[n + k]
  <2>1. Waiting(ops, w) /\ n \in 0 .. Len(w)
    BY <1>3
  <2> HIDE DEF w
  <2> QED
    BY <2>1, WaitersEnd
<1>6. after \in Readers(Nat) /\ after.waiters = v /\ after.buffer = r.buffer
  <2>1. after = Queued(r, v)
    BY DEF Queued
  <2>2. Len(ops) \in Nat /\ v \in Seq(1 .. Len(ops))
    BY <1>5 DEF Waiting, OneByOne, OpsTyped, IsTuple
  <2>3. v \in Seq(Nat)
    BY <2>2, SeqMonotonic
  <2> HIDE DEF after, v
  <2> QED
    BY <2>1, <2>3, QueuedFacts
<1> HIDE DEF o, v, after
<1>7. OneByOne(o) /\ AtOnce(o) /\ OpsTyped(o) /\ Len(o) = Len(ops)
  BY <1>4, FollowsKeeps DEF OneByOne, Follows
<1>16. Follows(o, p) /\ (~Web => p = o)
  BY <1>7, GivenUpFacts
<1>8. /\ Follows(o, p) /\ Follows(ops, p) /\ OneByOne(p) /\ AtOnce(p)
      /\ ~Web => p = o
  BY <1>4, <1>7, <1>16, FollowsKeeps, FollowsOver
<1> HIDE DEF p
<1>9. ops' = p /\ session' \in Sessions /\ (reader' = after \/ reader' = Cleared(after))
  BY <1>1, SessionType DEF Ended, p
<1>10. reader' \in Readers(Nat) /\ reader'.waiters = v /\ (reader'.buffer = after.buffer \/ reader'.buffer = <<>>)
  BY <1>6, <1>9, ClearedFacts
<1>11. Waiting(p, v)
  BY <1>4, <1>5, <1>8, FollowsWaiting
<1>12. ASSUME "stale" \notin trouble' PROVE AllReading(p, v)
  <2>1. ~Stale(p, after)
    BY <1>1, <1>12
  <2>2. DOMAIN v = 1 .. Len(v)
    BY <1>5, LenProperties DEF Waiting
  <2> QED
    BY <1>6, <2>1, <2>2 DEF Stale, AllReading
<1>13. ASSUME ~Web PROVE AllReading(p, v)
  <2> SUFFICES ASSUME NEW k \in 1 .. Len(v) PROVE p[v[k]].at = "reading"
    BY DEF AllReading
  <2>1. n + k \in 1 .. Len(w) /\ v[k] = w[n + k] /\ w[n + k] \in 1 .. Len(ops)
    BY <1>2, <1>5, ElementOfSeq
  <2>2. ASSUME NEW j \in 1 .. n PROVE w[j] # w[n + k]
    <3>1. j \in 1 .. Len(w) /\ j < n + k
      BY <1>2, <1>3, <2>1
    <3>3. w[j] < w[n + k]
      BY <2>1, <3>1 DEF Waiting, Rising
    <3>2. w[j] < w[n + k] /\ w[n + k] \in Nat /\ w[j] \in Nat
      BY <1>2, <2>1, <3>1, <3>3, ElementOfSeq
    <3> QED
      BY <3>2
  <2>3. o[v[k]] = ops[v[k]]
    BY <1>4, <2>1, <2>2
  <2>4. ops[w[n + k]].at = "reading"
    BY <1>13, <2>1 DEF AllReading
  <2> QED
    BY <1>8, <1>13, <2>1, <2>3, <2>4
<1>14. ASSUME ~Offline, v # <<>> PROVE ~TryTake(reader').taken
  <2>1. n < Len(w) \/ n = Len(w)
    BY <1>2, <1>3
  <2>2. n # Len(w)
    <3>1. ASSUME n = Len(w) PROVE FALSE
      <4>1. Len(v) = 0
        BY <1>2, <1>5, <3>1
      <4>2. v = <<>>
        BY <1>5, <4>1, EmptySeq DEF Waiting
      <4> QED
        BY <1>14, <4>2
    <3> QED
      BY <3>1
  <2>3. Len(frames) < Len(w)
    BY <1>2, <1>3, <2>1, <2>2
  <2>4. ~TryTake(r).taken
    BY <1>14, <2>3
  <2> QED
    BY <1>6, <1>10, <2>4, TakenByBytes, EmptyGivesNothing
<1>15. early \cup stale \in SUBSET {"early", "stale"} /\ trouble' = trouble \cup (early \cup stale)
  BY <1>1
<1> HIDE DEF early, stale
<1> QED
  BY <1>8, <1>9, <1>10, <1>11, <1>12, <1>13, <1>14, <1>15

\* Who waits no longer is taken out; the others keep their order.
LEMMA RemoveFacts ==
  ASSUME NEW S, S \subseteq Nat, NEW w \in Seq(S), Rising(w), NEW i
  PROVE  /\ RemoveFirst(w, i) \in Seq(S) /\ Rising(RemoveFirst(w, i))
         /\ \A k \in 1 .. Len(RemoveFirst(w, i)) :
              \E j \in 1 .. Len(w) : RemoveFirst(w, i)[k] = w[j] /\ w[j] # i
         /\ \A j \in 1 .. Len(w) : w[j] # i =>
              \E k \in 1 .. Len(RemoveFirst(w, i)) : RemoveFirst(w, i)[k] = w[j]
<1>1. Len(w) \in Nat /\ \A j \in 1 .. Len(w) : w[j] \in S /\ w[j] \in Nat
  BY LenProperties, ElementOfSeq
<1>2. CASE ~\E j \in 1 .. Len(w) : w[j] = i
  <2>1. RemoveFirst(w, i) = w
    BY <1>2 DEF RemoveFirst
  <2> QED
    BY <1>2, <2>1
<1>3. CASE \E j \in 1 .. Len(w) : w[j] = i
  <2> DEFINE I == {j \in 1 .. Len(w) : w[j] = i}
             m == Min(I)
             a == SubSeq(w, 1, m - 1)
             b == SubSeq(w, m + 1, Len(w))
             v == a \o b
  <2>1. RemoveFirst(w, i) = v
    <3>1. SelectInSeq(w, LAMBDA e : e = i) = m
      BY <1>3 DEF SelectInSeq
    <3> QED
      BY <1>3, <3>1 DEF RemoveFirst, RemoveAt
  <2>2. m \in 1 .. Len(w) /\ w[m] = i
    <3>1. I \subseteq Nat /\ I # {}
      BY <1>3
    <3>2. m \in I
      BY <3>1, MinFacts
    <3> QED
      BY <3>2
  <2> HIDE DEF m
  <2>3. \A j \in 1 .. Len(w) : j # m => w[j] # i
    <3> SUFFICES ASSUME NEW j \in 1 .. Len(w), j # m PROVE w[j] # i
      OBVIOUS
    <3>1. j < m \/ m < j
      BY <1>1, <2>2
    <3>2. w[j] < w[m] \/ w[m] < w[j]
      BY <2>2, <3>1 DEF Rising
    <3> QED
      BY <1>1, <2>2, <3>2
  <2>4. a \in Seq(S) /\ Len(a) = m - 1 /\ \A k \in 1 .. m - 1 : a[k] = w[k]
    <3>1. 1 \in Int /\ m - 1 \in Int /\ \A k \in 1 .. m - 1 : w[k] \in S
      BY <1>1, <2>2
    <3>2. /\ a \in Seq(S) /\ Len(a) = IF 1 <= m - 1 THEN (m - 1) - 1 + 1 ELSE 0
          /\ \A k \in 1 .. (m - 1) - 1 + 1 : a[k] = w[1 + k - 1]
      BY <3>1, SubSeqProperties
    <3> HIDE DEF a
    <3>3. (IF 1 <= m - 1 THEN (m - 1) - 1 + 1 ELSE 0) = m - 1 /\ (m - 1) - 1 + 1 = m - 1
      BY <2>2
    <3>4. \A k \in 1 .. m - 1 : 1 + k - 1 = k
      OBVIOUS
    <3> QED
      BY <3>2, <3>3, <3>4
  <2>5. b \in Seq(S) /\ Len(b) = Len(w) - m /\ \A k \in 1 .. Len(w) - m : b[k] = w[m + k]
    <3>1. m + 1 \in Int /\ Len(w) \in Int /\ \A k \in m + 1 .. Len(w) : w[k] \in S
      BY <1>1, <2>2
    <3>2. /\ b \in Seq(S) /\ Len(b) = IF m + 1 <= Len(w) THEN Len(w) - (m + 1) + 1 ELSE 0
          /\ \A k \in 1 .. Len(w) - (m + 1) + 1 : b[k] = w[m + 1 + k - 1]
      BY <3>1, SubSeqProperties
    <3> HIDE DEF b
    <3>3. /\ (IF m + 1 <= Len(w) THEN Len(w) - (m + 1) + 1 ELSE 0) = Len(w) - m
          /\ Len(w) - (m + 1) + 1 = Len(w) - m
      BY <1>1, <2>2
    <3>4. \A k \in 1 .. Len(w) - m : m + 1 + k - 1 = m + k
      BY <2>2
    <3> QED
      BY <3>2, <3>3, <3>4
  <2> HIDE DEF a, b
  <2>6. /\ v \in Seq(S) /\ Len(v) = Len(w) - 1
        /\ \A k \in 1 .. Len(w) - 1 : v[k] = IF k <= m - 1 THEN a[k] ELSE b[k - (m - 1)]
    <3>1. /\ v \in Seq(S) /\ Len(v) = Len(a) + Len(b)
          /\ \A k \in 1 .. Len(a) + Len(b) : v[k] = IF k <= Len(a) THEN a[k] ELSE b[k - Len(a)]
      BY <2>4, <2>5, ConcatProperties
    <3> HIDE DEF v
    <3>2. Len(a) + Len(b) = Len(w) - 1
      BY <1>1, <2>2, <2>4, <2>5
    <3> QED
      BY <2>4, <3>1, <3>2
  <2> HIDE DEF v
  <2> DEFINE P(k) == IF k <= m - 1 THEN k ELSE k + 1
  <2>7. ASSUME NEW k \in 1 .. Len(v) PROVE P(k) \in 1 .. Len(w) /\ P(k) # m /\ v[k] = w[P(k)]
    <3>1. k \in 1 .. Len(w) - 1
      BY <2>6
    <3>2. CASE k <= m - 1
      <4>1. k \in 1 .. m - 1 /\ P(k) = k /\ k # m /\ k \in 1 .. Len(w)
        BY <1>1, <2>2, <3>1, <3>2
      <4> QED
        BY <2>4, <2>6, <3>1, <3>2, <4>1
    <3>3. CASE ~(k <= m - 1)
      <4>1. k - (m - 1) \in 1 .. Len(w) - m /\ m + (k - (m - 1)) = k + 1 /\ P(k) = k + 1
            /\ k + 1 # m /\ k + 1 \in 1 .. Len(w)
        BY <1>1, <2>2, <3>1, <3>3
      <4> QED
        BY <2>5, <2>6, <3>1, <3>3, <4>1
    <3> QED
      BY <3>2, <3>3
  <2>8. Rising(v)
    <3> SUFFICES ASSUME NEW j \in 1 .. Len(v), NEW k \in 1 .. Len(v), j < k PROVE v[j] < v[k]
      BY DEF Rising
    <3>1. P(j) < P(k)
      BY <1>1, <2>2, <2>6
    <3> QED
      BY <2>7, <3>1 DEF Rising
  <2>9. ASSUME NEW j \in 1 .. Len(w), w[j] # i PROVE \E k \in 1 .. Len(v) : v[k] = w[j]
    <3> DEFINE k == IF j <= m - 1 THEN j ELSE j - 1
    <3>1. j # m
      BY <2>2, <2>9
    <3>2. k \in 1 .. Len(v) /\ P(k) = j
      BY <1>1, <2>2, <2>6, <3>1
    <3> QED
      BY <2>7, <3>2
  <2>10. ASSUME NEW k \in 1 .. Len(v) PROVE \E j \in 1 .. Len(w) : v[k] = w[j] /\ w[j] # i
    BY <2>3, <2>7
  <2> QED
    BY <2>1, <2>6, <2>8, <2>9, <2>10
<1> QED
  BY <1>2, <1>3

\* What the device has not looked at yet: the bytes of the last operations.
Looked == Len(ops) - Len(requests)
Asked ==
  /\ IsTuple(requests) /\ Len(requests) <= Len(ops)
  /\ \A k \in 1 .. Len(requests) : requests[k] = Asks(ops[Looked + k].kind, Looked + k)

LinkInv == Typed /\ Queueing /\ Asked

\* Operations that move on ask for nothing else.
LEMMA AskedKeeps ==
  ASSUME Asked, OneByOne(ops), Follows(ops, ops'), requests' = requests, host' = host
  PROVE  Asked'
<1>1. /\ Len(ops) \in Nat /\ Len(requests) \in Nat /\ Len(requests) <= Len(ops) /\ Len(ops') = Len(ops)
      /\ IsTuple(requests)
  BY DEF Asked, IsTuple, OneByOne, OpsTyped, Follows
<1>2. \A kind, i : Asks(kind, i)' = Asks(kind, i)
  BY DEF Asks, Bytes, Web, HostFrame, BridgeFrame, RealtimeFrame, OfflineFrame
<1>3. Looked' = Looked
  BY <1>1 DEF Looked
<1>4. ASSUME NEW k \in 1 .. Len(requests)
      PROVE  requests[k] = Asks(ops'[Looked + k].kind, Looked + k)
  <2>1. Looked + k \in 1 .. Len(ops)
    BY <1>1 DEF Looked
  <2> DEFINE i == Looked + k
  <2>2. requests[k] = Asks(ops[i].kind, i)
    BY DEF Asked
  <2> HIDE DEF i
  <2>3. ops'[i].kind = ops[i].kind
    BY <2>1 DEF Follows, i
  <2> QED
    BY <2>2, <2>3 DEF i
<1> QED
  BY <1>1, <1>2, <1>3, <1>4 DEF Asked

\* What the bounds leave, and what can go wrong.
Lefts == [mishap : 0 .. Mishaps, cut : 0 .. Cuts, late : 0 .. Lates, bad : 0 .. Bads]
Troubles == {"noise", "silent", "early", "late", "stale"}

\* The parts of the invariant after a step.
LEMMA LinkInvPrimed ==
  ASSUME LinkInv, host' = host, session' \in Sessions, OneByOne(ops'), AtOnce(ops'),
         Len(ops') <= MaxOps, line' \in Seq(Byte), left' \in Lefts, trouble' \subseteq Troubles,
         reader' \in Readers(Nat), Waiting(ops', reader'.waiters),
         ~Web \/ "stale" \notin trouble' => AllReading(ops', reader'.waiters),
         ~Offline /\ reader'.waiters # <<>> => ~TryTake(reader').taken, Asked'
  PROVE  LinkInv'
<1>1. Web' = Web /\ Offline' = Offline
  BY DEF Web, Offline
<1>2. OneByOne(ops)' /\ AtOnce(ops)'
  BY <1>1 DEF OneByOne, LastOnly, AtOnce
<1>3. Typed'
  BY <1>2 DEF LinkInv, Typed, Lefts, Troubles
<1>4. Queueing'
  BY <1>1 DEF Queueing
<1> QED
  BY <1>3, <1>4 DEF LinkInv

\* Bytes come into a reader.
Fed(r, b) == [r EXCEPT !.buffer = b, !.address = 0]

\* It holds them, from the address 0 on.
LEMMA FedFacts ==
  ASSUME NEW W, NEW r \in Readers(W), NEW b \in Seq(Byte)
  PROVE  /\ Fed(r, b) \in Readers(W) /\ Fed(r, b).waiters = r.waiters
         /\ Fed(r, b).buffer = b /\ Fed(r, b).address = 0
<1> DEFINE A == Seq(Byte)
           C == Seq(W)
           R == [buffer : A, address : Nat, waiters : C]
           p == [r EXCEPT !.buffer = b]
           c == [p EXCEPT !.address = 0]
<1>1. Readers(W) = R
  BY DEF Readers
<1>2. r \in R /\ b \in A
  BY DEF Readers
<1> HIDE DEF A, C
<1>3. p \in R /\ p.waiters = r.waiters /\ p.buffer = b
  BY <1>2
<1>4. Fed(r, b) = c
  BY DEF Fed
<1> HIDE DEF p
<1>5. c \in R /\ c.waiters = r.waiters /\ c.buffer = b /\ c.address = 0
  BY <1>3
<1> HIDE DEF c, R
<1> QED
  BY <1>1, <1>4, <1>5

\* A write that returns: the operation that is being written is the last one.
LEMMA WrittenAbout ==
  ASSUME LinkInv, NEW i \in DOMAIN ops, Written(i)
  PROVE  /\ About(i, ops) /\ Served(ops, reader) /\ ReadFrame(i, ops, reader)
         /\ \A k \in 1 .. Len(reader.waiters) : reader.waiters[k] < i
<1> DEFINE w == reader.waiters
<1>1. /\ OneByOne(ops) /\ AtOnce(ops) /\ IsTuple(ops) /\ Len(ops) \in Nat /\ i \in 1 .. Len(ops)
  BY TupleSeq DEF LinkInv, Typed, OneByOne, OpsTyped
<1>2. ops[i].at = "writing" /\ ReadFrame(i, ops, reader)
  BY DEF Written
<1>3. i = Len(ops)
  BY <1>1, <1>2 DEF OneByOne, LastOnly, AtOnce, Going
<1>4. About(i, ops)
  <2>1. \A j \in 1 .. Len(ops) : j \in DOMAIN ops
    BY <1>1, TupleSeq
  <2> QED
    BY <1>1, <1>2, <1>3, <2>1 DEF About, AtOnce
<1>5. Served(ops, reader)
  BY DEF LinkInv, Queueing, Typed, Served
<1>6. \A k \in 1 .. Len(w) : w[k] < i
  <2> SUFFICES ASSUME NEW k \in 1 .. Len(w) PROVE w[k] < i
    OBVIOUS
  <2>1. w[k] \in 1 .. Len(ops) /\ ops[w[k]].at # "writing"
    BY <1>5, ElementOfSeq DEF Served, Waiting, NoneWriting
  <2> QED
    BY <1>1, <1>2, <1>3, <2>1
<1> QED
  BY <1>2, <1>4, <1>5, <1>6

\* The operation reads then, or has its answer.
LEMMA WrittenKeeps ==
  ASSUME LinkInv, NEW i \in DOMAIN ops, Written(i)
  PROVE  LinkInv'
<1>1. host \in Hosts /\ session \in Sessions /\ OneByOne(ops)
  BY DEF LinkInv, Typed
<1>2. /\ OneByOne(ops') /\ AtOnce(ops') /\ Follows(ops, ops') /\ session' \in Sessions
      /\ Served(ops', reader')
  BY <1>1, WrittenAbout, ReadFrameKeeps
<1>3. host' = host /\ requests' = requests /\ line' = line /\ left' = left /\ trouble' = trouble
  BY DEF Written
<1>4. Asked'
  BY <1>1, <1>2, <1>3, AskedKeeps DEF LinkInv
<1>5. Len(ops') <= MaxOps
  BY <1>2 DEF Follows, LinkInv, Typed
<1>6. line' \in Seq(Byte) /\ left' \in Lefts /\ trouble' \subseteq Troubles
  BY <1>3 DEF LinkInv, Typed, Lefts, Troubles
<1> QED
  BY <1>2, <1>3, <1>4, <1>5, <1>6, LinkInvPrimed DEF Served

\* One of what the bounds leave is used up.
LEMMA LeftSpent ==
  ASSUME NEW l \in Lefts
  PROVE  /\ l.mishap > 0 => [l EXCEPT !.mishap = @ - 1] \in Lefts
         /\ l.cut > 0 => [l EXCEPT !.cut = @ - 1] \in Lefts
         /\ l.late > 0 => [l EXCEPT !.late = @ - 1] \in Lefts
         /\ l.bad > 0 => [l EXCEPT !.bad = @ - 1] \in Lefts
<1>1. Mishaps \in Nat /\ Cuts \in Nat /\ Lates \in Nat /\ Bads \in Nat
  BY LinkAssumption
<1>2. l \in [mishap : 0 .. Mishaps, cut : 0 .. Cuts, late : 0 .. Lates, bad : 0 .. Bads]
  BY DEF Lefts
<1>3. l.mishap \in 0 .. Mishaps /\ l.cut \in 0 .. Cuts /\ l.late \in 0 .. Lates /\ l.bad \in 0 .. Bads
  BY <1>2
<1>4. /\ l.mishap > 0 => l.mishap - 1 \in 0 .. Mishaps
      /\ l.cut > 0 => l.cut - 1 \in 0 .. Cuts
      /\ l.late > 0 => l.late - 1 \in 0 .. Lates
      /\ l.bad > 0 => l.bad - 1 \in 0 .. Bads
  BY <1>1, <1>3
<1> DEFINE A == 0 .. Mishaps
           B == 0 .. Cuts
           C == 0 .. Lates
           D == 0 .. Bads
           a == l.mishap - 1
           b == l.cut - 1
           c == l.late - 1
           d == l.bad - 1
<1>5. l \in [mishap : A, cut : B, late : C, bad : D]
  BY <1>2
<1>6. (l.mishap > 0 => a \in A) /\ (l.cut > 0 => b \in B) /\ (l.late > 0 => c \in C) /\ (l.bad > 0 => d \in D)
  BY <1>4
<1> HIDE DEF A, B, C, D, a, b, c, d
<1>7. /\ l.mishap > 0 => [l EXCEPT !.mishap = a] \in [mishap : A, cut : B, late : C, bad : D]
      /\ l.cut > 0 => [l EXCEPT !.cut = b] \in [mishap : A, cut : B, late : C, bad : D]
      /\ l.late > 0 => [l EXCEPT !.late = c] \in [mishap : A, cut : B, late : C, bad : D]
      /\ l.bad > 0 => [l EXCEPT !.bad = d] \in [mishap : A, cut : B, late : C, bad : D]
  BY <1>5, <1>6
<1> QED
  BY <1>7 DEF Lefts, A, B, C, D, a, b, c, d

\* A read that gives up no longer waits; the others do.
LEMMA GivesUpFacts ==
  ASSUME NEW o, NEW q, IsTuple(o), Len(q) = Len(o), NEW r \in Readers(Nat), Waiting(o, r.waiters), NEW i,
         \A j \in 1 .. Len(o) : j # i => q[j] = o[j],
         NEW s, s = WebTimeout(r, i)
  PROVE  /\ s \in Readers(Nat) /\ s.buffer = r.buffer /\ Waiting(q, s.waiters)
         /\ AllReading(o, r.waiters) => AllReading(q, s.waiters)
         /\ \A k \in 1 .. Len(s.waiters) : s.waiters[k] # i
         /\ s.waiters # <<>> => r.waiters # <<>>
<1> DEFINE w == r.waiters
           v == RemoveFirst(w, i)
<1>1. /\ Len(o) \in Nat /\ (1 .. Len(o)) \subseteq Nat /\ w \in Seq(1 .. Len(o)) /\ Rising(w)
      /\ Len(w) \in Nat
  BY LenProperties DEF Waiting, IsTuple
<1>2. s = Queued(r, v)
  BY DEF WebTimeout, Queued
<1> HIDE DEF w
<1>3. /\ v \in Seq(1 .. Len(o)) /\ Rising(v)
      /\ \A k \in 1 .. Len(v) : \E j \in 1 .. Len(w) : v[k] = w[j] /\ w[j] # i
  BY <1>1, RemoveFacts
<1> HIDE DEF v
<1>4. v \in Seq(Nat)
  BY <1>1, <1>3, SeqMonotonic
<1>5. s \in Readers(Nat) /\ s.buffer = r.buffer /\ s.waiters = v
  BY <1>2, <1>4, QueuedFacts
<1>6. ASSUME NEW k \in 1 .. Len(v)
      PROVE  /\ v[k] # i /\ q[v[k]] = o[v[k]] /\ q[v[k]].at # "writing"
             /\ AllReading(o, w) => q[v[k]].at = "reading"
  <2>1. PICK j \in 1 .. Len(w) : v[k] = w[j] /\ w[j] # i
    BY <1>3
  <2>2. w[j] \in 1 .. Len(o) /\ o[w[j]].at # "writing"
    BY <1>1, ElementOfSeq DEF Waiting, NoneWriting, w
  <2> QED
    BY <2>1, <2>2 DEF AllReading
<1>7. Waiting(q, v)
  BY <1>3, <1>6 DEF Waiting, NoneWriting
<1>8. AllReading(o, w) => AllReading(q, v)
  BY <1>6 DEF AllReading
<1>9. ASSUME v # <<>> PROVE w # <<>>
  <2>1. Len(v) \in Nat /\ Len(v) # 0
    BY <1>3, <1>9, EmptySeq, LenProperties
  <2>2. PICK j \in 1 .. Len(w) : v[1] = w[j]
    BY <1>3, <2>1
  <2>3. Len(w) # 0
    BY <1>1, <2>2
  <2> QED
    BY <2>3
<1> QED
  BY <1>5, <1>6, <1>7, <1>8, <1>9 DEF w

\* The timer of a read whose operation was given up.
LEMMA StaleTimeoutKeeps ==
  ASSUME LinkInv, NEW i \in DOMAIN ops, StaleTimeout(i)
  PROVE  LinkInv'
<1>1. /\ host' = host /\ session' = session /\ ops' = ops /\ requests' = requests /\ line' = line
      /\ left' = left /\ trouble' = trouble /\ reader' = WebTimeout(reader, i)
  BY DEF StaleTimeout
<1>2. /\ session \in Sessions /\ OneByOne(ops) /\ AtOnce(ops) /\ OpsTyped(ops) /\ IsTuple(ops)
      /\ Len(ops) <= MaxOps /\ reader \in Readers(Nat) /\ Waiting(ops, reader.waiters)
  BY DEF LinkInv, Typed, Queueing, OneByOne, OpsTyped
<1>3. /\ reader' \in Readers(Nat) /\ reader'.buffer = reader.buffer /\ Waiting(ops, reader'.waiters)
      /\ AllReading(ops, reader.waiters) => AllReading(ops, reader'.waiters)
      /\ reader'.waiters # <<>> => reader.waiters # <<>>
  BY <1>1, <1>2, GivesUpFacts
<1>4. Asked'
  BY <1>1, <1>2, FollowsSame, AskedKeeps DEF LinkInv
<1>5. line' \in Seq(Byte) /\ left' \in Lefts /\ trouble' \subseteq Troubles
  BY <1>1 DEF LinkInv, Typed, Lefts, Troubles
<1>6. ~Offline /\ reader'.waiters # <<>> => ~TryTake(reader').taken
  BY <1>3, TakenByBytes DEF LinkInv, Queueing
<1>7. ~Web \/ "stale" \notin trouble' => AllReading(ops', reader'.waiters)
  BY <1>1, <1>3 DEF LinkInv, Queueing
<1> QED
  BY <1>1, <1>2, <1>3, <1>4, <1>5, <1>6, <1>7, LinkInvPrimed

\* An operation that fails while it reads leaves the others as they are.
LEMMA FailedFacts ==
  ASSUME OneByOne(ops), AtOnce(ops), NEW i \in DOMAIN ops, ops[i].at = "reading",
         NEW o, o = [ops EXCEPT ![i].at = "failed"]
  PROVE  /\ IsTuple(o) /\ Len(o) = Len(ops) /\ Follows(ops, o) /\ OneByOne(o) /\ AtOnce(o) /\ OpsTyped(o)
         /\ i \in 1 .. Len(ops) /\ o[i].at = "failed" /\ \A j \in 1 .. Len(ops) : j # i => o[j] = ops[j]
<1> DEFINE op == [ops[i] EXCEPT !.at = "failed"]
           q == [ops EXCEPT ![i].at = "failed"]
<1>2. /\ OpsTyped(ops) /\ IsTuple(ops) /\ Len(ops) \in Nat /\ i \in 1 .. Len(ops) /\ Shaped(ops[i])
  BY TupleSeq DEF OneByOne, OpsTyped
<1>3. Shaped(op) /\ op.kind = ops[i].kind /\ op.at = "failed"
  BY <1>2 DEF Shaped, Ats
<1>4. q = [ops EXCEPT ![i] = op]
  OBVIOUS
<1> HIDE DEF op, q
<1>5. q = [j \in 1 .. Len(ops) |-> IF j = i THEN op ELSE ops[j]]
  BY <1>2, <1>4, TupleSeq DEF IsTuple
<1>6. q = [j \in 1 .. Len(ops) |-> q[j]] /\ q[i] = op /\ \A j \in 1 .. Len(ops) : j # i => q[j] = ops[j]
  BY <1>2, <1>5
<1>7. IsTuple(q) /\ Len(q) = Len(ops)
  BY <1>2, <1>6, FunctionTuple
<1>8. Follows(ops, q)
  <2> SUFFICES ASSUME NEW j \in 1 .. Len(ops)
               PROVE  /\ Shaped(q[j]) /\ q[j].kind = ops[j].kind
                      /\ q[j].at = "writing" => ops[j].at = "writing"
                      /\ Going(q[j]) => Going(ops[j])
    BY <1>7 DEF Follows
  <2>1. CASE j = i
    BY <1>3, <1>6, <2>1 DEF Going
  <2>2. CASE j # i
    BY <1>2, <1>6, <2>2 DEF OpsTyped
  <2> QED
    BY <2>1, <2>2
<1>9. OneByOne(q) /\ AtOnce(q) /\ OpsTyped(q)
  BY <1>2, <1>8, FollowsKeeps DEF OneByOne
<1> QED
  BY <1>2, <1>3, <1>6, <1>7, <1>8, <1>9 DEF q

\* A read that gives up while its operation waits: only what was under way ends with it.
LEMMA TimeoutKeeps ==
  ASSUME LinkInv, NEW i \in DOMAIN ops, Timeout(i)
  PROVE  LinkInv'
<1> DEFINE r == IF Web THEN WebTimeout(reader, i) ELSE ToolTimeout(reader, i)
           s == WebTimeout(reader, i)
           o == [ops EXCEPT ![i].at = "failed"]
           p == GivenUp(o)
           stale == IF Stale(p, r) THEN {"stale"} ELSE {}
<1>1. /\ ops[i].at = "reading" /\ left.late > 0 /\ left' = [left EXCEPT !.late = @ - 1]
      /\ Ended(o, r) /\ trouble' = trouble \cup {"late"} \cup stale
      /\ host' = host /\ requests' = requests /\ line' = line
  BY DEF Timeout
<1>2. /\ session \in Sessions /\ OneByOne(ops) /\ AtOnce(ops) /\ OpsTyped(ops) /\ IsTuple(ops)
      /\ Len(ops) \in Nat /\ Len(ops) <= MaxOps /\ i \in 1 .. Len(ops)
      /\ reader \in Readers(Nat) /\ Waiting(ops, reader.waiters)
  BY TupleSeq DEF LinkInv, Typed, Queueing, OneByOne, OpsTyped
<1>3. /\ IsTuple(o) /\ Len(o) = Len(ops) /\ \A j \in 1 .. Len(ops) : j # i => o[j] = ops[j]
      /\ Follows(ops, o) /\ OneByOne(o) /\ AtOnce(o) /\ OpsTyped(o)
  BY <1>1, <1>2, FailedFacts
<1> HIDE DEF o
<1>4. Follows(o, p) /\ (~Web => p = o)
  BY <1>3, GivenUpFacts
<1>5. Follows(ops, p) /\ OneByOne(p) /\ AtOnce(p)
  BY <1>3, <1>4, FollowsKeeps, FollowsOver
<1>6. /\ s \in Readers(Nat) /\ s.buffer = reader.buffer /\ Waiting(o, s.waiters)
      /\ AllReading(ops, reader.waiters) => AllReading(o, s.waiters)
      /\ s.waiters # <<>> => reader.waiters # <<>>
  BY <1>2, <1>3, GivesUpFacts
<1>7. r = s \/ r = Cleared(s)
  BY DEF ToolTimeout
<1> HIDE DEF s, r
<1>8. r \in Readers(Nat) /\ r.waiters = s.waiters /\ (r.buffer = reader.buffer \/ r.buffer = <<>>)
  BY <1>6, <1>7, ClearedFacts
<1> HIDE DEF p
<1>9. ops' = p /\ session' \in Sessions /\ (reader' = r \/ reader' = Cleared(r))
  BY <1>1, <1>2, SessionType DEF Ended, p
<1>10. /\ reader' \in Readers(Nat) /\ reader'.waiters = s.waiters
       /\ reader'.buffer = reader.buffer \/ reader'.buffer = <<>>
  BY <1>8, <1>9, ClearedFacts
<1>11. Waiting(p, s.waiters)
  BY <1>4, <1>6, FollowsWaiting
<1>12. ~Web => AllReading(p, s.waiters)
  BY <1>4, <1>6 DEF LinkInv, Queueing
<1>13. ASSUME "stale" \notin trouble' PROVE AllReading(p, s.waiters)
  <2>1. ~Stale(p, r)
    BY <1>1, <1>13
  <2>2. DOMAIN s.waiters = 1 .. Len(s.waiters)
    BY <1>6, LenProperties DEF Waiting
  <2> QED
    BY <1>8, <2>1, <2>2 DEF Stale, AllReading
<1>14. ~Offline /\ reader'.waiters # <<>> => ~TryTake(reader').taken
  BY <1>6, <1>10, TakenByBytes, EmptyGivesNothing DEF LinkInv, Queueing
<1>15. Asked'
  BY <1>1, <1>2, <1>5, <1>9, AskedKeeps DEF LinkInv
<1>16. left' \in Lefts
  BY <1>1, LeftSpent DEF LinkInv, Typed, Lefts
<1>17. stale \subseteq {"stale"}
  OBVIOUS
<1> HIDE DEF stale
<1>18. trouble' \subseteq Troubles
  BY <1>1, <1>17 DEF LinkInv, Typed, Troubles
<1>19. line' \in Seq(Byte) /\ Len(ops') <= MaxOps
  BY <1>1, <1>2, <1>5, <1>9 DEF LinkInv, Typed, Follows
<1> QED
  BY <1>1, <1>5, <1>9, <1>10, <1>11, <1>12, <1>13, <1>14, <1>15, <1>16, <1>18, <1>19, LinkInvPrimed

\* The beginning of some bytes.
LEMMA BeginningOf ==
  ASSUME NEW b \in Seq(Byte), NEW n \in 0 .. Len(b)
  PROVE  SubSeq(b, 1, n) \in Seq(Byte)
<1>1. 1 \in Int /\ n \in Int /\ \A i \in 1 .. n : b[i] \in Byte
  BY LenProperties, ElementOfSeq
<1> QED
  BY <1>1, SubSeqProperties

\* A chunk arrives: the reader takes what frames it can and hands them on.
LEMMA DeliverKeeps ==
  ASSUME LinkInv, NEW n \in 1 .. Len(line), Deliver(n)
  PROVE  LinkInv'
<1> DEFINE b == reader.buffer \o SubSeq(line, 1, n)
           r == Fed(reader, b)
           f == IF Offline THEN OfflineExtract(r, reader.waiters[1]) ELSE Flush(r)
<1>1. /\ n < Len(line) => left.cut > 0
      /\ line' = SubSeq(line, n + 1, Len(line))
      /\ left' = IF n < Len(line) THEN [left EXCEPT !.cut = @ - 1] ELSE left
      /\ host' = host /\ requests' = requests
      /\ IF Offline /\ reader.waiters = <<>>
           THEN /\ trouble' = trouble \cup {"early"} /\ session' = session /\ ops' = ops /\ reader' = reader
           ELSE Hand(f.reader, f.frames)
  <2> USE DEF Fed
  <2> QED
    BY DEF Deliver
<1>2. /\ session \in Sessions /\ OneByOne(ops) /\ AtOnce(ops) /\ OpsTyped(ops) /\ IsTuple(ops)
      /\ Len(ops) <= MaxOps /\ line \in Seq(Byte) /\ reader \in Readers(Nat)
      /\ reader.buffer \in Seq(Byte) /\ left \in Lefts /\ trouble \subseteq Troubles
      /\ Waiting(ops, reader.waiters) /\ host \in Hosts
      /\ ~Web \/ "stale" \notin trouble => AllReading(ops, reader.waiters)
  BY DEF LinkInv, Typed, Queueing, OneByOne, OpsTyped, Lefts, Troubles, Readers
<1>3. line' \in Seq(Byte) /\ left' \in Lefts
  <2>1. n \in 0 .. Len(line)
    BY <1>2, LenProperties
  <2>2. line' \in Seq(Byte)
    BY <1>1, <1>2, <2>1, EndOf
  <2>3. left' \in Lefts
    BY <1>1, <1>2, LeftSpent
  <2> QED
    BY <2>2, <2>3
<1>4. b \in Seq(Byte)
  <2>1. n \in 0 .. Len(line)
    BY <1>2, LenProperties
  <2>2. SubSeq(line, 1, n) \in Seq(Byte)
    BY <1>2, <2>1, BeginningOf
  <2> QED
    BY <1>2, <2>2, ConcatProperties
<1> HIDE DEF b
<1>5. r \in Readers(Nat) /\ r.waiters = reader.waiters
  BY <1>2, <1>4, FedFacts
<1> HIDE DEF r
<1>6. CASE Offline /\ reader.waiters = <<>>
  <2>1. /\ trouble' = trouble \cup {"early"} /\ session' = session /\ ops' = ops /\ reader' = reader
    BY <1>1, <1>6
  <2>2. Asked'
    BY <1>1, <1>2, <2>1, FollowsSame, AskedKeeps DEF LinkInv
  <2>3. ~Offline /\ reader'.waiters # <<>> => ~TryTake(reader').taken
    BY <1>6
  <2>4. trouble' \subseteq Troubles
    BY <1>2, <2>1 DEF Troubles
  <2>5. ~Web \/ "stale" \notin trouble' => AllReading(ops', reader'.waiters)
    BY <1>2, <2>1
  <2> QED
    BY <1>1, <1>2, <1>3, <2>1, <2>2, <2>3, <2>4, <2>5, LinkInvPrimed
<1>7. CASE ~(Offline /\ reader.waiters = <<>>)
  <2>1. Hand(f.reader, f.frames)
    BY <1>1, <1>7
  <2>2. /\ IsTuple(f.frames) /\ f.reader \in Readers(Nat) /\ f.reader.waiters = r.waiters
        /\ ~Offline /\ Len(f.frames) < Len(r.waiters) => ~TryTake(f.reader).taken
    <3>1. CASE Offline
      <4> DEFINE i == reader.waiters[1]
      <4>1. f = OfflineExtract(r, i)
        BY <3>1
      <4> HIDE DEF i
      <4> QED
        BY <1>5, <3>1, <4>1, ExtractFacts
    <3>2. CASE ~Offline
      <4>1. f = Flush(r)
        BY <3>2
      <4> QED
        BY <1>5, <4>1, FlushFacts
    <3> QED
      BY <3>1, <3>2
  <2> DEFINE s == f.reader
             frames == f.frames
  <2>3. /\ s \in Readers(Nat) /\ IsTuple(frames) /\ Hand(s, frames) /\ Waiting(ops, s.waiters)
        /\ ~Web \/ "stale" \notin trouble => AllReading(ops, s.waiters)
        /\ ~Offline /\ Len(frames) < Len(s.waiters) => ~TryTake(s).taken
    BY <1>2, <1>5, <2>1, <2>2
  <2> HIDE DEF s, frames
  <2>4. /\ OneByOne(ops') /\ AtOnce(ops') /\ Follows(ops, ops') /\ session' \in Sessions
        /\ reader' \in Readers(Nat) /\ Waiting(ops', reader'.waiters)
        /\ ~Web \/ "stale" \notin trouble' => AllReading(ops', reader'.waiters)
        /\ ~Offline /\ reader'.waiters # <<>> => ~TryTake(reader').taken
        /\ \E new \in SUBSET {"early", "stale"} : trouble' = trouble \cup new
    BY <1>2, <2>3, HandKeeps
  <2>5. trouble' \subseteq Troubles
    BY <1>2, <2>4 DEF Troubles
  <2>6. Asked'
    BY <1>1, <1>2, <2>4, AskedKeeps DEF LinkInv
  <2>7. Len(ops') <= MaxOps
    BY <1>2, <2>4 DEF Follows
  <2> QED
    BY <1>1, <1>3, <2>4, <2>5, <2>6, <2>7, LinkInvPrimed
<1> QED
  BY <1>6, <1>7

\* What holds of the requests when the device has taken the first one.
LEMMA RequestTaken ==
  ASSUME LinkInv, requests # <<>>, requests' = Tail(requests), ops' = ops, host' = host
  PROVE  /\ Asked' /\ Looked + 1 \in 1 .. Len(ops) /\ Looked + 1 \in 1 .. MaxOps
         /\ ops[Looked + 1].kind \in Kinds
         /\ Head(requests) = Asks(ops[Looked + 1].kind, Looked + 1)
<1>1. /\ Len(ops) \in Nat /\ Len(requests) \in Nat \ {0} /\ Len(requests) <= Len(ops) /\ IsTuple(requests)
      /\ Len(ops) <= MaxOps /\ MaxOps \in Nat /\ \A i \in 1 .. Len(ops) : ops[i].kind \in Kinds
  BY TailTuple, LinkAssumption DEF LinkInv, Asked, Typed, IsTuple, OneByOne, OpsTyped, Shaped
<1>2. /\ Head(requests) = requests[1] /\ IsTuple(Tail(requests)) /\ Len(Tail(requests)) = Len(requests) - 1
      /\ \A i \in 1 .. Len(requests) - 1 : Tail(requests)[i] = requests[i + 1]
  BY <1>1, TailTuple
<1>3. \A kind, i : Asks(kind, i)' = Asks(kind, i)
  BY DEF Asks, Bytes, Web, HostFrame, BridgeFrame, RealtimeFrame, OfflineFrame
<1>4. Looked \in Nat /\ Looked' = Looked + 1 /\ Len(requests') = Len(requests) - 1 /\ Looked + Len(requests) = Len(ops)
  BY <1>1, <1>2 DEF Looked
<1>5. Looked + 1 \in 1 .. Len(ops) /\ Looked + 1 \in 1 .. MaxOps
  BY <1>1, <1>4
<1>6. ops[Looked + 1].kind \in Kinds
  BY <1>1, <1>5
<1>7. Head(requests) = Asks(ops[Looked + 1].kind, Looked + 1)
  <2>1. 1 \in 1 .. Len(requests)
    BY <1>1
  <2> QED
    BY <1>2, <2>1 DEF LinkInv, Asked
<1>8. ASSUME NEW k \in 1 .. Len(requests')
      PROVE  requests'[k] = Asks(ops'[Looked' + k].kind, Looked' + k)
  <2>1. /\ k + 1 \in 1 .. Len(requests) /\ k \in 1 .. Len(requests) - 1
        /\ Looked' + k = Looked + (k + 1)
    BY <1>1, <1>4
  <2>2. requests'[k] = requests[k + 1]
    BY <1>2, <2>1
  <2> DEFINE i == Looked + (k + 1)
  <2>3. requests[k + 1] = Asks(ops[i].kind, i)
    BY <2>1 DEF LinkInv, Asked
  <2> HIDE DEF i
  <2>4. Looked' + k = i
    BY <2>1 DEF i
  <2> QED
    BY <2>2, <2>3, <2>4
<1>9. IsTuple(requests') /\ Len(requests') <= Len(ops')
  BY <1>1, <1>2, <1>4
<1>10. Asked'
  BY <1>3, <1>8, <1>9 DEF Asked
<1> QED
  BY <1>5, <1>6, <1>7, <1>10

\* A step of the device or of the line leaves the operations and the reader alone.
LEMMA DeviceKeeps ==
  ASSUME LinkInv, host' = host, session' = session, ops' = ops, reader' = reader, line' \in Seq(Byte),
         left' \in Lefts, trouble' \subseteq Troubles, trouble \subseteq trouble', Asked'
  PROVE  LinkInv'
<1>1. /\ session \in Sessions /\ OneByOne(ops) /\ AtOnce(ops) /\ Len(ops) <= MaxOps
      /\ reader \in Readers(Nat) /\ Waiting(ops, reader.waiters)
      /\ ~Web \/ "stale" \notin trouble => AllReading(ops, reader.waiters)
      /\ ~Offline /\ reader.waiters # <<>> => ~TryTake(reader).taken
  BY DEF LinkInv, Typed, Queueing
<1>2. ~Web \/ "stale" \notin trouble' => AllReading(ops', reader'.waiters)
  BY <1>1
<1> QED
  BY <1>1, <1>2, LinkInvPrimed

\* What is said goes onto the line.
LEMMA SayKeeps ==
  ASSUME LinkInv, NEW i, NEW answer, NEW bytes \in Seq(Byte), Say(i, answer, bytes)
  PROVE  line' \in Seq(Byte)
<1>1. line \in Seq(Byte)
  BY DEF LinkInv, Typed
<1>2. Wrap(bytes) \in Seq(Byte)
  BY WrapFacts
<1>3. line' = line \o (IF Offline THEN bytes ELSE Wrap(bytes))
  BY DEF Say
<1> QED
  BY <1>1, <1>2, <1>3, ConcatProperties

\* The device answers: an exchange is answered with its samples, a command with an ack.
LEMMA AnswerKeeps ==
  ASSUME LinkInv, Answer
  PROVE  LinkInv'
<1> DEFINE q == Head(requests)
           i == Looked + 1
           kind == ops[i].kind
           word == IF ops[q.op].kind = "query" THEN 2 ELSE 0
<1>1. requests # <<>> /\ trouble' = trouble
  BY DEF Answer
<1>2. requests' = Tail(requests) /\ host' = host /\ session' = session /\ ops' = ops /\ reader' = reader
  BY DEF Answer, Say
<1>3. Asked' /\ i \in 1 .. MaxOps /\ kind \in Kinds /\ q = Asks(kind, i) /\ host \in Hosts
  BY <1>1, <1>2, RequestTaken DEF LinkInv, Typed
<1> HIDE DEF i
<1>4. q.op = i
  BY <1>3 DEF Asks
<1>5. left \in Lefts /\ trouble \subseteq Troubles
  BY DEF LinkInv, Typed, Lefts, Troubles
<1>6. CASE ops[q.op].kind = "exchange"
  <2>1. PICK s \in (IF Offline \/ left.bad = 0 THEN {OK} ELSE Statuses) :
           /\ Say(q.op, EchoOf(q, s),
                  IF Offline THEN OfflineBytes(EchoOf(q, s)) ELSE ResponseBytes(EchoOf(q, s)))
           /\ left' = IF s = OK THEN left ELSE [left EXCEPT !.bad = @ - 1]
    BY <1>6 DEF Answer
  <2>2. s \in Statuses
    BY DEF Statuses
  <2>3. kind = "exchange"
    BY <1>4, <1>6
  <2>4. (IF Offline THEN OfflineBytes(EchoOf(q, s)) ELSE ResponseBytes(EchoOf(q, s))) \in Seq(Byte)
    BY <1>3, <2>2, <2>3, AnswerFacts DEF Kinds
  <2>5. line' \in Seq(Byte)
    BY <2>1, <2>4, SayKeeps
  <2>6. s # OK => left.bad > 0
    <3>1. left.bad \in Nat
      BY <1>5 DEF Lefts
    <3> QED
      BY <2>1, <3>1
  <2>7. left' \in Lefts
    BY <1>5, <2>1, <2>6, LeftSpent
  <2> QED
    BY <1>1, <1>2, <1>3, <1>5, <2>5, <2>7, DeviceKeeps
<1>7. CASE ops[q.op].kind # "exchange"
  <2>1. Say(q.op, AckOf(q, word, OK), AckBytes(Heard(q).command, word, OK)) /\ left' = left
    BY <1>7 DEF Answer
  <2>2. word \in {0, 2} /\ OK \in {OK, NOT_ACTIVE}
    OBVIOUS
  <2> HIDE DEF word, kind
  <2>3. AckBytes(Heard(q).command, word, OK) \in Seq(Byte)
    BY <1>3, <2>2, AnswerFacts DEF Kinds
  <2>4. line' \in Seq(Byte)
    BY <2>1, <2>3, SayKeeps
  <2> QED
    BY <1>1, <1>2, <1>3, <1>5, <2>1, <2>4, DeviceKeeps
<1> QED
  BY <1>6, <1>7

\* The device refuses an exchange.
LEMMA RefuseKeeps ==
  ASSUME LinkInv, Refuse
  PROVE  LinkInv'
<1> DEFINE q == Head(requests)
           i == Looked + 1
           kind == ops[i].kind
<1>1. /\ requests # <<>> /\ trouble' = trouble /\ left.bad > 0 /\ left' = [left EXCEPT !.bad = @ - 1]
      /\ Say(q.op, AckOf(q, 0, NOT_ACTIVE), AckBytes(Heard(q).command, 0, NOT_ACTIVE))
  BY DEF Refuse
<1>2. requests' = Tail(requests) /\ host' = host /\ session' = session /\ ops' = ops /\ reader' = reader
  BY <1>1 DEF Say
<1>3. Asked' /\ i \in 1 .. MaxOps /\ kind \in Kinds /\ q = Asks(kind, i) /\ host \in Hosts
  BY <1>1, <1>2, RequestTaken DEF LinkInv, Typed
<1> HIDE DEF i, kind
<1>4. left \in Lefts /\ trouble \subseteq Troubles
  BY DEF LinkInv, Typed, Lefts, Troubles
<1>5. AckBytes(Heard(q).command, 0, NOT_ACTIVE) \in Seq(Byte)
  BY <1>3, AnswerFacts DEF Kinds
<1>6. line' \in Seq(Byte)
  BY <1>1, <1>5, SayKeeps
<1>7. left' \in Lefts
  BY <1>1, <1>4, LeftSpent
<1> QED
  BY <1>1, <1>2, <1>3, <1>4, <1>6, <1>7, DeviceKeeps

\* It says nothing to a request.
LEMMA SilentKeeps ==
  ASSUME LinkInv, Silent
  PROVE  LinkInv'
<1>1. /\ requests # <<>> /\ left.mishap > 0 /\ left' = [left EXCEPT !.mishap = @ - 1]
      /\ requests' = Tail(requests) /\ trouble' = trouble \cup {"silent"}
      /\ host' = host /\ session' = session /\ ops' = ops /\ line' = line /\ reader' = reader
  BY DEF Silent
<1>2. Asked'
  BY <1>1, RequestTaken
<1>3. left \in Lefts /\ trouble \subseteq Troubles /\ line \in Seq(Byte)
  BY DEF LinkInv, Typed, Lefts, Troubles
<1>4. left' \in Lefts /\ trouble' \subseteq Troubles
  BY <1>1, <1>3, LeftSpent DEF Troubles
<1> QED
  BY <1>1, <1>2, <1>3, <1>4, DeviceKeeps

\* A byte that belongs to no frame.
LEMMA NoiseKeeps ==
  ASSUME LinkInv, Noise
  PROVE  LinkInv'
<1>1. /\ left.mishap > 0 /\ left' = [left EXCEPT !.mishap = @ - 1] /\ line' = Append(line, 10)
      /\ trouble' = trouble \cup {"noise"}
      /\ host' = host /\ session' = session /\ ops' = ops /\ requests' = requests /\ reader' = reader
  BY DEF Noise
<1>2. left \in Lefts /\ trouble \subseteq Troubles /\ line \in Seq(Byte) /\ OneByOne(ops) /\ OpsTyped(ops)
  BY DEF LinkInv, Typed, Lefts, Troubles, OneByOne
<1>3. Asked'
  BY <1>1, <1>2, FollowsSame, AskedKeeps DEF LinkInv
<1>4. left' \in Lefts /\ trouble' \subseteq Troubles
  BY <1>1, <1>2, LeftSpent DEF Troubles
<1>5. line' \in Seq(Byte)
  <2>1. 10 \in Byte
    BY DEF Byte
  <2> QED
    BY <1>1, <1>2, <2>1, AppendProperties
<1> QED
  BY <1>1, <1>3, <1>4, <1>5, DeviceKeeps

\* The operations when one more has begun.
Begun(kind) == Append(ops, Op(kind, "writing"))

\* They are one after the other still, because of what MayBegin asks.
LEMMA BegunFacts ==
  ASSUME LinkInv, NEW kind \in Kinds, MayBegin(kind), NEW i, i = Len(ops) + 1, NEW o, o = Begun(kind)
  PROVE  /\ About(i, o) /\ OneByOne(o) /\ Len(o) = i /\ i \in Nat /\ o[i].kind = kind
         /\ \A j \in 1 .. Len(ops) : o[j] = ops[j]
         /\ ~(Web /\ kind = "exchange") => AtOnce(o)
<1> DEFINE op == Op(kind, "writing")
<1>1. /\ IsTuple(ops) /\ Len(ops) \in Nat /\ DOMAIN ops = 1 .. Len(ops) /\ AtOnce(ops)
      /\ \A j \in 1 .. Len(ops) : Shaped(ops[j])
      /\ LastOnly(ops) /\ Cardinality(Exchanges(ops)) <= 2
  BY TupleSeq DEF LinkInv, Typed, OneByOne, OpsTyped
<1>2. op.kind = kind /\ op.at = "writing" /\ op = [kind |-> kind, at |-> "writing", result |-> Nothing]
  BY DEF Op
<1>3. Shaped(op)
  BY <1>2 DEF Shaped, Ats, Op
<1> HIDE DEF op
<1>4. /\ IsTuple(o) /\ Len(o) = Len(ops) + 1 /\ o[Len(ops) + 1] = op
      /\ \A j \in 1 .. Len(ops) : o[j] = ops[j]
  BY <1>1, AppendTuple DEF Begun, op
<1>5. /\ i \in Nat /\ Len(o) = i /\ o[i] = op /\ i \in 1 .. Len(o)
      /\ \A j \in 1 .. Len(o) : j # i => j \in 1 .. Len(ops) /\ o[j] = ops[j]
  BY <1>1, <1>4
<1>6. OpsTyped(o)
  <2> SUFFICES ASSUME NEW j \in 1 .. Len(o) PROVE Shaped(o[j])
    BY <1>4 DEF OpsTyped
  <2>1. CASE j = i
    BY <1>3, <1>5, <2>1
  <2>2. CASE j # i
    BY <1>1, <1>5, <2>2
  <2> QED
    BY <2>1, <2>2
<1>7. /\ ~Web => Pending = {}
      /\ Web => Commands = {} /\ (kind = "exchange" => InFlight < 2)
  BY DEF MayBegin, WebMay, Kinds
<1>8. ASSUME NEW j \in 1 .. Len(ops), Going(ops[j]) PROVE Web /\ ops[j].kind = "exchange"
  <2>1. j \in Pending
    BY <1>1, <1>8 DEF Pending, Going
  <2>2. Web
    BY <1>7, <2>1
  <2>3. j \notin Commands
    BY <1>7, <2>2
  <2> QED
    BY <2>1, <2>2, <2>3 DEF Commands
<1>9. LastOnly(o)
  <2> SUFFICES ASSUME NEW j \in 1 .. Len(o), Going(o[j]), ~Web \/ o[j].kind # "exchange", j # i PROVE FALSE
    BY <1>5 DEF LastOnly
  <2>1. j \in 1 .. Len(ops) /\ o[j] = ops[j]
    BY <1>5
  <2> QED
    BY <1>8, <2>1
<1>10. Exchanges(ops) = Pending \ Commands
  BY <1>1 DEF Exchanges, Pending, Commands, Going
<1>11. IsFiniteSet(Exchanges(ops)) /\ Cardinality(Exchanges(ops)) \in Nat
  BY <1>1, ExchangesFinite
<1>12. Cardinality(Exchanges(o)) <= 2
  <2>1. CASE kind # "exchange"
    <3>1. i \notin Exchanges(o)
      BY <1>2, <1>5, <2>1 DEF Exchanges
    <3>2. Exchanges(o) = Exchanges(ops)
      BY <1>1, <1>4, <1>5, <3>1 DEF Exchanges
    <3> QED
      BY <1>1, <3>2
  <2>2. CASE kind = "exchange"
    <3>1. Cardinality(Exchanges(ops)) < 2
      <4>1. CASE Web
        BY <1>7, <1>10, <2>2, <4>1 DEF InFlight
      <4>2. CASE ~Web
        <5>1. Exchanges(ops) = {}
          BY <1>7, <1>10, <4>2 DEF Commands
        <5> QED
          BY <5>1, FS_EmptySet
      <4> QED
        BY <4>1, <4>2
    <3>2. i \notin Exchanges(ops) /\ Exchanges(o) = Exchanges(ops) \cup {i}
      BY <1>1, <1>2, <1>4, <1>5, <2>2 DEF Exchanges, Going
    <3>3. Cardinality(Exchanges(ops) \cup {i}) = Cardinality(Exchanges(ops)) + 1
      BY <1>11, <3>2, FS_AddElement
    <3> QED
      BY <1>11, <3>1, <3>2, <3>3
  <2> QED
    BY <2>1, <2>2
<1>13. OneByOne(o)
  BY <1>6, <1>9, <1>12 DEF OneByOne
<1>14. About(i, o)
  <2> SUFFICES ASSUME NEW j \in 1 .. Len(o), j # i
               PROVE  j \in DOMAIN ops /\ ops[j] = o[j] /\ (Web /\ o[j].kind = "exchange" => o[j].at # "writing")
    BY <1>2, <1>5, <1>13 DEF About
  <2>1. j \in 1 .. Len(ops) /\ o[j] = ops[j]
    BY <1>5
  <2> QED
    BY <1>1, <2>1 DEF AtOnce
<1>15. ASSUME ~(Web /\ kind = "exchange") PROVE AtOnce(o)
  <2> SUFFICES ASSUME NEW j \in 1 .. Len(o), Web, o[j].kind = "exchange" PROVE o[j].at # "writing"
    BY DEF AtOnce
  <2>1. j # i
    BY <1>2, <1>5, <1>15
  <2> QED
    BY <1>14, <2>1 DEF About
<1> QED
  BY <1>2, <1>4, <1>5, <1>13, <1>14, <1>15

\* Who waits stays as it is: it does not know of the new operation.
LEMMA BegunWaiting ==
  ASSUME NEW o, IsTuple(o), NEW p, Len(p) = Len(o) + 1, \A j \in 1 .. Len(o) : p[j] = o[j],
         NEW w, Waiting(o, w)
  PROVE  /\ Waiting(p, w) /\ (AllReading(o, w) => AllReading(p, w))
         /\ \A k \in 1 .. Len(w) : w[k] < Len(p)
<1>1. Len(o) \in Nat /\ w \in Seq(1 .. Len(o)) /\ Rising(w)
  BY DEF IsTuple, Waiting
<1>2. w \in Seq(1 .. Len(p))
  <2>1. (1 .. Len(o)) \subseteq (1 .. Len(p))
    BY <1>1
  <2> QED
    BY <1>1, <2>1, SeqMonotonic
<1>3. \A k \in 1 .. Len(w) : w[k] \in 1 .. Len(o) /\ p[w[k]] = o[w[k]]
  BY <1>1, ElementOfSeq
<1>4. NoneWriting(p, w) /\ (AllReading(o, w) => AllReading(p, w))
  BY <1>3 DEF Waiting, NoneWriting, AllReading
<1>5. \A k \in 1 .. Len(w) : w[k] < Len(p)
  BY <1>1, <1>3
<1> QED
  BY <1>1, <1>2, <1>4, <1>5 DEF Waiting

\* What has been asked for, with the new request behind the others.
LEMMA BegunAsked ==
  ASSUME LinkInv, NEW kind \in Kinds, NEW i, i = Len(ops) + 1,
         IsTuple(ops'), Len(ops') = i, ops'[i].kind = kind,
         \A j \in 1 .. Len(ops) : ops'[j].kind = ops[j].kind,
         requests' = Append(requests, Asks(kind, i)), host' = host
  PROVE  Asked'
<1>1. /\ Len(ops) \in Nat /\ Len(requests) \in Nat /\ Len(requests) <= Len(ops) /\ IsTuple(requests)
  BY DEF LinkInv, Asked, Typed, IsTuple, OneByOne, OpsTyped
<1>2. \A k, j : Asks(k, j)' = Asks(k, j)
  BY DEF Asks, Bytes, Web, HostFrame, BridgeFrame, RealtimeFrame, OfflineFrame
<1> DEFINE q == Asks(kind, i)
<1> HIDE DEF q
<1>3. /\ IsTuple(requests') /\ Len(requests') = Len(requests) + 1
      /\ \A k \in 1 .. Len(requests) : requests'[k] = requests[k]
      /\ requests'[Len(requests) + 1] = q
  BY <1>1, AppendTuple DEF q
<1>4. Looked \in Nat /\ Looked' = Looked /\ Looked + Len(requests) = Len(ops)
  BY <1>1, <1>3 DEF Looked
<1>5. ASSUME NEW k \in 1 .. Len(requests')
      PROVE  requests'[k] = Asks(ops'[Looked' + k].kind, Looked' + k)
  <2>1. CASE k = Len(requests) + 1
    <3>1. Looked' + k = i
      BY <1>1, <1>4, <2>1
    <3> QED
      BY <1>3, <2>1, <3>1 DEF q
  <2>2. CASE k # Len(requests) + 1
    <3>1. k \in 1 .. Len(requests)
      BY <1>1, <1>3, <2>2
    <3> DEFINE j == Looked + k
    <3>2. requests[k] = Asks(ops[j].kind, j) /\ j \in 1 .. Len(ops)
      BY <1>1, <1>4, <3>1 DEF LinkInv, Asked
    <3> HIDE DEF j
    <3>3. ops'[j].kind = ops[j].kind /\ Looked' + k = j
      BY <1>4, <3>2 DEF j
    <3> QED
      BY <1>3, <3>1, <3>2, <3>3
  <2> QED
    BY <2>1, <2>2
<1>6. Len(requests') <= Len(ops')
  BY <1>1, <1>3
<1> QED
  BY <1>2, <1>3, <1>5, <1>6 DEF Asked

\* A command or an exchange begins.
LEMMA BeginKeeps ==
  ASSUME LinkInv, NEW kind \in Kinds, Begin(kind)
  PROVE  LinkInv'
<1> DEFINE i == Len(ops) + 1
           o == Begun(kind)
<1>1. /\ MayBegin(kind) /\ Len(ops) < MaxOps /\ requests' = Append(requests, Asks(kind, i))
      /\ host' = host /\ line' = line /\ left' = left /\ trouble' = trouble
      /\ IF Web /\ kind = "exchange" THEN ReadFrame(i, o, reader)
         ELSE /\ ops' = o /\ session' = session
              /\ reader' = IF kind = "enter" THEN Cleared(reader) ELSE reader
  <2> USE DEF Begun, Asks
  <2> QED
    BY DEF Begin
<1>2. /\ host \in Hosts /\ session \in Sessions /\ IsTuple(ops) /\ Len(ops) \in Nat
      /\ reader \in Readers(Nat) /\ Waiting(ops, reader.waiters)
      /\ ~Web \/ "stale" \notin trouble => AllReading(ops, reader.waiters)
      /\ ~Offline /\ reader.waiters # <<>> => ~TryTake(reader).taken
      /\ line' \in Seq(Byte) /\ left' \in Lefts /\ trouble' \subseteq Troubles
  BY <1>1 DEF LinkInv, Typed, Queueing, OneByOne, OpsTyped, IsTuple, Lefts, Troubles
<1> HIDE DEF o
<1>3. /\ About(i, o) /\ OneByOne(o) /\ Len(o) = i /\ i \in Nat /\ o[i].kind = kind
      /\ \A j \in 1 .. Len(ops) : o[j] = ops[j]
      /\ ~(Web /\ kind = "exchange") => AtOnce(o)
  BY <1>1, BegunFacts DEF o
<1> DEFINE w == reader.waiters
<1>4. /\ Waiting(o, w) /\ (AllReading(ops, w) => AllReading(o, w))
      /\ \A k \in 1 .. Len(w) : w[k] < i
  BY <1>2, <1>3, BegunWaiting
<1>5. Served(o, reader)
  BY <1>2, <1>4 DEF Served
<1>6. i <= MaxOps
  BY <1>1, <1>2, LinkAssumption
<1>7. CASE Web /\ kind = "exchange"
  <2>1. ReadFrame(i, o, reader)
    BY <1>1, <1>7
  <2> HIDE DEF i
  <2>2. /\ OneByOne(ops') /\ AtOnce(ops') /\ Follows(o, ops') /\ session' \in Sessions
        /\ Served(ops', reader')
    BY <1>2, <1>3, <1>4, <1>5, <2>1, ReadFrameKeeps
  <2>3. /\ IsTuple(ops') /\ Len(ops') = i /\ ops'[i].kind = kind
        /\ \A j \in 1 .. Len(o) : ops'[j].kind = o[j].kind
    BY <1>3, <2>2 DEF Follows, About
  <2>4. \A j \in 1 .. Len(ops) : ops'[j].kind = ops[j].kind
    BY <1>2, <1>3, <2>3 DEF i
  <2>5. Asked'
    BY <1>1, <2>3, <2>4, BegunAsked DEF i
  <2> QED
    BY <1>1, <1>2, <1>6, <2>2, <2>3, <2>5, LinkInvPrimed DEF Served
<1>8. CASE ~(Web /\ kind = "exchange")
  <2>1. /\ ops' = o /\ session' = session
        /\ reader' = reader \/ reader' = Cleared(reader)
    BY <1>1, <1>8
  <2>2. /\ reader' \in Readers(Nat) /\ reader'.waiters = w
        /\ reader'.buffer = reader.buffer \/ reader'.buffer = <<>>
    BY <1>2, <2>1, ClearedFacts
  <2>3. ~Offline /\ reader'.waiters # <<>> => ~TryTake(reader').taken
    BY <1>2, <2>2, TakenByBytes, EmptyGivesNothing
  <2>4. IsTuple(o) /\ AtOnce(o)
    BY <1>3, <1>8 DEF OneByOne, OpsTyped
  <2>5. Asked'
    BY <1>1, <1>3, <2>1, <2>4, BegunAsked
  <2>6. ~Web \/ "stale" \notin trouble' => AllReading(ops', reader'.waiters)
    BY <1>1, <1>2, <1>4, <2>1, <2>2
  <2> QED
    BY <1>1, <1>2, <1>3, <1>4, <1>6, <2>1, <2>2, <2>3, <2>4, <2>5, <2>6, LinkInvPrimed
<1> QED
  BY <1>7, <1>8

\* Waiters that all read are at most one more than the exchanges among them, and those are
\* exchanges under way: the others can only be the last operation.
LEMMA FewWait ==
  ASSUME NEW o, OneByOne(o), NEW w, Waiting(o, w), AllReading(o, w)
  PROVE  LET K == {k \in DOMAIN w : o[w[k]].kind = "exchange"}
         IN  /\ Cardinality(K) <= 2 /\ (Web => Len(w) <= 3) /\ (~Web => Len(w) <= 1)
<1> DEFINE K == {k \in DOMAIN w : o[w[k]].kind = "exchange"}
           E == Exchanges(o)
           n == Len(w)
<1>1. /\ Len(o) \in Nat /\ w \in Seq(1 .. Len(o)) /\ n \in Nat /\ DOMAIN w = 1 .. n
      /\ \A k \in 1 .. n : w[k] \in 1 .. Len(o) /\ o[w[k]].at = "reading"
      /\ \A j, k \in 1 .. n : j < k => w[j] < w[k]
  BY LenProperties, ElementOfSeq DEF OneByOne, OpsTyped, IsTuple, Waiting, Rising, AllReading
<1> HIDE DEF n
<1>2. IsFiniteSet(E) /\ Cardinality(E) \in Nat /\ Cardinality(E) <= 2
  BY ExchangesFinite DEF OneByOne, OpsTyped
<1>3. K \in SUBSET (1 .. n) /\ IsFiniteSet(K) /\ Cardinality(K) \in Nat
  <2>1. K \in SUBSET (1 .. n) /\ IsFiniteSet(1 .. n)
    BY <1>1, FS_Interval
  <2> HIDE DEF K
  <2> QED
    BY <2>1, FS_Subset, FS_CardinalityType
<1>4. Cardinality(K) <= Cardinality(E)
  <2> DEFINE f == [k \in K |-> w[k]]
  <2>1. ASSUME NEW k \in K PROVE w[k] \in E
    BY <1>1 DEF Exchanges, Going
  <2>2. ASSUME NEW j \in K, NEW k \in K, w[j] = w[k] PROVE j = k
    <3>1. j \in 1 .. n /\ k \in 1 .. n /\ w[j] \in Nat
      BY <1>1
    <3>2. ~(j < k) /\ ~(k < j)
      BY <1>1, <2>2, <3>1
    <3> QED
      BY <1>1, <3>1, <3>2
  <2> HIDE DEF K, E
  <2>3. f \in Injection(K, E)
    BY <2>1, <2>2 DEF Injection, IsInjective
  <2> HIDE DEF f
  <2> QED
    BY <1>2, <2>3, FS_Injection
<1>5. Cardinality(K) <= 2
  BY <1>2, <1>3, <1>4
<1>6. ASSUME NEW k \in 1 .. n, ~Web \/ k \notin K PROVE k = n
  <2>1. w[k] = Len(o)
    BY <1>1, <1>6 DEF OneByOne, LastOnly, Going
  <2>2. CASE k < n
    <3>1. n \in 1 .. n
      BY <1>1
    <3>2. w[k] < w[n] /\ w[n] \in 1 .. Len(o)
      BY <1>1, <2>2, <3>1
    <3> QED
      BY <1>1, <2>1, <3>2
  <2> QED
    BY <1>1, <2>2
<1>7. ASSUME ~Web PROVE n <= 1
  <2>1. CASE n > 1
    <3>1. 1 \in 1 .. n
      BY <1>1, <2>1
    <3> QED
      BY <1>6, <1>7, <2>1, <3>1
  <2> QED
    BY <1>1, <2>1
<1>8. n <= 3
  <2> DEFINE m == n - 1
  <2>1. m \in Int /\ n = m + 1
    BY <1>1
  <2>2. ASSUME NEW k \in 1 .. m PROVE k \in K
    <3>1. k \in 1 .. n /\ k # n
      BY <1>1
    <3> QED
      BY <1>6, <3>1
  <2> HIDE DEF m, K
  <2>3. (1 .. m) \in SUBSET K
    BY <2>2
  <2>4. Cardinality(1 .. m) <= Cardinality(K)
    BY <1>3, <2>3, FS_Subset
  <2>5. Cardinality(1 .. m) = IF 1 > m THEN 0 ELSE m - 1 + 1
    BY <2>1, FS_Interval
  <2> QED
    BY <1>3, <1>5, <2>1, <2>4, <2>5
<1> QED
  BY <1>5, <1>7, <1>8 DEF n

\* What the type invariant says follows.
LEMMA LinkInvTypes ==
  ASSUME LinkInv
  PROVE  TypeOK
<1> DEFINE w == reader.waiters
           K == {k \in DOMAIN w : ops[w[k]].kind = "exchange"}
<1>1. /\ IsTuple(ops) /\ Len(ops) \in Nat /\ DOMAIN ops = 1 .. Len(ops) /\ Len(ops) <= MaxOps
      /\ \A i \in 1 .. Len(ops) : Shaped(ops[i])
      /\ OneByOne(ops) /\ Waiting(ops, w) /\ reader \in Readers(Nat) /\ host \in Hosts
  BY TupleSeq DEF LinkInv, Typed, Queueing, OneByOne, OpsTyped
<1>2. \A k \in DOMAIN w : w[k] \in DOMAIN ops
  <2>1. w \in Seq(1 .. Len(ops)) /\ DOMAIN w = 1 .. Len(w)
    BY <1>1, LenProperties DEF Waiting
  <2> QED
    BY <1>1, <2>1, ElementOfSeq
<1>3. ASSUME "stale" \notin trouble
      PROVE  Len(w) <= (IF host = "webserial" THEN 3 ELSE 1) /\ Cardinality(K) <= 2
  <2>1. AllReading(ops, w)
    BY <1>3 DEF LinkInv, Queueing
  <2>2. Cardinality(K) <= 2 /\ (Web => Len(w) <= 3) /\ (~Web => Len(w) <= 1)
    BY <1>1, <2>1, FewWait
  <2> HIDE DEF w, K
  <2> QED
    BY <2>2 DEF Web
<1>4. \A i \in DOMAIN ops : ops[i].kind \in {"enter", "query", "exchange", "exit"}
                             /\ ops[i].at \in {"writing", "reading", "done", "failed"}
  BY <1>1 DEF Shaped, Kinds, Ats
<1>5. /\ session \in {"closed", "entered", "active", "lost", "over"}
      /\ line \in Seq(0 .. 255)
      /\ left \in [mishap : 0 .. Mishaps, cut : 0 .. Cuts, late : 0 .. Lates, bad : 0 .. Bads]
      /\ trouble \subseteq {"noise", "silent", "early", "late", "stale"}
  BY DEF LinkInv, Typed, Sessions, Byte
<1>6. reader.buffer \in Seq(0 .. 255) /\ reader.address \in Nat
  BY <1>1 DEF Readers, Byte
<1> QED
  BY <1>1, <1>2, <1>3, <1>4, <1>5, <1>6 DEF TypeOK

\* It holds at the start.
LEMMA LinkInvInit ==
  ASSUME Init
  PROVE  LinkInv
<1>1. /\ host \in Hosts /\ session = "closed" /\ ops = <<>> /\ requests = <<>>
      /\ line = <<>> /\ reader = [buffer |-> <<>>, address |-> 0, waiters |-> <<>>]
      /\ left = [mishap |-> Mishaps, cut |-> Cuts, late |-> Lates, bad |-> Bads]
      /\ trouble = {}
  BY DEF Init
<1>2. IsTuple(<<>>) /\ Len(<<>>) = 0
  BY DEF IsTuple
<1>3. Mishaps \in Nat /\ Cuts \in Nat /\ Lates \in Nat /\ Bads \in Nat /\ MaxOps \in Nat
  BY LinkAssumption
<1>4. OneByOne(ops)
  <2>1. Exchanges(ops) = {}
    BY <1>1, <1>2 DEF Exchanges
  <2>2. Cardinality(Exchanges(ops)) = 0
    BY <2>1, FS_EmptySet
  <2> QED
    BY <1>1, <1>2, <2>2 DEF OneByOne, OpsTyped, LastOnly
<1>5. AtOnce(ops) /\ Len(ops) <= MaxOps
  BY <1>1, <1>2, <1>3 DEF AtOnce
<1>6. left \in [mishap : 0 .. Mishaps, cut : 0 .. Cuts, late : 0 .. Lates, bad : 0 .. Bads]
  BY <1>1, <1>3
<1>7. reader \in Readers(Nat) /\ reader.waiters = <<>>
  BY <1>1 DEF Readers
<1>8. Typed
  BY <1>1, <1>4, <1>5, <1>6, <1>7 DEF Typed, Sessions
<1>9. Queueing
  <2>1. Waiting(ops, <<>>) /\ AllReading(ops, <<>>)
    BY DEF Waiting, Rising, NoneWriting, AllReading
  <2> QED
    BY <1>7, <2>1 DEF Queueing
<1>10. Asked
  BY <1>1, <1>2 DEF Asked
<1> QED
  BY <1>8, <1>9, <1>10 DEF LinkInv

\* Every step keeps it.
LEMMA LinkInvNext ==
  ASSUME LinkInv, [Next]_vars
  PROVE  LinkInv'
<1>1. CASE UNCHANGED vars
  <2>1. /\ host' = host /\ session' = session /\ ops' = ops /\ requests' = requests /\ line' = line
        /\ left' = left /\ trouble' = trouble /\ reader' = reader
    BY <1>1 DEF vars
  <2>2. OneByOne(ops) /\ OpsTyped(ops)
    BY DEF LinkInv, Typed, OneByOne
  <2>3. Asked'
    BY <2>1, <2>2, FollowsSame, AskedKeeps DEF LinkInv
  <2>4. line \in Seq(Byte) /\ left \in Lefts /\ trouble \subseteq Troubles
    BY DEF LinkInv, Typed, Lefts, Troubles
  <2> QED
    BY <2>1, <2>3, <2>4, DeviceKeeps
<1>2. CASE \E kind \in Kinds : Begin(kind)
  BY <1>2, BeginKeeps
<1>3. CASE \E i \in DOMAIN ops : Written(i) \/ Timeout(i) \/ StaleTimeout(i)
  BY <1>3, WrittenKeeps, TimeoutKeeps, StaleTimeoutKeeps
<1>4. CASE \E n \in 1 .. Len(line) : Deliver(n)
  BY <1>4, DeliverKeeps
<1>5. CASE Answer \/ Refuse \/ Silent \/ Noise
  BY <1>5, AnswerKeeps, RefuseKeeps, SilentKeeps, NoiseKeeps
<1> QED
  BY <1>1, <1>2, <1>3, <1>4, <1>5 DEF Next, Kinds

\* Types, byte for byte, of any number of operations: Web Serial never has more than three reads
\* waiting, two of them exchanges, and the tools never more than one, until a read gave up.
THEOREM LinkTypes == Spec => []TypeOK
<1>1. Init => LinkInv
  BY LinkInvInit
<1>2. LinkInv /\ [Next]_vars => LinkInv'
  BY LinkInvNext
<1>3. LinkInv => TypeOK
  BY LinkInvTypes
<1> QED
  BY <1>1, <1>2, <1>3, PTL DEF Spec

-----------------------------------------------------------------------------
(***************************************************************************)
(* Pieces that are put together, one behind the other.                     *)
(***************************************************************************)
Pieces(F) == IsTuple(F) /\ \A i \in 1 .. Len(F) : F[i] \in Seq(Byte)
IsJoin(g, F, m) == g = [i \in 1 .. m |-> IF i = 1 THEN F[i] ELSE g[i - 1] \o F[i]]

\* What FlattenSeq chooses exists.
LEMMA JoinExists ==
  ASSUME NEW F, NEW n \in Nat
  PROVE  \E g : IsJoin(g, F, n)
<1> DEFINE T == {m \in 0 .. n : \E g : IsJoin(g, F, m)}
<1>1. 0 \in T
  <2> DEFINE g == [i \in 1 .. 0 |-> <<>>]
             h == [i \in 1 .. 0 |-> IF i = 1 THEN F[i] ELSE g[i - 1] \o F[i]]
  <2>1. g = h
    OBVIOUS
  <2>2. IsJoin(g, F, 0)
    BY <2>1 DEF IsJoin
  <2> QED
    BY <2>2
<1>2. ASSUME NEW m \in 0 .. n - 1, m \in T PROVE m + 1 \in T
  <2>1. PICK f : IsJoin(f, F, m)
    BY <1>2
  <2> DEFINE e == IF m + 1 = 1 THEN F[m + 1] ELSE f[m] \o F[m + 1]
             g == [i \in 1 .. m + 1 |-> IF i <= m THEN f[i] ELSE e]
             h == [i \in 1 .. m + 1 |-> IF i = 1 THEN F[i] ELSE g[i - 1] \o F[i]]
  <2>2. \A i \in 1 .. m : f[i] = IF i = 1 THEN F[i] ELSE f[i - 1] \o F[i]
    <3>1. f = [i \in 1 .. m |-> IF i = 1 THEN F[i] ELSE f[i - 1] \o F[i]]
      BY <2>1 DEF IsJoin
    <3> QED
      BY <3>1
  <2>3. ASSUME NEW i \in 1 .. m + 1 PROVE g[i] = h[i]
    <3>1. CASE i = 1 /\ i <= m
      <4>1. i \in 1 .. m /\ g[i] = f[i] /\ h[i] = F[i]
        BY <3>1
      <4> QED
        BY <2>2, <3>1, <4>1
    <3>2. CASE i # 1 /\ i <= m
      <4>1. i \in 1 .. m /\ i - 1 \in 1 .. m + 1 /\ i - 1 <= m
        BY <3>2
      <4>2. g[i - 1] = f[i - 1] /\ g[i] = f[i] /\ h[i] = g[i - 1] \o F[i]
        BY <3>2, <4>1
      <4> QED
        BY <2>2, <3>2, <4>1, <4>2
    <3>3. CASE ~(i <= m) /\ m + 1 = 1
      <4>1. i = m + 1 /\ i = 1
        BY <3>3
      <4>2. g[i] = e /\ h[i] = F[i]
        BY <3>3, <4>1
      <4> QED
        BY <3>3, <4>1, <4>2
    <3>4. CASE ~(i <= m) /\ m + 1 # 1
      <4>1. i = m + 1 /\ i # 1 /\ i - 1 = m /\ m \in 1 .. m + 1 /\ m <= m
        BY <3>4
      <4>2. g[i] = e /\ g[m] = f[m] /\ h[i] = g[i - 1] \o F[i]
        BY <3>4, <4>1
      <4> QED
        BY <3>4, <4>1, <4>2
    <3> QED
      BY <3>1, <3>2, <3>3, <3>4
  <2>4. g = h
    <3> HIDE DEF e
    <3> QED
      BY <2>3
  <2>5. IsJoin(g, F, m + 1)
    BY <2>4 DEF IsJoin
  <2>6. m + 1 \in 0 .. n
    OBVIOUS
  <2> QED
    BY <2>5, <2>6
<1>3. n \in 0 .. n
  OBVIOUS
<1> HIDE DEF T
<1>4. n \in T
  BY <1>1, <1>2, <1>3, UpTo
<1> QED
  BY <1>4 DEF T

\* The pieces put together, one after the other.
LEMMA FlattenUnfold ==
  ASSUME NEW F, Pieces(F)
  PROVE  \E g : /\ FlattenSeq(F) = g[Len(F)] /\ g[0] = <<>>
                /\ \A k \in 0 .. Len(F) : g[k] \in Seq(Byte)
                /\ \A k \in 0 .. Len(F) - 1 : g[k + 1] = g[k] \o F[k + 1]
<1> DEFINE n == Len(F)
           f == CHOOSE h : IsJoin(h, F, n)
           g == [k \in 0 .. n |-> IF k = 0 THEN <<>> ELSE f[k]]
<1>1. n \in Nat /\ \A i \in 1 .. n : F[i] \in Seq(Byte)
  BY DEF Pieces, IsTuple
<1>2. FlattenSeq(F) = IF n = 0 THEN F ELSE f[n]
  BY DEF FlattenSeq, IsJoin
<1>3. n = 0 => F = <<>>
  <2>1. PICK S : F \in Seq(S)
    BY TupleSeq DEF Pieces
  <2> QED
    BY <2>1, EmptySeq
<1> HIDE DEF n
<1>4. IsJoin(f, F, n)
  BY <1>1, JoinExists
<1> HIDE DEF f
<1>5. \A i \in 1 .. n : f[i] = IF i = 1 THEN F[i] ELSE f[i - 1] \o F[i]
  <2>1. f = [i \in 1 .. n |-> IF i = 1 THEN F[i] ELSE f[i - 1] \o F[i]]
    BY <1>4 DEF IsJoin
  <2> QED
    BY <2>1
<1>6. \A k \in 0 .. n : g[k] = IF k = 0 THEN <<>> ELSE f[k]
  OBVIOUS
<1> HIDE DEF g
<1>7. ASSUME NEW k \in 0 .. n - 1 PROVE g[k + 1] = g[k] \o F[k + 1]
  <2>1. k + 1 \in 1 .. n /\ k + 1 \in 0 .. n /\ k \in 0 .. n /\ (k + 1) - 1 = k /\ k + 1 # 0
    BY <1>1
  <2>2. g[k + 1] = f[k + 1]
    BY <1>6, <2>1
  <2>3. CASE k = 0
    <3>1. f[k + 1] = F[k + 1] /\ g[k] = <<>>
      BY <1>5, <1>6, <2>1, <2>3
    <3>2. <<>> \o F[k + 1] = F[k + 1]
      BY <1>1, <2>1, ConcatEmptySeq
    <3> QED
      BY <2>2, <3>1, <3>2
  <2>4. CASE k # 0
    <3>1. g[k] = f[k]
      BY <1>6, <2>1, <2>4
    <3> DEFINE i == k + 1
    <3>2. i \in 1 .. n /\ i # 1 /\ i - 1 = k
      BY <2>1, <2>4
    <3> HIDE DEF i
    <3>3. f[i] = f[i - 1] \o F[i]
      BY <1>5, <3>2
    <3>4. f[i] = f[k] \o F[i]
      BY <3>2, <3>3
    <3> QED
      BY <2>2, <3>1, <3>4 DEF i
  <2> QED
    BY <2>3, <2>4
<1>8. \A k \in 0 .. n : g[k] \in Seq(Byte)
  <2> DEFINE T == {k \in 0 .. n : g[k] \in Seq(Byte)}
  <2>1. 0 \in T
    <3>1. g[0] = <<>> /\ 0 \in 0 .. n /\ <<>> \in Seq(Byte)
      BY <1>1, <1>6
    <3>2. g[0] \in Seq(Byte)
      BY <3>1
    <3> QED
      BY <3>1, <3>2
  <2>2. ASSUME NEW k \in 0 .. n - 1, k \in T PROVE k + 1 \in T
    <3>1. k + 1 \in 1 .. n /\ k + 1 \in 0 .. n /\ g[k] \in Seq(Byte)
      BY <1>1, <2>2
    <3>2. g[k] \o F[k + 1] \in Seq(Byte)
      BY <1>1, <3>1, ConcatProperties
    <3> QED
      BY <1>7, <3>1, <3>2
  <2> HIDE DEF T
  <2>3. \A k \in 0 .. n : k \in T
    BY <1>1, <2>1, <2>2, UpTo
  <2> QED
    BY <2>3 DEF T
<1>9. FlattenSeq(F) = g[n] /\ g[0] = <<>>
  <2>1. n \in 0 .. n /\ 0 \in 0 .. n
    BY <1>1
  <2> QED
    BY <1>2, <1>3, <1>6, <2>1
<1> QED
  BY <1>7, <1>8, <1>9 DEF n

\* Pieces put together are bytes; pieces that are empty come to nothing.
LEMMA FlattenTyped ==
  ASSUME NEW F, Pieces(F)
  PROVE  /\ FlattenSeq(F) \in Seq(Byte)
         /\ (\A i \in 1 .. Len(F) : F[i] = <<>>) => FlattenSeq(F) = <<>>
<1> DEFINE n == Len(F)
<1>1. n \in Nat /\ n \in 0 .. n
  BY DEF Pieces, IsTuple
<1>2. PICK g : /\ FlattenSeq(F) = g[n] /\ g[0] = <<>>
               /\ \A k \in 0 .. n : g[k] \in Seq(Byte)
               /\ \A k \in 0 .. n - 1 : g[k + 1] = g[k] \o F[k + 1]
  BY FlattenUnfold
<1> HIDE DEF n
<1>3. ASSUME \A i \in 1 .. n : F[i] = <<>> PROVE g[n] = <<>>
  <2> DEFINE T == {k \in 0 .. n : g[k] = <<>>}
  <2>1. 0 \in T
    BY <1>1, <1>2
  <2>2. ASSUME NEW k \in 0 .. n - 1, k \in T PROVE k + 1 \in T
    <3>1. k + 1 \in 1 .. n /\ k + 1 \in 0 .. n /\ g[k] = <<>> /\ F[k + 1] = <<>>
      BY <1>1, <1>3, <2>2
    <3>2. g[k + 1] = <<>> \o <<>>
      BY <1>2, <3>1
    <3>3. <<>> \o <<>> = <<>>
      BY ConcatEmptySeq
    <3> QED
      BY <3>1, <3>2, <3>3
  <2> HIDE DEF T
  <2>3. n \in T
    BY <1>1, <2>1, <2>2, UpTo
  <2> QED
    BY <2>3 DEF T
<1> QED
  BY <1>1, <1>2, <1>3 DEF n

\* What two rows of pieces come to when one has a piece that the other has not, up to the k-th:
\* the first that is not empty, or the last.
FirstAt(g, h, b, j, k) == IF k < j THEN g[k] = <<>> /\ h[k] = <<>> ELSE g[k] = b \o h[k]
LastAt(g, h, b, j, k) == IF k < j THEN h[k] = g[k] ELSE h[k] = g[k] \o b

\* How three strings of bytes are put together makes no difference.
Associates(s, t, u) == (s \o t) \o u = s \o (t \o u)
LEMMA BytesAssociative ==
  ASSUME NEW s \in Seq(Byte), NEW t \in Seq(Byte), NEW u \in Seq(Byte)
  PROVE  Associates(s, t, u)
BY ConcatAssociative DEF Associates

\* One piece more, before the one that differs, at it, and behind it.
LEMMA FirstNext ==
  ASSUME NEW g, NEW h, NEW b \in Seq(Byte), NEW j \in Nat, NEW k \in Nat, NEW x \in Seq(Byte), NEW y \in Seq(Byte),
         g[k] \in Seq(Byte), h[k] \in Seq(Byte), FirstAt(g, h, b, j, k),
         g[k + 1] = g[k] \o x, h[k + 1] = h[k] \o y,
         k + 1 < j => x = <<>> /\ y = <<>>, k + 1 = j => x = b /\ y = <<>>, k + 1 > j => y = x
  PROVE  FirstAt(g, h, b, j, k + 1)
<1>1. <<>> \o <<>> = <<>> /\ <<>> \o b = b /\ b \o <<>> = b
  BY ConcatEmptySeq
<1>2. CASE k + 1 < j
  <2>1. k < j /\ g[k] = <<>> /\ h[k] = <<>>
    BY <1>2 DEF FirstAt
  <2> QED
    BY <1>1, <1>2, <2>1 DEF FirstAt
<1>3. CASE k + 1 = j
  <2>1. k < j /\ ~(k + 1 < j)
    BY <1>3
  <2>2. g[k] = <<>> /\ h[k] = <<>>
    BY <2>1 DEF FirstAt
  <2>3. g[k + 1] = <<>> \o b /\ h[k + 1] = <<>> \o <<>>
    BY <1>3, <2>2
  <2> QED
    BY <1>1, <2>1, <2>3 DEF FirstAt
<1>4. CASE k + 1 > j
  <2>1. ~(k < j) /\ ~(k + 1 < j)
    BY <1>4
  <2>2. g[k] = b \o h[k]
    BY <2>1 DEF FirstAt
  <2>3. (b \o h[k]) \o x = b \o (h[k] \o x)
    <3>1. Associates(b, h[k], x)
      BY BytesAssociative
    <3> QED
      BY <3>1 DEF Associates
  <2>4. g[k + 1] = b \o h[k + 1]
    BY <1>4, <2>2, <2>3
  <2> QED
    BY <2>1, <2>4 DEF FirstAt
<1> QED
  BY <1>2, <1>3, <1>4

\* The same for a piece that the others come before.
LEMMA LastNext ==
  ASSUME NEW g, NEW h, NEW b \in Seq(Byte), NEW j \in Nat, NEW k \in Nat, NEW x \in Seq(Byte), NEW y \in Seq(Byte),
         g[k] \in Seq(Byte), h[k] \in Seq(Byte), LastAt(g, h, b, j, k),
         g[k + 1] = g[k] \o x, h[k + 1] = h[k] \o y,
         k + 1 < j => x = y, k + 1 = j => x = <<>> /\ y = b, k + 1 > j => x = <<>> /\ y = <<>>
  PROVE  LastAt(g, h, b, j, k + 1)
<1>1. g[k] \o <<>> = g[k] /\ h[k] \o <<>> = h[k]
  BY ConcatEmptySeq
<1>2. CASE k + 1 < j
  <2>1. k < j /\ h[k] = g[k]
    BY <1>2 DEF LastAt
  <2> QED
    BY <1>2, <2>1 DEF LastAt
<1>3. CASE k + 1 = j
  <2>1. k < j /\ ~(k + 1 < j)
    BY <1>3
  <2>2. h[k] = g[k]
    BY <2>1 DEF LastAt
  <2>3. g[k + 1] = g[k] /\ h[k + 1] = g[k] \o b
    BY <1>1, <1>3, <2>2
  <2> QED
    BY <2>1, <2>3 DEF LastAt
<1>4. CASE k + 1 > j
  <2>1. ~(k < j) /\ ~(k + 1 < j)
    BY <1>4
  <2>2. h[k] = g[k] \o b
    BY <2>1 DEF LastAt
  <2>3. g[k + 1] = g[k] /\ h[k + 1] = h[k]
    BY <1>1, <1>4
  <2> QED
    BY <2>1, <2>2, <2>3 DEF LastAt
<1> QED
  BY <1>2, <1>3, <1>4

\* The first piece that is not empty comes first.
LEMMA FlattenFirst ==
  ASSUME NEW F, Pieces(F), NEW G, Pieces(G), Len(G) = Len(F), NEW j \in 1 .. Len(F),
         \A i \in 1 .. Len(F) : i < j => F[i] = <<>>,
         G[j] = <<>>, \A i \in 1 .. Len(F) : i # j => G[i] = F[i]
  PROVE  FlattenSeq(F) = F[j] \o FlattenSeq(G)
<1> DEFINE n == Len(F)
           b == F[j]
<1>1. n \in Nat /\ n \in 0 .. n /\ j \in 1 .. n /\ j \in Nat /\ \A i \in 1 .. n : F[i] \in Seq(Byte) /\ G[i] \in Seq(Byte)
  BY DEF Pieces, IsTuple
<1>2. PICK g : /\ FlattenSeq(F) = g[n] /\ g[0] = <<>>
               /\ \A k \in 0 .. n : g[k] \in Seq(Byte)
               /\ \A k \in 0 .. n - 1 : g[k + 1] = g[k] \o F[k + 1]
  BY FlattenUnfold
<1>3. PICK h : /\ FlattenSeq(G) = h[Len(G)] /\ h[0] = <<>>
               /\ \A k \in 0 .. Len(G) : h[k] \in Seq(Byte)
               /\ \A k \in 0 .. Len(G) - 1 : h[k + 1] = h[k] \o G[k + 1]
  BY FlattenUnfold
<1>4. \A i \in 1 .. n : (i < j => F[i] = <<>>) /\ (i # j => G[i] = F[i])
  OBVIOUS
<1>5. Len(G) = n /\ G[j] = <<>> /\ F[j] = b
  OBVIOUS
<1> HIDE DEF n, b
<1> DEFINE T == {k \in 0 .. n : FirstAt(g, h, b, j, k)}
<1>6. 0 \in T
  <2>1. 0 < j /\ 0 \in 0 .. n
    BY <1>1
  <2> QED
    BY <1>2, <1>3, <2>1 DEF FirstAt
<1>7. ASSUME NEW k \in 0 .. n - 1, k \in T PROVE k + 1 \in T
  <2>1. k + 1 \in 1 .. n /\ k + 1 \in 0 .. n /\ k \in 0 .. n /\ k \in Nat
    BY <1>1
  <2> DEFINE x == F[k + 1]
             y == G[k + 1]
  <2>2. /\ g[k + 1] = g[k] \o x /\ h[k + 1] = h[k] \o y /\ g[k] \in Seq(Byte) /\ h[k] \in Seq(Byte)
        /\ x \in Seq(Byte) /\ y \in Seq(Byte) /\ b \in Seq(Byte)
    BY <1>1, <1>2, <1>3, <1>5, <2>1
  <2>3. /\ k + 1 < j => x = <<>> /\ y = <<>>
        /\ k + 1 = j => x = b /\ y = <<>>
        /\ k + 1 > j => y = x
    BY <1>1, <1>4, <1>5, <2>1
  <2>4. FirstAt(g, h, b, j, k)
    BY <1>7
  <2> HIDE DEF x, y, T
  <2>5. FirstAt(g, h, b, j, k + 1)
    BY <1>1, <2>1, <2>2, <2>3, <2>4, FirstNext
  <2> QED
    BY <2>1, <2>5 DEF T
<1> HIDE DEF T
<1>8. n \in T
  BY <1>1, <1>6, <1>7, UpTo
<1>9. ~(n < j) /\ FirstAt(g, h, b, j, n)
  <2>1. FirstAt(g, h, b, j, n)
    BY <1>8 DEF T
  <2> QED
    BY <1>1, <2>1
<1>10. g[n] = b \o h[n]
  BY <1>9 DEF FirstAt
<1> QED
  BY <1>2, <1>3, <1>5, <1>10

\* A piece that takes the place of the first of the empty ones at the end comes last.
LEMMA FlattenLast ==
  ASSUME NEW F, Pieces(F), NEW G, Pieces(G), Len(G) = Len(F), NEW j \in 1 .. Len(F),
         \A i \in 1 .. Len(F) : i >= j => F[i] = <<>>,
         \A i \in 1 .. Len(F) : i # j => G[i] = F[i]
  PROVE  FlattenSeq(G) = FlattenSeq(F) \o G[j]
<1> DEFINE n == Len(F)
           b == G[j]
<1>1. n \in Nat /\ n \in 0 .. n /\ j \in 1 .. n /\ j \in Nat /\ \A i \in 1 .. n : F[i] \in Seq(Byte) /\ G[i] \in Seq(Byte)
  BY DEF Pieces, IsTuple
<1>2. PICK g : /\ FlattenSeq(F) = g[n] /\ g[0] = <<>>
               /\ \A k \in 0 .. n : g[k] \in Seq(Byte)
               /\ \A k \in 0 .. n - 1 : g[k + 1] = g[k] \o F[k + 1]
  BY FlattenUnfold
<1>3. PICK h : /\ FlattenSeq(G) = h[Len(G)] /\ h[0] = <<>>
               /\ \A k \in 0 .. Len(G) : h[k] \in Seq(Byte)
               /\ \A k \in 0 .. Len(G) - 1 : h[k + 1] = h[k] \o G[k + 1]
  BY FlattenUnfold
<1>4. \A i \in 1 .. n : (i >= j => F[i] = <<>>) /\ (i # j => G[i] = F[i])
  OBVIOUS
<1>5. Len(G) = n /\ G[j] = b
  OBVIOUS
<1> HIDE DEF n, b
<1> DEFINE T == {k \in 0 .. n : LastAt(g, h, b, j, k)}
<1>6. 0 \in T
  <2>1. 0 < j /\ 0 \in 0 .. n
    BY <1>1
  <2> QED
    BY <1>2, <1>3, <2>1 DEF LastAt
<1>7. ASSUME NEW k \in 0 .. n - 1, k \in T PROVE k + 1 \in T
  <2>1. k + 1 \in 1 .. n /\ k + 1 \in 0 .. n /\ k \in 0 .. n /\ k \in Nat
    BY <1>1
  <2> DEFINE x == F[k + 1]
             y == G[k + 1]
  <2>2. /\ g[k + 1] = g[k] \o x /\ h[k + 1] = h[k] \o y /\ g[k] \in Seq(Byte) /\ h[k] \in Seq(Byte)
        /\ x \in Seq(Byte) /\ y \in Seq(Byte) /\ b \in Seq(Byte)
    BY <1>1, <1>2, <1>3, <1>5, <2>1
  <2>3. /\ k + 1 < j => x = y
        /\ k + 1 = j => x = <<>> /\ y = b
        /\ k + 1 > j => x = <<>> /\ y = <<>>
    BY <1>1, <1>4, <1>5, <2>1
  <2>4. LastAt(g, h, b, j, k)
    BY <1>7
  <2> HIDE DEF x, y, T
  <2>5. LastAt(g, h, b, j, k + 1)
    BY <1>1, <2>1, <2>2, <2>3, <2>4, LastNext
  <2> QED
    BY <2>1, <2>5 DEF T
<1> HIDE DEF T
<1>8. n \in T
  BY <1>1, <1>6, <1>7, UpTo
<1>9. ~(n < j) /\ LastAt(g, h, b, j, n)
  <2>1. LastAt(g, h, b, j, n)
    BY <1>8 DEF T
  <2> QED
    BY <1>1, <2>1
<1>10. h[n] = g[n] \o b
  BY <1>9 DEF LastAt
<1> QED
  BY <1>2, <1>3, <1>5, <1>10

\* An empty piece behind the others changes nothing.
LEMMA FlattenMore ==
  ASSUME NEW F, Pieces(F), NEW G, Pieces(G), Len(G) = Len(F) + 1, G[Len(F) + 1] = <<>>,
         \A i \in 1 .. Len(F) : G[i] = F[i]
  PROVE  FlattenSeq(G) = FlattenSeq(F)
<1> DEFINE n == Len(F)
<1>1. n \in Nat /\ n \in 0 .. n /\ n + 1 \in Nat /\ (n + 1) - 1 = n
  BY DEF Pieces, IsTuple
<1>2. PICK g : /\ FlattenSeq(F) = g[n] /\ g[0] = <<>>
               /\ \A k \in 0 .. n : g[k] \in Seq(Byte)
               /\ \A k \in 0 .. n - 1 : g[k + 1] = g[k] \o F[k + 1]
  BY FlattenUnfold
<1>3. PICK h : /\ FlattenSeq(G) = h[Len(G)] /\ h[0] = <<>>
               /\ \A k \in 0 .. Len(G) : h[k] \in Seq(Byte)
               /\ \A k \in 0 .. Len(G) - 1 : h[k + 1] = h[k] \o G[k + 1]
  BY FlattenUnfold
<1>4. Len(G) = n + 1 /\ G[n + 1] = <<>> /\ \A i \in 1 .. n : G[i] = F[i]
  OBVIOUS
<1> HIDE DEF n
<1> DEFINE T == {k \in 0 .. n : h[k] = g[k]}
<1>5. 0 \in T
  BY <1>1, <1>2, <1>3
<1>6. ASSUME NEW k \in 0 .. n - 1, k \in T PROVE k + 1 \in T
  <2>1. k + 1 \in 1 .. n /\ k + 1 \in 0 .. n /\ h[k] = g[k] /\ k \in 0 .. Len(G) - 1
    BY <1>1, <1>4, <1>6
  <2>2. h[k + 1] = g[k + 1]
    BY <1>2, <1>3, <1>4, <2>1
  <2> QED
    BY <2>1, <2>2
<1> HIDE DEF T
<1>7. n \in T
  BY <1>1, <1>5, <1>6, UpTo
<1>8. h[n] = g[n] /\ h[n + 1] = h[n] \o <<>>
  <2>1. h[n] = g[n]
    BY <1>7 DEF T
  <2>2. n \in 0 .. Len(G) - 1
    BY <1>1, <1>4
  <2>3. h[n + 1] = h[n] \o G[n + 1]
    BY <1>3, <2>2
  <2> QED
    BY <1>4, <2>1, <2>3
<1>9. g[n] \o <<>> = g[n]
  BY <1>1, <1>2, ConcatEmptySeq
<1> QED
  BY <1>2, <1>3, <1>4, <1>8, <1>9

-----------------------------------------------------------------------------
(***************************************************************************)
(* What the device answers, and what it comes to when it is read.          *)
(***************************************************************************)
Answers(kind, i) ==
  IF kind = "exchange" THEN {EchoOf(Asks(kind, i), s) : s \in Statuses} \cup {AckOf(Asks(kind, i), 0, NOT_ACTIVE)}
  ELSE {AckOf(Asks(kind, i), word, OK) : word \in {0, 2}}
InnerOf(a) ==
  IF "down" \notin DOMAIN a THEN AckBytes(a.command, a.sequence, a.status)
  ELSE IF Offline THEN OfflineBytes(a) ELSE ResponseBytes(a)
OnLine(a) == IF Offline THEN InnerOf(a) ELSE Wrap(InnerOf(a))

\* The bytes of an answer make a frame that every reader accepts and that begins with the magic.
Framed(b) ==
  /\ b \in Seq(Byte) /\ Len(b) >= 1 /\ Len(b) <= MaxInner /\ Len(b) % 2 = 0
  /\ Holds(b, Start, Put32(MAGIC))
\* What is read of such a frame is what was said, and a refusal is read as a refusal.
ReadAs(kind, a) ==
  \A f : f.inner = InnerOf(a) /\ f.address \in Nat /\ f.address % 2 = 0 =>
    /\ Accepted(kind, Read(kind, f)) <=> Accepted(kind, a)
    /\ Accepted(kind, a) => Read(kind, f) = a

\* The numbers in answers.
LEMMA AnswerNumbers ==
  /\ \A word \in {0, 2, 7, 9} : word \in Word32
  /\ \A status \in {OK, NOT_ACTIVE, OK + SEQ_GAP, OK + UNDERRUN} : status \in Word16
  /\ \A status \in Statuses : status \in Word16
<1>1. /\ \A word \in {0, 2, 7, 9} : word \in Word32
      /\ \A status \in {OK, NOT_ACTIVE, OK + SEQ_GAP, OK + UNDERRUN} : status \in Word16
  BY SMT DEF OK, NOT_ACTIVE, SEQ_GAP, UNDERRUN, Word32, Word16, MAX_INT
<1> QED
  BY <1>1 DEF Statuses

\* The lengths of answers.
LEMMA AnswerLengths ==
  /\ ACK_SIZE >= 1 /\ ACK_SIZE <= MaxInner /\ ACK_SIZE % 2 = 0
  /\ StatusAt + 2 >= 1 /\ StatusAt + 2 <= MaxInner /\ (StatusAt + 2) % 2 = 0
  /\ StatusAt + 18 >= 1 /\ StatusAt + 18 <= MaxInner /\ (StatusAt + 18) % 2 = 0
<1>1. StatusAt + 18 <= MaxInner /\ MaxInner \in Nat
  BY LinkAssumption
<1> QED
  BY <1>1, Sizes, SMT

\* An ack is read as it was said, and never as the answer to an exchange.
LEMMA AckReads ==
  ASSUME host \in Hosts, NEW kind \in Kinds, NEW i \in 1 .. MaxOps, NEW word \in {0, 2}, NEW status \in {OK, NOT_ACTIVE}
  PROVE  /\ AckOf(Asks(kind, i), word, status) # Nothing
         /\ InnerOf(AckOf(Asks(kind, i), word, status)) = AckBytes(Heard(Asks(kind, i)).command, word, status)
         /\ Framed(InnerOf(AckOf(Asks(kind, i), word, status)))
         /\ Len(InnerOf(AckOf(Asks(kind, i), word, status))) = ACK_SIZE
         /\ kind # "exchange" => ReadAs(kind, AckOf(Asks(kind, i), word, status))
         /\ kind = "exchange" /\ status = NOT_ACTIVE =>
              /\ ReadAs(kind, AckOf(Asks(kind, i), word, status))
              /\ ~Accepted(kind, AckOf(Asks(kind, i), word, status))
<1> DEFINE c == Heard(Asks(kind, i)).command
           a == AckOf(Asks(kind, i), word, status)
           b == AckBytes(c, word, status)
<1>1. c \in Byte /\ word \in Word32 /\ status \in Word16
  BY HeardFacts, AnswerNumbers DEF Kinds
<1>2. a = [command |-> c, sequence |-> word, status |-> status]
  BY DEF AckOf
<1> HIDE DEF c, a
<1>3. a.command = c /\ a.sequence = word /\ a.status = status /\ "down" \notin DOMAIN a
  BY <1>2
<1>4. a # Nothing
  BY <1>1, <1>3 DEF Nothing, Byte
<1>5. InnerOf(a) = b
  BY <1>3 DEF InnerOf
<1>6. /\ b \in Seq(Byte) /\ Len(b) = ACK_SIZE /\ Holds(b, Start, Put32(MAGIC))
      /\ Ack(b) = [command |-> c, sequence |-> word, status |-> status]
      /\ \A address : /\ HostResponse(b, address) = Refused
                      /\ BridgeResponse(b, address) = Refused
                      /\ RealtimeResponse(b, address) = Refused
                      /\ OfflineResponse(b, address) = Refused
  BY <1>1, AcksRead
<1> HIDE DEF b
<1>7. Framed(b)
  BY <1>6, AnswerLengths DEF Framed
<1>8. ASSUME kind # "exchange" PROVE ReadAs(kind, a)
  <2>1. \A f : f.inner = b => Read(kind, f) = a
    BY <1>2, <1>6, <1>8 DEF Read
  <2> QED
    BY <1>5, <2>1 DEF ReadAs
<1>9. ASSUME kind = "exchange", status = NOT_ACTIVE PROVE ReadAs(kind, a) /\ ~Accepted(kind, a)
  <2>1. \A f : f.inner = b => Read(kind, f) = Refused
    BY <1>6, <1>9 DEF Read, Response
  <2>2. ~Accepted(kind, Refused)
    BY DEF Accepted
  <2>3. ~StatusIsOk(NOT_ACTIVE)
    <3>1. ~HasBit(NOT_ACTIVE, OK) /\ NOT_ACTIVE # OK
      BY SMT DEF HasBit, NOT_ACTIVE, OK
    <3> QED
      BY <3>1 DEF StatusIsOk, HostStatusIsOk, BridgeStatusIsOk, RealtimeStatusIsOk, OfflineStatusIsOk
  <2>4. ~Accepted(kind, a)
    BY <1>3, <1>9, <2>3 DEF Accepted
  <2> QED
    BY <1>5, <2>1, <2>2, <2>4 DEF ReadAs
<1> QED
  BY <1>4, <1>5, <1>6, <1>7, <1>8, <1>9 DEF a, b, c

\* The answer to an exchange is read as it was said, and holds the samples that were sent.
LEMMA EchoReads ==
  ASSUME host \in Hosts, NEW i \in 1 .. MaxOps, NEW s \in Statuses
  PROVE  /\ EchoOf(Asks("exchange", i), s) # Nothing
         /\ InnerOf(EchoOf(Asks("exchange", i), s)) =
              IF Offline THEN OfflineBytes(EchoOf(Asks("exchange", i), s)) ELSE ResponseBytes(EchoOf(Asks("exchange", i), s))
         /\ Framed(InnerOf(EchoOf(Asks("exchange", i), s)))
         /\ Offline => Len(InnerOf(EchoOf(Asks("exchange", i), s))) = OFFLINE_SIZE
         /\ ReadAs("exchange", EchoOf(Asks("exchange", i), s))
         /\ EchoOf(Asks("exchange", i), s).sequence = Number(i)
         /\ EchoOf(Asks("exchange", i), s).down = PeriodOf(i).down
         /\ EchoOf(Asks("exchange", i), s).up = PeriodOf(i).up
<1> DEFINE q == Asks("exchange", i)
           c == Heard(q).command
           n == Number(i)
           d == PeriodOf(i).down
           u == PeriodOf(i).up
           e == [command |-> c, sequence |-> n, down |-> d, up |-> u, status |-> s]
           w == With(e, 7, 9)
           a == EchoOf(q, s)
<1>1. c \in Byte /\ Heard(q).sequence = n /\ Heard(q).period.down = d /\ Heard(q).period.up = u
  BY HeardFacts
<1>2. n \in Word32 /\ d \in Wave /\ u \in Wave /\ s \in Word16 /\ 7 \in Word32 /\ 9 \in Word32
  BY PeriodOfFacts, AnswerNumbers
<1>3. a = IF Offline THEN e ELSE w
  <2> HIDE DEF q, n, d, u
  <2> QED
    BY <1>1 DEF EchoOf
<1> HIDE DEF a, c, n, d, u
<1>4. e \in Echoes /\ e.command = c /\ e.sequence = n /\ e.down = d /\ e.up = u
  BY <1>1, <1>2 DEF Echoes
<1>5. "down" \in DOMAIN e /\ "down" \in DOMAIN w
  BY DEF With
<1> HIDE DEF e
<1>6. /\ w.command = c /\ w.sequence = n /\ w.down = d /\ w.up = u /\ w.time = 7 /\ w.processing = 9
      /\ OfflineBytes(w) = OfflineBytes(e)
  BY <1>4, WithFields
<1>7. /\ ResponseBytes(w) \in Seq(Byte) /\ Len(ResponseBytes(w)) = StatusAt + 18 /\ Laid(ResponseBytes(w), e)
  BY <1>2, <1>4, <1>6, ResponseLaid
<1>8. OfflineBytes(e) \in Seq(Byte) /\ Len(OfflineBytes(e)) = StatusAt + 2 /\ Laid(OfflineBytes(e), e)
  BY <1>4, OfflineLaid
<1>9. ASSUME NEW address \in Nat, address % 2 = 0
      PROVE  /\ HostResponse(ResponseBytes(w), address) = w
             /\ BridgeResponse(ResponseBytes(w), address) = w
             /\ RealtimeResponse(ResponseBytes(w), address) = w
             /\ OfflineResponse(OfflineBytes(e), address) = e
  BY <1>2, <1>4, <1>9, AnswersRead
<1> HIDE DEF w
<1>10. InnerOf(a) = IF Offline THEN OfflineBytes(a) ELSE ResponseBytes(a)
  BY <1>3, <1>5 DEF InnerOf
<1>11. a.command = c /\ a.sequence = n /\ a.down = d /\ a.up = u
  BY <1>3, <1>4, <1>6
<1>12. a # Nothing
  BY <1>1, <1>11 DEF Nothing, Byte
<1>13. Framed(InnerOf(a)) /\ (Offline => Len(InnerOf(a)) = OFFLINE_SIZE)
  BY <1>3, <1>7, <1>8, <1>10, AnswerLengths, Sizes DEF Framed, Laid, Begins
<1>14. ReadAs("exchange", a)
  <2>1. ASSUME NEW address \in Nat, address % 2 = 0 PROVE Response(InnerOf(a), address) = a
    <3>1. CASE host = "webserial"
      BY <1>3, <1>9, <1>10, <2>1, <3>1 DEF Response, Offline
    <3>2. CASE host = "bridge"
      BY <1>3, <1>9, <1>10, <2>1, <3>2 DEF Response, Offline
    <3>3. CASE host = "realtime"
      BY <1>3, <1>9, <1>10, <2>1, <3>3 DEF Response, Offline
    <3>4. CASE host = "offline"
      BY <1>3, <1>9, <1>10, <2>1, <3>4 DEF Response, Offline
    <3> QED
      BY <3>1, <3>2, <3>3, <3>4 DEF Hosts
  <2>2. ASSUME NEW f, f.inner = InnerOf(a), f.address \in Nat, f.address % 2 = 0
        PROVE  Read("exchange", f) = a
    BY <2>1, <2>2 DEF Read
  <2> QED
    BY <2>2 DEF ReadAs
<1> QED
  BY <1>10, <1>11, <1>12, <1>13, <1>14 DEF a, n, d, u

-----------------------------------------------------------------------------
(***************************************************************************)
(* Frames in a reader.                                                     *)
(***************************************************************************)
\* The bytes w stand at the beginning of b, and what is behind them comes with l to z.
BeginsWith(b, l, w, z) ==
  /\ SubSeq(b, 1, Len(w)) = w
  /\ SubSeq(b, Len(w) + 1, Len(b)) \in Seq(Byte)
  /\ SubSeq(b, Len(w) + 1, Len(b)) \o l = z

\* Bytes that come in two ways to the same: what is whole in the first part stands at its beginning.
LEMMA Split ==
  ASSUME NEW b \in Seq(Byte), NEW l \in Seq(Byte), NEW w \in Seq(Byte), NEW z \in Seq(Byte),
         b \o l = w \o z, Len(b) >= Len(w)
  PROVE  BeginsWith(b, l, w, z)
<1> DEFINE m == Len(w)
           h == SubSeq(b, 1, m)
           c == SubSeq(b, m + 1, Len(b))
           d == c \o l
<1>1. Len(b) \in Nat /\ m \in Nat /\ m \in 0 .. Len(b)
  BY LenProperties
<1>2. h \o c = b
  <2>1. 1 \in 1 .. Len(b) + 1 /\ m \in 1 - 1 .. Len(b) /\ Len(b) \in m .. Len(b)
    BY <1>1
  <2> HIDE DEF m
  <2>2. SubSeq(b, 1, m) \o SubSeq(b, m + 1, Len(b)) = SubSeq(b, 1, Len(b))
    BY <2>1, ConcatAdjacentSubSeq
  <2> QED
    BY <2>2, SubSeqFull
<1>3. h \in Seq(Byte) /\ Len(h) = m
  BY <1>1, BeginningOf
<1>4. c \in Seq(Byte)
  BY <1>1, EndOf
<1> HIDE DEF h, c
<1>5. d \in Seq(Byte)
  BY <1>4, Behind
<1>10. Associates(h, c, l)
  BY <1>3, <1>4, BytesAssociative
<1>6. h \o d = w \o z
  BY <1>2, <1>10 DEF Associates
<1> HIDE DEF d
<1>7. SubSeq(h \o d, 1, Len(h)) = h /\ SubSeq(h \o d, Len(h) + 1, Len(h \o d)) = d
  BY <1>3, <1>5, Parts
<1>8. SubSeq(w \o z, 1, m) = w /\ SubSeq(w \o z, m + 1, Len(w \o z)) = z
  BY Parts DEF m
<1>9. h = w /\ d = z
  BY <1>3, <1>6, <1>7, <1>8
<1> QED
  BY <1>4, <1>9 DEF h, d, c, m, BeginsWith

\* What stands at the beginning of the one stands at the beginning of the other.
LEMMA Overlap ==
  ASSUME NEW b \in Seq(Byte), NEW l \in Seq(Byte), NEW w \in Seq(Byte), NEW z \in Seq(Byte),
         b \o l = w \o z, NEW q \in Seq(Byte), Holds(w, Start, q), Len(q) <= Len(b)
  PROVE  Holds(b, Start, q)
<1> DEFINE u == b \o l
<1>1. Holds(w \o z, Start, q)
  BY Before DEF Start
<1>2. /\ u \in Seq(Byte) /\ Len(u) = Len(b) + Len(l) /\ Len(b) \in Nat /\ Len(l) \in Nat /\ Len(q) \in Nat
      /\ Holds(u, 0, b)
  BY Behind, LenProperties
<1>3. Holds(u, Start, q)
  BY <1>1
<1> HIDE DEF u
<1>4. \A i \in 1 .. Len(b) : u[0 + i] = b[i]
  BY <1>2 DEF Holds
<1>5. \A i \in 1 .. Len(q) : u[0 + i] = q[i]
  BY <1>3 DEF Holds, Start
<1>6. \A i \in 1 .. Len(q) : b[0 + i] = q[i]
  <2> SUFFICES ASSUME NEW i \in 1 .. Len(q) PROVE b[0 + i] = q[i]
    OBVIOUS
  <2>1. i \in 1 .. Len(b) /\ 0 + i = i
    BY <1>2
  <2> QED
    BY <1>4, <1>5, <2>1
<1>7. 0 + Len(q) <= Len(b)
  BY <1>2
<1> QED
  BY <1>6, <1>7 DEF Holds, Start

\* Pieces that are frames with their length, or nothing; and the same without the j-th.
Wrapped(F) == Pieces(F) /\ \A i \in 1 .. Len(F) : F[i] = <<>> \/ \E b : Framed(b) /\ F[i] = Wrap(b)
Without(F, j) == [F EXCEPT ![j] = <<>>]
FirstPiece(F, j) == F[j] # <<>> /\ \A k \in 1 .. Len(F) : k < j => F[k] = <<>>

\* There is a first piece, or there are none.
LEMMA FirstExists ==
  ASSUME NEW F, Len(F) \in Nat, \E i \in 1 .. Len(F) : F[i] # <<>>
  PROVE  \E j \in 1 .. Len(F) : FirstPiece(F, j)
<1> DEFINE T == {i \in 1 .. Len(F) : F[i] # <<>>}
<1>1. T # {} /\ T \subseteq Nat
  OBVIOUS
<1> HIDE DEF T
<1>2. PICK j \in T : \A m \in T : j <= m
  BY <1>1, Least
<1>3. j \in 1 .. Len(F) /\ F[j] # <<>>
  BY DEF T
<1>4. ASSUME NEW k \in 1 .. Len(F), k < j PROVE F[k] = <<>>
  <2>1. ~(j <= k)
    BY <1>3, <1>4
  <2>2. k \notin T
    BY <1>2, <2>1
  <2> QED
    BY <2>2 DEF T
<1> QED
  BY <1>3, <1>4 DEF FirstPiece

\* A piece is taken away.
LEMMA WithoutFacts ==
  ASSUME NEW F, Pieces(F), NEW j \in 1 .. Len(F)
  PROVE  /\ Pieces(Without(F, j)) /\ Len(Without(F, j)) = Len(F) /\ Without(F, j)[j] = <<>>
         /\ \A i \in 1 .. Len(F) : i # j => Without(F, j)[i] = F[i]
         /\ Wrapped(F) => Wrapped(Without(F, j))
<1> DEFINE G == Without(F, j)
<1>1. Len(F) \in Nat /\ F = [i \in 1 .. Len(F) |-> F[i]] /\ \A i \in 1 .. Len(F) : F[i] \in Seq(Byte)
  BY DEF Pieces, IsTuple
<1>2. G = [i \in 1 .. Len(F) |-> IF i = j THEN <<>> ELSE F[i]]
  BY <1>1 DEF Without
<1> HIDE DEF G
<1>3. G = [i \in 1 .. Len(F) |-> G[i]]
  BY <1>2
<1>4. IsTuple(G) /\ Len(G) = Len(F)
  BY <1>1, <1>3, FunctionTuple
<1>5. \A i \in 1 .. Len(F) : G[i] = IF i = j THEN <<>> ELSE F[i]
  BY <1>2
<1>6. <<>> \in Seq(Byte)
  OBVIOUS
<1>7. Pieces(G)
  BY <1>1, <1>4, <1>5, <1>6 DEF Pieces
<1>8. ASSUME Wrapped(F) PROVE Wrapped(G)
  BY <1>4, <1>5, <1>7, <1>8 DEF Wrapped
<1> QED
  BY <1>4, <1>5, <1>7, <1>8 DEF G

\* What tryTake makes of the buffer b when its first frame has so many bytes in total.
TakenWhole(r, b, total) ==
  /\ TryTake(r).taken <=> ~(Len(b) < PREFIX \/ Len(b) < total)
  /\ ~TryTake(r).taken => TryTake(r).reader.buffer = b /\ TryTake(r).reader.address = r.address
  /\ TryTake(r).taken =>
       /\ total \in Nat /\ total <= Len(b) /\ total >= PREFIX
       /\ TryTake(r).inner = SubSeq(b, PREFIX + 1, total) /\ TryTake(r).address = r.address + PREFIX
       /\ TryTake(r).reader.buffer = SubSeq(b, total + 1, Len(b))
       /\ TryTake(r).reader.address = r.address + total

\* The sum of even numbers is even.
LEMMA EvenSum ==
  ASSUME NEW a \in Nat, NEW p \in Nat, a % 2 = 0, p % 2 = 0
  PROVE  a + p \in Nat /\ (a + p) % 2 = 0
OBVIOUS

\* tryTake when a frame may begin with the first byte.
LEMMA StoppedTake ==
  ASSUME NEW r \in Readers(Nat), Stopped(r.buffer)
  PROVE  TakenWhole(r, r.buffer, PREFIX + Get32(r.buffer, 0))
<1> DEFINE b == r.buffer
           total == PREFIX + Get32(b, 0)
           k == Skipped(b)
           bytes == SubSeq(b, k + 1, Len(b))
           rest == [r EXCEPT !.buffer = bytes, !.address = @ + k]
           inner == SubSeq(bytes, PREFIX + 1, PREFIX + Get32(bytes, 0))
           tail == SubSeq(bytes, PREFIX + Get32(bytes, 0) + 1, Len(bytes))
           after == [rest EXCEPT !.buffer = tail, !.address = @ + (PREFIX + Get32(bytes, 0))]
           short == Len(bytes) < PREFIX \/ Len(bytes) < PREFIX + Get32(bytes, 0)
           t == IF short
                  THEN [taken |-> FALSE, reader |-> rest]
                  ELSE [taken |-> TRUE, inner |-> inner, address |-> rest.address + PREFIX, reader |-> after]
<1>1. TryTake(r) = t
  BY DEF TryTake
<1>2. b \in Seq(Byte) /\ r.address \in Nat /\ Len(b) \in Nat
  BY LenProperties DEF Readers
<1>3. k = 0
  <2>1. Stopped(b)
    OBVIOUS
  <2> HIDE DEF b
  <2> QED
    BY <1>2, <2>1, SkippedFacts
<1>4. k \in 0 .. Len(b) /\ k \in Nat
  BY <1>2, <1>3
<1>5. bytes = b
  <2> HIDE DEF k, b
  <2> QED
    BY <1>2, <1>3, <1>4, EndOf
<1> HIDE DEF bytes
<1>6. rest.buffer = b /\ rest.address = r.address /\ rest \in Readers(Nat)
  <2>1. rest = Moved(r, b, k)
    BY <1>5 DEF Moved
  <2> HIDE DEF rest, k, b
  <2>3. b \in Seq(Byte) /\ k \in Nat
    BY <1>2, <1>4
  <2>2. rest.buffer = b /\ rest.address = r.address + k /\ rest \in Readers(Nat)
    BY <2>1, <2>3, MovedFacts
  <2> QED
    BY <1>2, <1>3, <2>2
<1> HIDE DEF rest, k, b
<1>7. short <=> (Len(b) < PREFIX \/ Len(b) < total)
  BY <1>5
<1>8. inner = SubSeq(b, PREFIX + 1, total) /\ tail = SubSeq(b, total + 1, Len(b))
  BY <1>5
<1> HIDE DEF inner, tail, short
<1>9. after = Moved(rest, tail, total)
  BY <1>5 DEF Moved
<1> HIDE DEF after
<1>10. ASSUME short PROVE TakenWhole(r, b, total)
  <2>1. TryTake(r) = [taken |-> FALSE, reader |-> rest]
    BY <1>1, <1>10
  <2> HIDE DEF t
  <2>2. ~TryTake(r).taken /\ TryTake(r).reader = rest
    BY <2>1
  <2> QED
    BY <1>6, <1>7, <1>10, <2>2 DEF TakenWhole
<1>11. ASSUME ~short PROVE TakenWhole(r, b, total)
  <2>1. TryTake(r) = [taken |-> TRUE, inner |-> inner, address |-> rest.address + PREFIX, reader |-> after]
    BY <1>1, <1>11
  <2> HIDE DEF t
  <2>2. /\ TryTake(r).taken /\ TryTake(r).inner = inner /\ TryTake(r).address = rest.address + PREFIX
        /\ TryTake(r).reader = after
    BY <2>1
  <2>3. ~(Len(b) < PREFIX) /\ ~(Len(b) < total)
    BY <1>7, <1>11
  <2>4. 0 \in Nat /\ 0 + 4 <= Len(b) /\ PREFIX = 4
    BY <1>2, <2>3, Sizes
  <2>5. Get32(b, 0) \in Nat
    BY <1>2, <2>4, GetType
  <2>6. total \in Nat /\ total <= Len(b) /\ total >= PREFIX /\ total \in 0 .. Len(b)
    BY <1>2, <2>3, <2>4, <2>5
  <2> HIDE DEF total
  <2>7. tail \in Seq(Byte)
    BY <1>2, <1>8, <2>6, EndOf
  <2>8. after.buffer = tail /\ after.address = rest.address + total
    BY <1>6, <1>9, <2>6, <2>7, MovedFacts
  <2> QED
    BY <1>6, <1>8, <2>2, <2>3, <2>6, <2>8 DEF TakenWhole
<1> QED
  BY <1>10, <1>11 DEF b, total

\* What tryTake makes of a buffer in which only frames are, or the beginning of one: it takes the
\* first of them as soon as it is whole, and otherwise leaves everything where it is.
LEMMA TakeOwed ==
  ASSUME NEW F, Wrapped(F), NEW r \in Readers(Nat), NEW l \in Seq(Byte),
         r.buffer \o l = FlattenSeq(F), r.address % 2 = 0
  PROVE  /\ ~TryTake(r).taken => TryTake(r).reader.buffer = r.buffer /\ TryTake(r).reader.address = r.address
         /\ TryTake(r).taken =>
              \E j \in 1 .. Len(F) :
                /\ FirstPiece(F, j) /\ F[j] = Wrap(TryTake(r).inner)
                /\ TryTake(r).address \in Nat /\ TryTake(r).address % 2 = 0
                /\ TryTake(r).reader.address % 2 = 0
                /\ TryTake(r).reader.buffer \o l = FlattenSeq(Without(F, j))
<1> DEFINE b == r.buffer
           t == TryTake(r)
           n == Get32(b, 0)
           total == PREFIX + n
<1>1. b \in Seq(Byte) /\ r.address \in Nat /\ Len(b) \in Nat
  BY LenProperties DEF Readers
<1>2. Pieces(F) /\ Len(F) \in Nat
  BY DEF Wrapped, Pieces, IsTuple
<1>3. CASE \A i \in 1 .. Len(F) : F[i] = <<>>
  <2>1. b \o l = <<>>
    BY <1>2, <1>3, FlattenTyped
  <2>2. b = <<>>
    BY <1>1, <2>1, ConcatSimplifications
  <2>3. ~t.taken
    BY <2>2, EmptyGivesNothing
  <2>4. Stopped(b)
    <3>1. Len(b) = 0
      BY <2>2
    <3> QED
      BY <3>1, Sizes DEF Stopped
  <2>5. TakenWhole(r, b, PREFIX + Get32(b, 0))
    BY <2>4, StoppedTake
  <2> HIDE DEF b
  <2>6. t.reader.buffer = b /\ t.reader.address = r.address
    BY <2>3, <2>5 DEF TakenWhole
  <2> QED
    BY <2>3, <2>6 DEF b
<1>4. CASE \E i \in 1 .. Len(F) : F[i] # <<>>
  <2>1. PICK j \in 1 .. Len(F) : FirstPiece(F, j)
    BY <1>2, <1>4, FirstExists
  <2>2. F[j] # <<>> /\ \A i \in 1 .. Len(F) : i < j => F[i] = <<>>
    BY <2>1 DEF FirstPiece
  <2>3. PICK e : Framed(e) /\ F[j] = Wrap(e)
    BY <2>2 DEF Wrapped
  <2>4. e \in Seq(Byte) /\ Len(e) \in Nat /\ Len(e) >= 1 /\ Len(e) <= MaxInner /\ Len(e) % 2 = 0
    BY <2>3, LenProperties DEF Framed
  <2> DEFINE w == Wrap(e)
             G == Without(F, j)
             z == FlattenSeq(G)
  <2>5. /\ w \in Seq(Byte) /\ Len(w) = PREFIX + Len(e) /\ SubSeq(w, PREFIX + 1, Len(w)) = e
        /\ Holds(w, Start, Put32(Len(e)))
    BY <2>4, WrapFacts
  <2>6. /\ Pieces(G) /\ Len(G) = Len(F) /\ G[j] = <<>> /\ \A i \in 1 .. Len(F) : i # j => G[i] = F[i]
    BY <1>2, WithoutFacts
  <2> HIDE DEF G
  <2>7. FlattenSeq(F) = F[j] \o z
    BY <1>2, <2>2, <2>6, FlattenFirst
  <2>8. z \in Seq(Byte)
    BY <2>6, FlattenTyped
  <2>9. F[j] = w
    BY <2>3
  <2> HIDE DEF w, z, b
  <2>10. b \o l = w \o z
    BY <2>7, <2>9 DEF b
  <2>11. Len(e) \in Word32 /\ Len(e) \in Nat /\ Len(e) > 0
    <3>1. MaxInner \in Nat /\ MaxInner <= MAX_INT
      BY LinkAssumption
    <3>2. MAX_INT \in Nat
      BY SMT DEF MAX_INT
    <3> DEFINE d == Len(e)
    <3>4. d \in Nat /\ d <= MaxInner
      BY <2>4
    <3> HIDE DEF d
    <3>5. d <= MAX_INT
      BY <3>1, <3>2, <3>4
    <3>3. Len(e) <= MAX_INT
      BY <3>5 DEF d
    <3> QED
      BY <2>4, <3>3 DEF Word32
  <2>12. Len(Put32(Len(e))) = 4 /\ Put32(Len(e)) \in Seq(Byte)
    BY <2>11, Put32Facts
  <2>13. ASSUME Len(b) >= PREFIX PROVE n = Len(e)
    <3>3. w \in Seq(Byte) /\ Holds(w, Start, Put32(Len(e))) /\ 4 <= Len(b)
      BY <2>5, <2>13, Sizes
    <3>1. Holds(b, Start, Put32(Len(e)))
      BY <1>1, <2>8, <2>10, <2>12, <3>3, Overlap
    <3>2. Get32(b, Start) = Len(e)
      BY <1>1, <2>11, <3>1, Get32Held DEF Start
    <3> QED
      BY <3>2 DEF Start
  <2>14. Stopped(b)
    <3>1. CASE Len(b) >= PREFIX
      BY <2>4, <2>11, <2>13, <3>1, LinkAssumption DEF Stopped, BadPrefix
    <3>2. CASE ~(Len(b) >= PREFIX)
      BY <1>1, <3>2, Sizes DEF Stopped
    <3> QED
      BY <3>1, <3>2
  <2>17. TakenWhole(r, b, total)
    BY <2>14, StoppedTake DEF b
  <2> HIDE DEF t, total
  <2>15. /\ t.taken <=> ~(Len(b) < PREFIX \/ Len(b) < total)
         /\ ~t.taken => t.reader.buffer = b /\ t.reader.address = r.address
         /\ t.taken =>
              /\ total \in Nat /\ total <= Len(b) /\ total >= PREFIX
              /\ t.inner = SubSeq(b, PREFIX + 1, total) /\ t.address = r.address + PREFIX
              /\ t.reader.buffer = SubSeq(b, total + 1, Len(b))
              /\ t.reader.address = r.address + total
    BY <2>17 DEF TakenWhole, t
  <2>16. ASSUME t.taken
         PROVE  /\ F[j] = Wrap(t.inner) /\ t.address \in Nat /\ t.address % 2 = 0
                /\ t.reader.address % 2 = 0 /\ t.reader.buffer \o l = z
    <3>1. Len(b) >= PREFIX /\ total <= Len(b)
      BY <1>1, <2>15, <2>16, Sizes
    <3>2. total = Len(w)
      BY <2>5, <2>13, <3>1 DEF total
    <3>9. Len(b) >= Len(w) /\ w \in Seq(Byte)
      BY <1>1, <2>5, <3>1, <3>2
    <3>11. BeginsWith(b, l, w, z)
      BY <1>1, <2>8, <2>10, <3>9, Split
    <3>3. SubSeq(b, 1, Len(w)) = w /\ SubSeq(b, Len(w) + 1, Len(b)) \o l = z
      BY <3>11 DEF BeginsWith
    <3>4. t.reader.buffer \o l = z
      BY <2>15, <2>16, <3>2, <3>3
    <3>5. t.inner = e
      <4> DEFINE i == SubSeq(b, PREFIX + 1, total)
                 v == SubSeq(w, PREFIX + 1, Len(w))
      <4>1. \A k \in 1 .. total : b[k] \in Byte /\ w[k] = b[k]
        <5> DEFINE h == SubSeq(b, 1, total)
        <5>1. 1 \in Int /\ total \in Int /\ \A k \in 1 .. total : b[k] \in Byte
          BY <1>1, <2>15, <2>16, ElementOfSeq
        <5>2. \A k \in 1 .. total - 1 + 1 : h[k] = b[1 + k - 1]
          BY <5>1, SubSeqProperties
        <5>3. h = w
          BY <3>2, <3>3
        <5> HIDE DEF h
        <5>4. \A k \in 1 .. total : k \in 1 .. total - 1 + 1 /\ 1 + k - 1 = k
          BY <5>1
        <5> QED
          BY <5>1, <5>2, <5>3, <5>4
      <4>2. PREFIX + 1 \in Int /\ total \in Int /\ \A k \in PREFIX + 1 .. total : k \in 1 .. total
        BY <2>15, <2>16, Sizes
      <4>3. \A k \in PREFIX + 1 .. total : b[k] \in Byte /\ w[k] \in Byte
        BY <4>1, <4>2
      <4> DEFINE m == PREFIX + 1
      <4>12. m \in Int /\ total \in Int /\ \A k \in m .. total : b[k] \in Byte
        BY <4>2, <4>3
      <4>13. m \in Int /\ total \in Int /\ \A k \in m .. total : w[k] \in Byte
        BY <4>2, <4>3
      <4> HIDE DEF m
      <4>4. /\ SubSeq(b, m, total) \in Seq(Byte) /\ Len(SubSeq(b, m, total)) = IF m <= total THEN total - m + 1 ELSE 0
            /\ \A k \in 1 .. total - m + 1 : SubSeq(b, m, total)[k] = b[m + k - 1]
        BY <4>12, SubSeqProperties
      <4>5. /\ SubSeq(w, m, total) \in Seq(Byte) /\ Len(SubSeq(w, m, total)) = IF m <= total THEN total - m + 1 ELSE 0
            /\ \A k \in 1 .. total - m + 1 : SubSeq(w, m, total)[k] = w[m + k - 1]
        BY <4>13, SubSeqProperties
      <4> DEFINE x == SubSeq(b, m, total)
                 y == SubSeq(w, m, total)
      <4> HIDE DEF x, y
      <4>6. m = PREFIX + 1 /\ PREFIX = 4 /\ total \in Nat /\ total >= PREFIX
        BY <2>15, <2>16, Sizes DEF m
      <4>7. Len(x) = Len(y) /\ x \in Seq(Byte) /\ y \in Seq(Byte)
        BY <4>4, <4>5 DEF x, y
      <4>8. ASSUME NEW k \in 1 .. Len(x) PROVE x[k] = y[k]
        <5>1. k \in 1 .. total - m + 1 /\ m + k - 1 \in 1 .. total
          BY <4>4, <4>6, <4>8 DEF x
        <5> QED
          BY <4>1, <4>4, <4>5, <5>1 DEF x, y
      <4>9. x = y
        BY <4>7, <4>8, SeqEqual
      <4>10. t.inner = x
        BY <2>15, <2>16 DEF x, m
      <4>11. y = e
        BY <2>5, <3>2 DEF y, m
      <4> QED
        BY <4>9, <4>10, <4>11
    <3>6. t.address = r.address + 4 /\ t.reader.address = r.address + (4 + Len(e))
      BY <2>5, <2>15, <2>16, <3>2, Sizes
    <3> DEFINE a == r.address
               p == Len(e)
    <3>7. a \in Nat /\ p \in Nat /\ a % 2 = 0 /\ p % 2 = 0 /\ 4 \in Nat /\ 4 % 2 = 0
      BY <1>1, <2>4
    <3> HIDE DEF a, p
    <3>10. 4 + p \in Nat /\ (4 + p) % 2 = 0
      BY <3>7, EvenSum
    <3>8. a + 4 \in Nat /\ (a + 4) % 2 = 0 /\ (a + (4 + p)) % 2 = 0
      BY <3>7, <3>10, EvenSum
    <3> QED
      BY <2>3, <3>4, <3>5, <3>6, <3>8 DEF a, p
  <2> QED
    BY <2>1, <2>15, <2>16 DEF t, b, z, G
<1> QED
  BY <1>3, <1>4

-----------------------------------------------------------------------------
(***************************************************************************)
(* What is owed to the operations.                                         *)
(***************************************************************************)
\* Whatever the device answers makes a frame, is read as it was said, and is no longer than what
\* the offline tools ask for; the answer to an exchange that is accepted holds its samples.
LEMMA AnswerReads ==
  ASSUME host \in Hosts, NEW kind \in Kinds, NEW i \in 1 .. MaxOps, NEW a \in Answers(kind, i)
  PROVE  /\ a # Nothing /\ Framed(InnerOf(a)) /\ ReadAs(kind, a)
         /\ Offline => Len(InnerOf(a)) <= (IF kind = "exchange" THEN OFFLINE_SIZE ELSE ACK_SIZE)
         /\ kind = "exchange" /\ Accepted(kind, a) =>
              a.sequence = Number(i) /\ a.down = PeriodOf(i).down /\ a.up = PeriodOf(i).up
<1>1. ACK_SIZE \in Nat /\ OFFLINE_SIZE \in Nat /\ ACK_SIZE <= OFFLINE_SIZE
  BY Sizes
<1>2. OK \in {OK, NOT_ACTIVE} /\ NOT_ACTIVE \in {OK, NOT_ACTIVE} /\ 0 \in {0, 2}
  OBVIOUS
<1>3. CASE kind # "exchange"
  <2>1. PICK word \in {0, 2} : a = AckOf(Asks(kind, i), word, OK)
    BY <1>3 DEF Answers
  <2>2. a # Nothing /\ Framed(InnerOf(a)) /\ Len(InnerOf(a)) = ACK_SIZE /\ ReadAs(kind, a)
    BY <1>2, <1>3, <2>1, AckReads
  <2> QED
    BY <1>1, <1>3, <2>2
<1>4. CASE kind = "exchange" /\ a = AckOf(Asks(kind, i), 0, NOT_ACTIVE)
  <2>1. /\ a # Nothing /\ Framed(InnerOf(a)) /\ Len(InnerOf(a)) = ACK_SIZE /\ ReadAs(kind, a)
        /\ ~Accepted(kind, a)
    BY <1>2, <1>4, AckReads
  <2> QED
    BY <1>1, <1>4, <2>1
<1>5. CASE kind = "exchange" /\ a # AckOf(Asks(kind, i), 0, NOT_ACTIVE)
  <2>1. PICK s \in Statuses : a = EchoOf(Asks(kind, i), s)
    BY <1>5 DEF Answers
  <2>2. a = EchoOf(Asks("exchange", i), s)
    BY <1>5, <2>1
  <2>3. /\ a # Nothing /\ Framed(InnerOf(a)) /\ ReadAs("exchange", a)
        /\ Offline => Len(InnerOf(a)) = OFFLINE_SIZE
        /\ a.sequence = Number(i) /\ a.down = PeriodOf(i).down /\ a.up = PeriodOf(i).up
    BY <2>2, EchoReads
  <2> QED
    BY <1>1, <1>5, <2>3
<1> QED
  BY <1>3, <1>4, <1>5

\* Frames with their lengths are the same only when the frames are.
LEMMA WrapEqual ==
  ASSUME NEW a \in Seq(Byte), NEW b \in Seq(Byte), Wrap(a) = Wrap(b)
  PROVE  a = b
<1>1. SubSeq(Wrap(a), PREFIX + 1, Len(Wrap(a))) = a /\ SubSeq(Wrap(b), PREFIX + 1, Len(Wrap(b))) = b
  BY WrapFacts
<1> QED
  BY <1>1

\* What is owed to the operation i when the device has said s, and to all of them.
Piece(o, s, i) == IF s[i] = Nothing \/ o[i].at \in {"done", "failed"} THEN <<>> ELSE OnLine(s[i])
Owing(o, s) == [i \in DOMAIN o |-> Piece(o, s, i)]
\* The device has answered some of the first n operations, each with an answer to what was asked.
Told(o, s, n) ==
  /\ IsTuple(s) /\ Len(s) = Len(o)
  /\ \A i \in 1 .. Len(o) : s[i] # Nothing => i <= n /\ s[i] \in Answers(o[i].kind, i)

\* It is owed bytes only while it is under way, and then always.
LEMMA OwingFacts ==
  ASSUME host \in Hosts, NEW o, OpsTyped(o), Len(o) <= MaxOps, NEW s, NEW n, Told(o, s, n)
  PROVE  /\ Pieces(Owing(o, s)) /\ Len(Owing(o, s)) = Len(o)
         /\ \A i \in 1 .. Len(o) : Owing(o, s)[i] = Piece(o, s, i)
         /\ ~Offline => Wrapped(Owing(o, s))
         /\ \A i \in 1 .. Len(o) : s[i] # Nothing => OnLine(s[i]) \in Seq(Byte) /\ OnLine(s[i]) # <<>>
         /\ \A i \in 1 .. Len(o) : Piece(o, s, i) # <<>> <=> s[i] # Nothing /\ Going(o[i])
<1> DEFINE F == Owing(o, s)
<1>1. /\ Len(o) \in Nat /\ DOMAIN o = 1 .. Len(o) /\ \A i \in 1 .. Len(o) : Shaped(o[i])
  BY TupleSeq DEF OpsTyped, IsTuple
<1>2. F = [i \in 1 .. Len(o) |-> Piece(o, s, i)]
  BY <1>1 DEF Owing
<1> HIDE DEF F
<1>3. F = [i \in 1 .. Len(o) |-> F[i]] /\ \A i \in 1 .. Len(o) : F[i] = Piece(o, s, i)
  BY <1>2
<1>4. IsTuple(F) /\ Len(F) = Len(o)
  BY <1>1, <1>3, FunctionTuple
<1>5. ASSUME NEW i \in 1 .. Len(o), s[i] # Nothing
      PROVE  /\ Framed(InnerOf(s[i])) /\ OnLine(s[i]) \in Seq(Byte) /\ OnLine(s[i]) # <<>>
             /\ ~Offline => OnLine(s[i]) = Wrap(InnerOf(s[i]))
  <2> DEFINE a == s[i]
             b == InnerOf(a)
  <2>1. a \in Answers(o[i].kind, i) /\ o[i].kind \in Kinds /\ i \in 1 .. MaxOps
    <3>1. MaxOps \in Nat
      BY LinkAssumption
    <3>2. i \in 1 .. MaxOps
      BY <1>1, <3>1
    <3>3. o[i].kind \in Kinds
      BY <1>1 DEF Shaped
    <3>4. a \in Answers(o[i].kind, i)
      BY <1>5 DEF Told
    <3> QED
      BY <3>2, <3>3, <3>4
  <2>2. Framed(b)
    BY <2>1, AnswerReads
  <2>3. OnLine(a) = IF Offline THEN b ELSE Wrap(b)
    BY DEF OnLine
  <2> HIDE DEF b, a
  <2>4. b \in Seq(Byte) /\ Len(b) >= 1 /\ Len(b) \in Nat
    BY <2>2, LenProperties DEF Framed
  <2>5. Wrap(b) \in Seq(Byte) /\ Len(Wrap(b)) = PREFIX + Len(b)
    BY <2>4, WrapFacts
  <2> DEFINE w == Wrap(b)
  <2> HIDE DEF w
  <2>6. w \in Seq(Byte) /\ Len(w) # 0 /\ Len(b) # 0
    <3>1. PREFIX + Len(b) # 0
      BY <2>4, Sizes
    <3> QED
      BY <2>4, <2>5, <3>1 DEF w
  <2>7. w # <<>> /\ b # <<>>
    BY <2>6
  <2> QED
    BY <2>2, <2>3, <2>4, <2>6, <2>7 DEF a, b, w
<1>6. ASSUME NEW i \in 1 .. Len(o)
      PROVE  /\ Piece(o, s, i) \in Seq(Byte)
             /\ Piece(o, s, i) # <<>> <=> s[i] # Nothing /\ Going(o[i])
             /\ ~Offline => Piece(o, s, i) = <<>> \/ \E b : Framed(b) /\ Piece(o, s, i) = Wrap(b)
  <2>1. Going(o[i]) <=> ~(o[i].at \in {"done", "failed"})
    BY <1>1 DEF Shaped, Ats, Going
  <2>2. CASE s[i] = Nothing \/ ~Going(o[i])
    <3>1. Piece(o, s, i) = <<>>
      BY <2>1, <2>2 DEF Piece
    <3> QED
      BY <2>2, <3>1
  <2>3. CASE s[i] # Nothing /\ Going(o[i])
    <3>1. Piece(o, s, i) = OnLine(s[i])
      BY <2>1, <2>3 DEF Piece
    <3> QED
      BY <1>5, <2>3, <3>1
  <2> QED
    BY <2>2, <2>3
<1>7. Pieces(F)
  BY <1>3, <1>4, <1>6 DEF Pieces
<1>8. ~Offline => Wrapped(F)
  BY <1>3, <1>4, <1>6, <1>7 DEF Wrapped
<1> QED
  BY <1>3, <1>4, <1>5, <1>6, <1>7, <1>8 DEF F

-----------------------------------------------------------------------------
(***************************************************************************)
(* What has been said, what is owed and what has ended fit together.       *)
(***************************************************************************)
\* The device has answered every request it has looked at.
AllSaid(s, n) == \A i \in 1 .. n : s[i] # Nothing
\* What reads is among the waiters.
EachWaits(o, w) == \A i \in 1 .. Len(o) : o[i].at = "reading" => \E k \in 1 .. Len(w) : w[k] = i
\* What has ended has ended with what was said of it.
Truthful(o, s) ==
  \A i \in 1 .. Len(o) :
    /\ o[i].at = "done" => s[i] # Nothing /\ o[i].result = s[i] /\ Accepted(o[i].kind, s[i])
    /\ o[i].at = "failed" => s[i] # Nothing /\ ~Accepted(o[i].kind, s[i])
\* The buffer and the line hold what is owed.
Match(o, s, r, l) == r.buffer \o l = FlattenSeq(Owing(o, s)) /\ r.address % 2 = 0
\* What is under way fits the session of the page.
InSession(o, state) ==
  Web => \A i \in 1 .. Len(o) : Going(o[i]) =>
           /\ o[i].kind = "exchange" => state = "active"
           /\ o[i].kind = "enter" => state \in {"closed", "lost"}
           /\ o[i].kind = "query" => state = "entered"

\* What is read of an answer ends the operation with what was said.
LEMMA SettleTrue ==
  ASSUME NEW op, Shaped(op), op.at = "reading", NEW a, ReadAs(op.kind, a),
         NEW f, f.inner = InnerOf(a), f.address \in Nat, f.address % 2 = 0
  PROVE  /\ Settle(op, f).at = "done" => Settle(op, f).result = a /\ Accepted(op.kind, a)
         /\ Settle(op, f).at = "failed" => ~Accepted(op.kind, a)
<1> DEFINE result == Read(op.kind, f)
           at == IF Accepted(op.kind, result) THEN "done" ELSE "failed"
           p == [op EXCEPT !.at = at]
           q == [p EXCEPT !.result = result]
<1>1. Settle(op, f) = q
  BY DEF Settle
<1>2. (Accepted(op.kind, result) <=> Accepted(op.kind, a)) /\ (Accepted(op.kind, a) => result = a)
  BY DEF ReadAs
<1>3. (at = "done" <=> Accepted(op.kind, result)) /\ (at = "failed" <=> ~Accepted(op.kind, result))
  OBVIOUS
<1> HIDE DEF at, result
<1>4. p = [kind |-> op.kind, at |-> at, result |-> op.result]
  BY DEF Shaped
<1> HIDE DEF p
<1>5. q.at = at /\ q.result = result
  BY <1>4
<1> HIDE DEF q
<1> QED
  BY <1>1, <1>2, <1>3, <1>5

\* What is owed is known piece by piece.
LEMMA OwingOver ==
  ASSUME NEW o, OpsTyped(o), NEW s, NEW F, IsTuple(F), Len(F) = Len(o),
         \A j \in 1 .. Len(o) : F[j] = Piece(o, s, j)
  PROVE  Owing(o, s) = F
<1>1. DOMAIN o = 1 .. Len(o) /\ Len(o) \in Nat /\ F = [j \in 1 .. Len(o) |-> F[j]]
  BY TupleSeq DEF OpsTyped, IsTuple
<1>2. Owing(o, s) = [j \in 1 .. Len(o) |-> Piece(o, s, j)]
  BY <1>1 DEF Owing
<1> QED
  BY <1>1, <1>2

\* The device has told as much of operations that have moved on.
LEMMA ToldFollows ==
  ASSUME NEW o, NEW q, Follows(o, q), NEW s, NEW n, Told(o, s, n)
  PROVE  Told(q, s, n)
BY DEF Follows, Told

\* An answer that was given makes a frame, and is read as it was given.
LEMMA SaidReads ==
  ASSUME host \in Hosts, NEW o, OpsTyped(o), Len(o) <= MaxOps, NEW s, NEW n, Told(o, s, n),
         NEW i \in 1 .. Len(o), s[i] # Nothing
  PROVE  /\ Framed(InnerOf(s[i])) /\ ReadAs(o[i].kind, s[i]) /\ InnerOf(s[i]) \in Seq(Byte)
         /\ Offline => Len(InnerOf(s[i])) <= (IF o[i].kind = "exchange" THEN OFFLINE_SIZE ELSE ACK_SIZE)
         /\ o[i].kind = "exchange" /\ Accepted(o[i].kind, s[i]) =>
              s[i].sequence = Number(i) /\ s[i].down = PeriodOf(i).down /\ s[i].up = PeriodOf(i).up
<1>1. MaxOps \in Nat /\ Len(o) \in Nat
  BY LinkAssumption DEF OpsTyped, IsTuple
<1>2. i \in 1 .. MaxOps
  BY <1>1
<1>3. o[i].kind \in Kinds
  BY DEF OpsTyped, Shaped
<1>4. s[i] \in Answers(o[i].kind, i)
  BY DEF Told
<1> DEFINE a == s[i]
           kind == o[i].kind
<1>5. a \in Answers(kind, i) /\ kind \in Kinds
  BY <1>3, <1>4
<1> HIDE DEF a, kind
<1>6. /\ Framed(InnerOf(a)) /\ ReadAs(kind, a)
      /\ Offline => Len(InnerOf(a)) <= (IF kind = "exchange" THEN OFFLINE_SIZE ELSE ACK_SIZE)
      /\ kind = "exchange" /\ Accepted(kind, a) =>
           a.sequence = Number(i) /\ a.down = PeriodOf(i).down /\ a.up = PeriodOf(i).up
  BY <1>2, <1>5, AnswerReads
<1>7. InnerOf(a) \in Seq(Byte)
  BY <1>6 DEF Framed
<1> QED
  BY <1>6, <1>7 DEF a, kind

\* Operations from which those of the state can have come: what has ended is as it was.
Based(b) ==
  OneByOne(b) /\ \A j \in 1 .. Len(b) : Going(b[j]) \/ (j \in DOMAIN ops /\ b[j] = ops[j])

\* What has just ended was under way.
LEMMA JustWas ==
  ASSUME NEW b, Based(b), NEW q, Follows(b, q), NEW kind, NEW at, Just(q, kind, at)
  PROVE  \E e \in 1 .. Len(b) : Going(b[e]) /\ b[e].kind = kind /\ q[e].at = at
<1>1. PICK e \in DOMAIN q : /\ q[e].kind = kind /\ q[e].at = at
                            /\ e \in DOMAIN ops => ops[e].at \in {"writing", "reading"}
  BY DEF Just
<1>2. e \in 1 .. Len(b) /\ b[e].kind = kind
  <2>1. DOMAIN q = 1 .. Len(b)
    BY TupleSeq DEF Follows
  <2> QED
    BY <1>1, <2>1 DEF Follows
<1>3. Going(b[e])
  BY <1>1, <1>2 DEF Based, Going
<1> QED
  BY <1>1, <1>2, <1>3

\* Only exchanges that read are given up.
LEMMA NoneGivenUp ==
  ASSUME NEW q, OpsTyped(q), \A j \in 1 .. Len(q) : ~(q[j].kind = "exchange" /\ q[j].at = "reading")
  PROVE  GivenUp(q) = q
<1>1. DOMAIN q = 1 .. Len(q) /\ q = [j \in 1 .. Len(q) |-> q[j]]
  BY TupleSeq DEF OpsTyped, IsTuple
<1>2. GivenUp(q) = [j \in 1 .. Len(q) |-> q[j]]
  BY <1>1 DEF GivenUp
<1> QED
  BY <1>1, <1>2

\* What follows when operations have ended keeps the buffer in step: it is cleared only when
\* nothing is owed any more.
LEMMA EndedTrue ==
  ASSUME host \in Hosts, NEW b, Based(b), NEW q, Follows(b, q), Len(q) <= MaxOps, NEW s, NEW n, Told(q, s, n),
         Truthful(q, s), NEW l \in Seq(Byte), NEW r \in Readers(Nat), Match(q, s, r, l), GivenUp(q) = q, Ended(q, r)
  PROVE  Truthful(ops', s) /\ Match(ops', s, reader', l)
<1>1. ops' = q /\ reader' = IF Exited(q) /\ host \in {"bridge", "realtime"} THEN Cleared(r) ELSE r
  BY DEF Ended
<1>2. CASE ~(Exited(q) /\ host \in {"bridge", "realtime"})
  BY <1>1, <1>2
<1>3. CASE Exited(q) /\ host \in {"bridge", "realtime"}
  <2>1. ~Web /\ OpsTyped(q) /\ Len(q) = Len(b) /\ LastOnly(b)
    BY <1>3 DEF Web, Based, OneByOne, OpsTyped, Follows
  <2>2. \E at \in {"done", "failed"} : Just(q, "exit", at)
    BY <1>3 DEF Exited
  <2>3. PICK e \in 1 .. Len(b) : Going(b[e]) /\ q[e].at \in {"done", "failed"}
    BY <2>2, JustWas
  <2>4. e = Len(b)
    BY <2>1, <2>3 DEF LastOnly
  <2>5. ASSUME NEW j \in 1 .. Len(q) PROVE ~Going(q[j])
    <3> SUFFICES ASSUME Going(q[j]) PROVE FALSE
      OBVIOUS
    <3>1. j \in 1 .. Len(b) /\ Going(b[j])
      BY <2>1 DEF Follows
    <3>2. j = e
      BY <2>1, <2>4, <3>1 DEF LastOnly
    <3> QED
      BY <2>3, <3>2 DEF Going
  <2> DEFINE F == Owing(q, s)
  <2>6. /\ Pieces(F) /\ Len(F) = Len(q) /\ \A i \in 1 .. Len(q) : F[i] = Piece(q, s, i)
        /\ \A i \in 1 .. Len(q) : Piece(q, s, i) # <<>> => Going(q[i])
    BY <2>1, OwingFacts
  <2>7. \A i \in 1 .. Len(F) : F[i] = <<>>
    BY <2>5, <2>6
  <2> HIDE DEF F
  <2>8. FlattenSeq(F) = <<>>
    BY <2>6, <2>7, FlattenTyped
  <2>9. r.buffer \o l = <<>> /\ r.buffer \in Seq(Byte)
    BY <2>8 DEF Match, F, Readers
  <2>10. r.buffer = <<>>
    BY <2>9, ConcatSimplifications
  <2>11. Cleared(r).buffer = <<>> /\ Cleared(r).address = 0 /\ 0 % 2 = 0
    BY ClearedFacts
  <2> QED
    BY <1>1, <1>3, <2>10, <2>11 DEF Match
<1> QED
  BY <1>2, <1>3

\* readFrame finds the answer to its operation or nothing: what ends ends with what was said, and
\* the reader stays in step.
LEMMA ReadFrameTrue ==
  ASSUME host \in Hosts, session \in Sessions, NEW i, NEW o, NEW r, About(i, o), Based(o), Served(o, r),
         Len(o) <= MaxOps, \A k \in 1 .. Len(r.waiters) : r.waiters[k] < i, ReadFrame(i, o, r),
         EachWaits(o, r.waiters), Offline /\ r.waiters = <<>> => r.buffer = <<>>,
         NEW s, NEW n, Told(o, s, n), Truthful(o, s), NEW l \in Seq(Byte), Match(o, s, r, l)
  PROVE  Truthful(ops', s) /\ Match(ops', s, reader', l)
<1> DEFINE t == TryTake(r)
           op == [o[i] EXCEPT !.at = "reading"]
           q == [o EXCEPT ![i] = op]
           w == r.waiters
           F == Owing(o, s)
<1>1. /\ OneByOne(o) /\ OpsTyped(o) /\ LastOnly(o) /\ IsTuple(o) /\ Len(o) \in Nat /\ i \in 1 .. Len(o) /\ i = Len(o)
      /\ o = [j \in 1 .. Len(o) |-> o[j]] /\ Shaped(o[i]) /\ o[i].at = "writing"
  BY DEF About, OneByOne, OpsTyped, IsTuple
<1>2. op = [o[i] EXCEPT !.at = "reading"]
  OBVIOUS
<1>3. Shaped(op) /\ op.kind = o[i].kind /\ op.at = "reading"
  BY <1>1 DEF Shaped, Ats
<1>4. [o EXCEPT ![i].at = "reading"] = q
  OBVIOUS
<1>5. r \in Readers(Nat) /\ w \in Seq(1 .. Len(o)) /\ Len(w) \in Nat /\ r.buffer \in Seq(Byte)
  BY LenProperties DEF Served, Waiting, Readers
<1>6. t.reader \in Readers(Nat) /\ t.reader.waiters = w
  BY <1>5, TakeFacts
<1>7. /\ Pieces(F) /\ Len(F) = Len(o) /\ \A j \in 1 .. Len(o) : F[j] = Piece(o, s, j)
      /\ ~Offline => Wrapped(F)
      /\ \A j \in 1 .. Len(o) : Piece(o, s, j) # <<>> => s[j] # Nothing /\ Going(o[j])
  BY <1>1, OwingFacts
<1>8. r.buffer \o l = FlattenSeq(F) /\ r.address % 2 = 0
  BY DEF Match
<1> HIDE DEF F
<1>9. CASE Offline \/ ~t.taken
  <2> DEFINE base == IF Offline THEN Cleared(r) ELSE t.reader
             v == Append(w, i)
             new == [base EXCEPT !.waiters = Append(@, i)]
  <2>1. base \in Readers(Nat) /\ base.waiters = w
    BY <1>5, <1>6, ClearedFacts
  <2>2. Ended(q, new)
    BY <1>4, <1>9 DEF ReadFrame
  <2> HIDE DEF op
  <2>0. q = Placed(o, i, op)
    BY DEF Placed
  <2> HIDE DEF q
  <2>3. /\ OneByOne(q) /\ Len(q) = Len(o) /\ q[i] = op /\ Follows(o, q)
        /\ \A j \in 1 .. Len(o) : j # i => q[j] = o[j]
    BY <1>3, <2>0, AboutToRead
  <2>4. GivenUp(q) = q
    BY <1>3, <2>3, NothingEnds DEF OneByOne, OpsTyped
  <2>5. base.buffer = r.buffer /\ base.address % 2 = 0
    <3>1. CASE Offline
      <4>1. w = <<>>
        <5>0. SUFFICES ASSUME w # <<>> PROVE FALSE
          OBVIOUS
        <5>1. 1 \in 1 .. Len(w)
          BY <1>5, <5>0, EmptySeq
        <5>2. w[1] \in 1 .. Len(o) /\ w[1] < i
          BY <1>5, <5>1, ElementOfSeq
        <5>3. ~Web
          BY <3>1, Programs
        <5>4. o[w[1]].at = "reading"
          BY <5>1, <5>3 DEF Served, AllReading
        <5>5. w[1] = Len(o)
          BY <1>1, <5>2, <5>3, <5>4 DEF LastOnly, Going
        <5> QED
          BY <1>1, <5>2, <5>5
      <4>2. r.buffer = <<>>
        BY <3>1, <4>1
      <4>3. base.buffer = <<>> /\ base.address = 0 /\ 0 % 2 = 0
        BY <1>5, <3>1, ClearedFacts
      <4> QED
        BY <4>2, <4>3
    <3>2. CASE ~Offline
      <4>1. base = t.reader /\ ~t.taken /\ Wrapped(F)
        BY <1>7, <1>9, <3>2
      <4>2. t.reader.buffer = r.buffer /\ t.reader.address = r.address
        BY <1>5, <1>8, <4>1, TakeOwed
      <4> QED
        BY <1>8, <4>1, <4>2
    <3> QED
      BY <3>1, <3>2
  <2>6. v \in Seq(Nat)
    <3>1. w \in Seq(Nat) /\ i \in Nat
      BY <1>1, <1>5, SeqMonotonic
    <3> QED
      BY <3>1, AppendProperties
  <2>7. new = Queued(base, v)
    BY <2>1 DEF new, Queued
  <2> HIDE DEF new, base, v
  <2>8. new \in Readers(Nat) /\ new.buffer = base.buffer /\ new.address = base.address
    BY <2>1, <2>6, <2>7, QueuedFacts
  <2>9. Owing(q, s) = F
    <3> SUFFICES ASSUME NEW j \in 1 .. Len(q) PROVE F[j] = Piece(q, s, j)
      BY <1>7, <2>3, OwingOver DEF Pieces, OneByOne
    <3>1. q[j].at \in {"done", "failed"} <=> o[j].at \in {"done", "failed"}
      BY <1>1, <1>3, <2>3
    <3> QED
      BY <1>7, <2>3, <3>1 DEF Piece
  <2>10. Match(q, s, new, l)
    BY <1>8, <2>5, <2>8, <2>9 DEF Match
  <2>11. Truthful(q, s)
    <3> SUFFICES ASSUME NEW j \in 1 .. Len(q), q[j].at \in {"done", "failed"} PROVE q[j] = o[j] /\ j \in 1 .. Len(o)
      BY DEF Truthful
    <3> QED
      BY <1>3, <2>3
  <2>12. Told(q, s, n)
    BY <2>3, ToldFollows
  <2>13. Len(q) <= MaxOps
    BY <2>3
  <2> QED
    BY <2>2, <2>3, <2>4, <2>8, <2>10, <2>11, <2>12, <2>13, EndedTrue
<1>10. CASE ~Offline /\ t.taken
  <2> DEFINE op2 == Settle(op, t)
             q2 == [o EXCEPT ![i] = op2]
             G == Without(F, i)
  <2>1. Ended(q2, t.reader)
    <3>1. [q EXCEPT ![i] = Settle(@, t)] = q2
      BY <1>1
    <3> QED
      BY <1>4, <1>10, <3>1 DEF ReadFrame
  <2> HIDE DEF op
  <2>2. Shaped(op2) /\ op2.kind = o[i].kind /\ op2.at \in {"done", "failed"}
    BY <1>3, SettleFacts
  <2> HIDE DEF op2
  <2>3. q2 = Placed(o, i, op2)
    BY DEF Placed
  <2> HIDE DEF q2
  <2>4. /\ OneByOne(q2) /\ Len(q2) = Len(o) /\ q2[i] = op2 /\ Follows(o, q2) /\ OpsTyped(q2)
        /\ \A j \in 1 .. Len(o) : j # i => q2[j] = o[j]
    BY <2>2, <2>3, AboutToRead DEF OneByOne
  <2>5. w = <<>> /\ Len(w) = 0
    BY <1>10 DEF Served
  <2>6. PICK j \in 1 .. Len(F) :
          /\ FirstPiece(F, j) /\ F[j] = Wrap(t.inner)
          /\ t.address \in Nat /\ t.address % 2 = 0
          /\ t.reader.address % 2 = 0
          /\ t.reader.buffer \o l = FlattenSeq(Without(F, j))
    BY <1>5, <1>7, <1>8, <1>10, TakeOwed
  <2>7. \A m \in 1 .. Len(o) : o[m].at # "reading"
    BY <2>5 DEF EachWaits
  <2>8. s[j] # Nothing /\ Going(o[j]) /\ j \in 1 .. Len(o)
    BY <1>7, <2>6 DEF FirstPiece
  <2>9. j = i
    <3>1. ASSUME j # i PROVE FALSE
      <4>1. o[j].at = "writing"
        BY <2>7, <2>8 DEF Going
      <4>2. ~(Web /\ o[j].kind = "exchange")
        BY <2>8, <3>1, <4>1 DEF About
      <4>3. j = Len(o)
        BY <1>1, <2>8, <4>2 DEF LastOnly
      <4> QED
        BY <1>1, <3>1, <4>3
    <3> QED
      BY <3>1
  <2> DEFINE a == s[i]
  <2>10. t.inner \in Seq(Byte)
    BY <1>5, <1>10, TakeFacts
  <2>11. a # Nothing /\ ReadAs(o[i].kind, a) /\ InnerOf(a) \in Seq(Byte)
    BY <1>1, <2>8, <2>9, SaidReads
  <2>12. F[i] = Wrap(InnerOf(a))
    <3>1. F[i] = OnLine(a)
      BY <1>1, <1>7, <2>11 DEF Piece
    <3> QED
      BY <1>10, <3>1 DEF OnLine
  <2> HIDE DEF a
  <2>13. t.inner = InnerOf(a)
    BY <2>6, <2>9, <2>10, <2>11, <2>12, WrapEqual
  <2>14. (op2.at = "done" => op2.result = a /\ Accepted(op2.kind, a)) /\ (op2.at = "failed" => ~Accepted(op2.kind, a))
    <3> HIDE DEF t
    <3> QED
      BY <1>3, <2>2, <2>6, <2>11, <2>13, SettleTrue DEF op2
  <2>15. Truthful(q2, s)
    <3> SUFFICES ASSUME NEW m \in 1 .. Len(q2)
                 PROVE  /\ q2[m].at = "done" => s[m] # Nothing /\ q2[m].result = s[m] /\ Accepted(q2[m].kind, s[m])
                        /\ q2[m].at = "failed" => s[m] # Nothing /\ ~Accepted(q2[m].kind, s[m])
      BY DEF Truthful
    <3>1. CASE m = i
      BY <2>4, <2>11, <2>14, <3>1 DEF a
    <3>2. CASE m # i
      BY <2>4, <3>2 DEF Truthful
    <3> QED
      BY <3>1, <3>2
  <2>16. Owing(q2, s) = G
    <3>0. i \in 1 .. Len(F)
      BY <1>1, <1>7
    <3>1. Pieces(G) /\ Len(G) = Len(o) /\ G[i] = <<>> /\ \A m \in 1 .. Len(o) : m # i => G[m] = F[m]
      BY <1>7, <3>0, WithoutFacts
    <3> HIDE DEF G
    <3>4. IsTuple(G)
      BY <3>1 DEF Pieces
    <3> SUFFICES ASSUME NEW m \in 1 .. Len(q2) PROVE G[m] = Piece(q2, s, m)
      BY <2>4, <3>1, <3>4, OwingOver
    <3>2. CASE m = i
      BY <2>2, <2>4, <3>1, <3>2 DEF Piece
    <3>3. CASE m # i
      BY <1>7, <2>4, <3>1, <3>3 DEF Piece
    <3> QED
      BY <3>2, <3>3
  <2>17. Match(q2, s, t.reader, l)
    BY <2>6, <2>9, <2>16 DEF Match
  <2>18. \A m \in 1 .. Len(q2) : q2[m].at # "reading"
    BY <2>2, <2>4, <2>7
  <2>19. GivenUp(q2) = q2
    BY <2>4, <2>18, NoneGivenUp
  <2>20. Told(q2, s, n)
    BY <2>4, ToldFollows
  <2>21. Len(q2) <= MaxOps
    BY <2>4
  <2> HIDE DEF t
  <2> QED
    BY <1>6, <2>1, <2>4, <2>15, <2>17, <2>19, <2>20, <2>21, EndedTrue
<1> QED
  BY <1>9, <1>10

\* What reads still has not been given up, and the page gives up every exchange that reads.
LEMMA StillReads ==
  ASSUME NEW q, OpsTyped(q), NEW i \in 1 .. Len(q), GivenUp(q)[i].at = "reading"
  PROVE  /\ q[i].at = "reading" /\ GivenUp(q)[i].kind = q[i].kind
         /\ q[i].kind = "exchange" => ~Lost(q) /\ ~(Web /\ Exited(q))
<1> DEFINE gone == Lost(q) \/ (Web /\ Exited(q))
           op == q[i]
           e == [op EXCEPT !.at = "failed"]
           ends == gone /\ op.kind = "exchange" /\ op.at = "reading"
<1>1. DOMAIN q = 1 .. Len(q) /\ Shaped(op)
  BY TupleSeq DEF OpsTyped
<1>2. GivenUp(q)[i] = IF ends THEN e ELSE op
  BY <1>1 DEF GivenUp
<1>3. e.at = "failed"
  BY <1>1 DEF Shaped
<1> HIDE DEF e, op
<1>4. ~ends /\ GivenUp(q)[i] = op
  BY <1>2, <1>3
<1> QED
  BY <1>4 DEF op

\* What reads goes on waiting when others have ended.
LEMMA EndedWaits ==
  ASSUME NEW q, OpsTyped(q), NEW r \in Readers(Nat), Ended(q, r), EachWaits(q, r.waiters)
  PROVE  EachWaits(ops', reader'.waiters)
<1>1. ops' = GivenUp(q) /\ (reader' = Cleared(r) \/ reader' = r) /\ Len(GivenUp(q)) = Len(q)
  BY GivenUpFacts DEF Ended
<1>2. reader'.waiters = r.waiters
  BY <1>1, ClearedFacts
<1>3. \A i \in 1 .. Len(q) : GivenUp(q)[i].at = "reading" => q[i].at = "reading"
  BY StillReads
<1> QED
  BY <1>1, <1>2, <1>3 DEF EachWaits

\* The session of the page, when what was under way has ended: whatever is still under way fits it.
LEMMA EndedSession ==
  ASSUME host \in Hosts, NEW b, Based(b), NEW q, Follows(b, q), AtOnce(q), InSession(b, session), NEW r, Ended(q, r)
  PROVE  InSession(ops', session')
<1> DEFINE p == GivenUp(q)
<1>1. ops' = p /\ session' = Session(q)
  BY DEF Ended
<1>2. SUFFICES ASSUME Web, NEW i \in 1 .. Len(p), Going(p[i])
               PROVE  /\ p[i].kind = "exchange" => Session(q) = "active"
                      /\ p[i].kind = "enter" => Session(q) \in {"closed", "lost"}
                      /\ p[i].kind = "query" => Session(q) = "entered"
  BY <1>1 DEF InSession
<1>3. OpsTyped(q) /\ Len(q) = Len(b) /\ LastOnly(b) /\ host = "webserial"
  BY <1>2 DEF Based, OneByOne, OpsTyped, Follows, Web
<1>4. Follows(q, p) /\ Len(p) = Len(q)
  BY <1>3, GivenUpFacts
<1> HIDE DEF p
<1>5. i \in 1 .. Len(q) /\ i \in 1 .. Len(b) /\ Going(q[i]) /\ Going(b[i]) /\ p[i].kind = b[i].kind /\ q[i].kind = b[i].kind
  BY <1>2, <1>3, <1>4 DEF Follows
<1>6. ASSUME p[i].kind = "exchange" PROVE ~Lost(q) /\ ~Exited(q)
  <2>1. q[i].at # "writing"
    BY <1>2, <1>5, <1>6 DEF AtOnce
  <2>2. p[i].at = "reading"
    BY <1>2, <1>4, <1>5, <2>1 DEF Follows, Going
  <2> QED
    BY <1>2, <1>3, <1>5, <1>6, <2>2, StillReads DEF p
<1>7. /\ p[i].kind = "exchange" => session = "active"
      /\ p[i].kind = "enter" => session \in {"closed", "lost"}
      /\ p[i].kind = "query" => session = "entered"
  BY <1>2, <1>5 DEF InSession
<1>8. ASSUME NEW kind, kind # "exchange", NEW at \in {"done", "failed"}, Just(q, kind, at)
      PROVE  /\ p[i].kind = "exchange"
             /\ kind = "enter" => session \in {"closed", "lost"}
             /\ kind = "query" => session = "entered"
  <2>1. PICK e \in 1 .. Len(b) : Going(b[e]) /\ b[e].kind = kind /\ q[e].at = at
    BY <1>8, JustWas
  <2>2. e = Len(b)
    BY <1>8, <2>1, <1>3 DEF LastOnly
  <2>3. i # e
    BY <1>5, <1>8, <2>1 DEF Going
  <2>4. b[i].kind = "exchange"
    BY <1>3, <1>5, <2>2, <2>3 DEF LastOnly
  <2> QED
    BY <1>2, <1>5, <2>1, <2>4 DEF InSession
<1>9. ASSUME Lost(q) PROVE session = "active"
  <2>1. PICK e \in 1 .. Len(b) : Going(b[e]) /\ b[e].kind = "exchange"
    BY <1>9, JustWas DEF Lost
  <2> QED
    BY <1>2, <2>1 DEF InSession
<1>10. /\ ~Exited(q) /\ ~Just(q, "enter", "failed") /\ ~Just(q, "query", "failed")
       /\ ~Just(q, "query", "done") /\ ~Just(q, "enter", "done")
  <2>1. ~Exited(q)
    BY <1>6, <1>8 DEF Exited
  <2> QED
    BY <1>7, <1>8, <2>1
<1>11. Session(q) = IF Lost(q) THEN "lost" ELSE session
  <2>1. host # "realtime" /\ host # "offline"
    BY <1>3
  <2> QED
    BY <1>10, <2>1 DEF Session
<1> QED
  BY <1>6, <1>7, <1>9, <1>11

\* readFrame: what reads waits, and what is under way fits the session.
LEMMA ReadFrameWaits ==
  ASSUME host \in Hosts, session \in Sessions, NEW i, NEW o, NEW r, About(i, o), Based(o), Served(o, r),
         ReadFrame(i, o, r), EachWaits(o, r.waiters), InSession(o, session)
  PROVE  /\ EachWaits(ops', reader'.waiters) /\ InSession(ops', session')
         /\ Offline => reader'.waiters # <<>>
<1> DEFINE t == TryTake(r)
           op == [o[i] EXCEPT !.at = "reading"]
           q == [o EXCEPT ![i] = op]
           w == r.waiters
<1>1. /\ OneByOne(o) /\ OpsTyped(o) /\ IsTuple(o) /\ Len(o) \in Nat /\ i \in 1 .. Len(o)
      /\ o = [j \in 1 .. Len(o) |-> o[j]] /\ Shaped(o[i])
  BY DEF About, OneByOne, OpsTyped, IsTuple
<1>3. Shaped(op) /\ op.kind = o[i].kind /\ op.at = "reading"
  BY <1>1 DEF Shaped, Ats
<1>4. [o EXCEPT ![i].at = "reading"] = q
  OBVIOUS
<1>5. r \in Readers(Nat) /\ w \in Seq(1 .. Len(o)) /\ w \in Seq(Nat) /\ i \in Nat
  BY <1>1, SeqMonotonic DEF Served, Waiting, Readers
<1>6. t.reader \in Readers(Nat) /\ t.reader.waiters = w
  BY <1>5, TakeFacts
<1>7. CASE Offline \/ ~t.taken
  <2> DEFINE base == IF Offline THEN Cleared(r) ELSE t.reader
             v == Append(w, i)
             new == [base EXCEPT !.waiters = Append(@, i)]
  <2>1. base \in Readers(Nat) /\ base.waiters = w
    BY <1>5, <1>6, ClearedFacts
  <2>2. Ended(q, new)
    BY <1>4, <1>7 DEF ReadFrame
  <2> HIDE DEF op
  <2>0. q = Placed(o, i, op)
    BY DEF Placed
  <2> HIDE DEF q
  <2>3. /\ OneByOne(q) /\ AtOnce(q) /\ OpsTyped(q) /\ Len(q) = Len(o) /\ q[i] = op /\ Follows(o, q)
        /\ \A j \in 1 .. Len(o) : j # i => q[j] = o[j]
    BY <1>3, <2>0, AboutToRead DEF OneByOne
  <2>4. v \in Seq(Nat) /\ Len(v) = Len(w) + 1 /\ v[Len(w) + 1] = i /\ \A k \in 1 .. Len(w) : v[k] = w[k]
    BY <1>5, AppendProperties
  <2>5. new = Queued(base, v)
    BY <2>1 DEF new, Queued
  <2> HIDE DEF new, base, v
  <2>6. new \in Readers(Nat) /\ new.waiters = v
    BY <2>1, <2>4, <2>5, QueuedFacts
  <2>7. Len(w) \in Nat
    BY <1>5, LenProperties
  <2>8. EachWaits(q, v)
    <3> SUFFICES ASSUME NEW j \in 1 .. Len(q), q[j].at = "reading" PROVE \E k \in 1 .. Len(v) : v[k] = j
      BY DEF EachWaits
    <3>1. CASE j = i
      <4>1. Len(w) + 1 \in 1 .. Len(v)
        BY <2>4, <2>7
      <4> QED
        BY <2>4, <3>1, <4>1
    <3>2. CASE j # i
      <4>1. PICK k \in 1 .. Len(w) : w[k] = j
        BY <2>3, <3>2 DEF EachWaits
      <4>2. v[k] = j
        BY <2>4, <4>1
      <4>3. k \in 1 .. Len(w) + 1
        BY <2>7, <4>1
      <4> QED
        BY <2>4, <4>2, <4>3
    <3> QED
      BY <3>1, <3>2
  <2>9. EachWaits(ops', reader'.waiters)
    BY <2>2, <2>3, <2>6, <2>8, EndedWaits
  <2>10. InSession(ops', session')
    BY <2>2, <2>3, EndedSession
  <2>11. reader'.waiters = v
    <3>1. reader' = new \/ reader' = Cleared(new)
      BY <2>2 DEF Ended
    <3> QED
      BY <2>6, <3>1, ClearedFacts
  <2>12. v # <<>>
    BY <2>4, <2>7
  <2> QED
    BY <2>9, <2>10, <2>11, <2>12
<1>8. CASE ~Offline /\ t.taken
  <2> DEFINE op2 == Settle(op, t)
             q2 == [o EXCEPT ![i] = op2]
  <2>1. Ended(q2, t.reader)
    <3>1. [q EXCEPT ![i] = Settle(@, t)] = q2
      BY <1>1
    <3> QED
      BY <1>4, <1>8, <3>1 DEF ReadFrame
  <2> HIDE DEF op
  <2>2. Shaped(op2) /\ op2.kind = o[i].kind /\ op2.at \in {"done", "failed"}
    BY <1>3, SettleFacts
  <2> HIDE DEF op2
  <2>3. q2 = Placed(o, i, op2)
    BY DEF Placed
  <2> HIDE DEF q2
  <2>4. /\ OneByOne(q2) /\ AtOnce(q2) /\ Len(q2) = Len(o) /\ q2[i] = op2 /\ Follows(o, q2) /\ OpsTyped(q2)
        /\ \A j \in 1 .. Len(o) : j # i => q2[j] = o[j]
    BY <2>2, <2>3, AboutToRead DEF OneByOne
  <2>5. EachWaits(q2, w)
    BY <2>2, <2>4 DEF EachWaits
  <2>6. EachWaits(ops', reader'.waiters)
    BY <1>6, <2>1, <2>4, <2>5, EndedWaits
  <2>7. InSession(ops', session')
    BY <2>1, <2>4, EndedSession
  <2> QED
    BY <1>8, <2>6, <2>7
<1> QED
  BY <1>7, <1>8

-----------------------------------------------------------------------------
(***************************************************************************)
(* A chunk finds everything in order and leaves it so.                     *)
(***************************************************************************)
\* The operations, the waiters and what was said, on a line on which nothing has gone wrong.
Orderly(o, w, s, n) ==
  /\ OneByOne(o) /\ AtOnce(o) /\ Len(o) <= MaxOps
  /\ Waiting(o, w) /\ AllReading(o, w) /\ EachWaits(o, w)
  /\ Told(o, s, n) /\ AllSaid(s, n)
\* What is owed to those that are not among the first c waiters.
Unread(F, w, c) == [i \in 1 .. Len(F) |-> IF \E j \in 1 .. c : w[j] = i THEN <<>> ELSE F[i]]
\* The frames are what was said to the first waiters, and what is left in the reader and on the
\* line is owed to the others.
Right(frames, r, o, s, w, l) ==
  /\ \A j \in 1 .. Len(frames) :
       /\ s[w[j]] # Nothing /\ frames[j].inner = InnerOf(s[w[j]])
       /\ frames[j].address \in Nat /\ frames[j].address % 2 = 0
  /\ r.buffer \o l = FlattenSeq(Unread(Owing(o, s), w, Len(frames)))
  /\ r.address % 2 = 0

\* It is pieces as before, some of them empty now.
LEMMA UnreadFacts ==
  ASSUME NEW F, Pieces(F), NEW w, NEW c \in Nat
  PROVE  /\ Pieces(Unread(F, w, c)) /\ Len(Unread(F, w, c)) = Len(F)
         /\ \A i \in 1 .. Len(F) : Unread(F, w, c)[i] = IF \E j \in 1 .. c : w[j] = i THEN <<>> ELSE F[i]
         /\ Wrapped(F) => Wrapped(Unread(F, w, c))
<1> DEFINE G == Unread(F, w, c)
<1>1. Len(F) \in Nat /\ \A i \in 1 .. Len(F) : F[i] \in Seq(Byte)
  BY DEF Pieces, IsTuple
<1>2. G = [i \in 1 .. Len(F) |-> IF \E j \in 1 .. c : w[j] = i THEN <<>> ELSE F[i]]
  BY DEF Unread
<1> HIDE DEF G
<1>3. /\ G = [i \in 1 .. Len(F) |-> G[i]]
      /\ \A i \in 1 .. Len(F) : G[i] = IF \E j \in 1 .. c : w[j] = i THEN <<>> ELSE F[i]
  BY <1>2
<1>4. IsTuple(G) /\ Len(G) = Len(F)
  BY <1>1, <1>3, FunctionTuple
<1>5. <<>> \in Seq(Byte)
  OBVIOUS
<1>6. \A i \in 1 .. Len(F) : G[i] = <<>> \/ G[i] = F[i]
  BY <1>3
<1>7. Pieces(G)
  BY <1>1, <1>4, <1>5, <1>6 DEF Pieces
<1>8. ASSUME Wrapped(F) PROVE Wrapped(G)
  BY <1>4, <1>6, <1>7, <1>8 DEF Wrapped
<1> QED
  BY <1>3, <1>4, <1>7, <1>8 DEF G

\* Two rows of pieces are the same when their pieces are.
LEMMA PiecesEqual ==
  ASSUME NEW F, IsTuple(F), NEW G, IsTuple(G), Len(G) = Len(F), \A i \in 1 .. Len(F) : F[i] = G[i]
  PROVE  F = G
<1>1. F = [i \in 1 .. Len(F) |-> F[i]] /\ G = [i \in 1 .. Len(F) |-> G[i]]
  BY DEF IsTuple
<1> QED
  BY <1>1

\* Before anything is handed on, everything is owed still.
LEMMA UnreadNone ==
  ASSUME NEW F, Pieces(F), NEW w
  PROVE  Unread(F, w, 0) = F
<1> DEFINE G == Unread(F, w, 0)
<1>1. /\ Pieces(G) /\ Len(G) = Len(F)
      /\ \A i \in 1 .. Len(F) : G[i] = IF \E j \in 1 .. 0 : w[j] = i THEN <<>> ELSE F[i]
  BY UnreadFacts
<1> HIDE DEF G
<1>2. \A i \in 1 .. Len(F) : F[i] = G[i]
  BY <1>1
<1> QED
  BY <1>1, <1>2, PiecesEqual DEF Pieces, G

\* One more waiter has what it is owed.
LEMMA UnreadNext ==
  ASSUME NEW F, Pieces(F), NEW w, NEW c \in Nat, NEW m \in 1 .. Len(F), w[c + 1] = m
  PROVE  Without(Unread(F, w, c), m) = Unread(F, w, c + 1)
<1> DEFINE G == Unread(F, w, c)
           H == Without(G, m)
           K == Unread(F, w, c + 1)
<1>1. /\ Pieces(G) /\ Len(G) = Len(F)
      /\ \A i \in 1 .. Len(F) : G[i] = IF \E j \in 1 .. c : w[j] = i THEN <<>> ELSE F[i]
  BY UnreadFacts
<1> HIDE DEF G
<1>2. /\ Pieces(H) /\ Len(H) = Len(F) /\ H[m] = <<>> /\ \A i \in 1 .. Len(F) : i # m => H[i] = G[i]
  BY <1>1, WithoutFacts
<1>3. /\ Pieces(K) /\ Len(K) = Len(F)
      /\ \A i \in 1 .. Len(F) : K[i] = IF \E j \in 1 .. c + 1 : w[j] = i THEN <<>> ELSE F[i]
  BY UnreadFacts
<1> HIDE DEF H, K
<1>4. ASSUME NEW i \in 1 .. Len(F) PROVE H[i] = K[i]
  <2>1. CASE i = m
    <3>1. c + 1 \in 1 .. c + 1
      OBVIOUS
    <3> QED
      BY <1>2, <1>3, <2>1, <3>1
  <2>2. CASE i # m
    <3>1. (\E j \in 1 .. c + 1 : w[j] = i) <=> (\E j \in 1 .. c : w[j] = i)
      <4>1. \A j \in 1 .. c + 1 : j \in 1 .. c \/ j = c + 1
        OBVIOUS
      <4>2. \A j \in 1 .. c : j \in 1 .. c + 1
        OBVIOUS
      <4> QED
        BY <2>2, <4>1, <4>2
    <3> QED
      BY <1>1, <1>2, <1>3, <2>2, <3>1
  <2> QED
    BY <2>1, <2>2
<1> QED
  BY <1>2, <1>3, <1>4, PiecesEqual DEF Pieces, G, H, K

\* What the first piece is that is owed still: that of the next waiter.
LEMMA NextWaiter ==
  ASSUME host \in Hosts, NEW o, NEW w, NEW s, NEW n \in Int, Orderly(o, w, s, n),
         NEW c \in Nat, c + 1 <= Len(w),
         NEW j \in 1 .. Len(o), FirstPiece(Unread(Owing(o, s), w, c), j)
  PROVE  /\ j = w[c + 1] /\ s[j] # Nothing /\ Unread(Owing(o, s), w, c)[j] = OnLine(s[j])
<1> DEFINE F == Owing(o, s)
           G == Unread(F, w, c)
           m == w[c + 1]
<1>1. /\ OpsTyped(o) /\ LastOnly(o) /\ AtOnce(o) /\ Len(o) \in Nat /\ Len(o) <= MaxOps
      /\ w \in Seq(1 .. Len(o)) /\ Len(w) \in Nat /\ Rising(w) /\ AllReading(o, w) /\ EachWaits(o, w)
      /\ Told(o, s, n) /\ AllSaid(s, n)
  BY LenProperties DEF Orderly, OneByOne, OpsTyped, IsTuple, Waiting
<1>2. /\ Pieces(F) /\ Len(F) = Len(o) /\ \A i \in 1 .. Len(o) : F[i] = Piece(o, s, i)
      /\ \A i \in 1 .. Len(o) : Piece(o, s, i) # <<>> <=> s[i] # Nothing /\ Going(o[i])
  BY <1>1, OwingFacts
<1> HIDE DEF F
<1>3. /\ Len(G) = Len(o)
      /\ \A i \in 1 .. Len(o) : G[i] = IF \E k \in 1 .. c : w[k] = i THEN <<>> ELSE F[i]
  <2>1. /\ Len(G) = Len(F)
        /\ \A i \in 1 .. Len(F) : G[i] = IF \E k \in 1 .. c : w[k] = i THEN <<>> ELSE F[i]
    BY <1>2, UnreadFacts
  <2> HIDE DEF G
  <2> QED
    BY <1>2, <2>1
<1>4. G[j] # <<>> /\ \A i \in 1 .. Len(o) : i < j => G[i] = <<>>
  BY <1>3 DEF FirstPiece, F
<1> HIDE DEF G
<1>5. c + 1 \in 1 .. Len(w) /\ m \in 1 .. Len(o) /\ o[m].at = "reading"
  <2>1. c + 1 \in 1 .. Len(w)
    BY <1>1
  <2> QED
    BY <1>1, <2>1, ElementOfSeq DEF AllReading
<1>6. G[j] = F[j] /\ (\A k \in 1 .. c : w[k] # j) /\ s[j] # Nothing /\ Going(o[j])
  BY <1>2, <1>3, <1>4
<1>7. m <= j
  <2>1. CASE o[j].at = "reading"
    <3>1. PICK k \in 1 .. Len(w) : w[k] = j
      BY <1>1, <2>1 DEF EachWaits
    <3>2. k = c + 1 \/ c + 1 < k
      BY <1>1, <1>6, <3>1
    <3>3. c + 1 < k => w[c + 1] < w[k]
      BY <1>1, <1>5 DEF Rising
    <3> QED
      BY <1>5, <3>1, <3>2, <3>3
  <2>2. CASE o[j].at = "writing"
    <3>1. j = Len(o)
      BY <1>1, <1>6, <2>2 DEF AtOnce, LastOnly
    <3> QED
      BY <1>1, <1>5, <3>1
  <2> QED
    BY <1>6, <2>1, <2>2 DEF Going
<1>8. ~(m < j)
  <2> SUFFICES ASSUME m < j PROVE FALSE
    OBVIOUS
  <2>1. G[m] = <<>>
    BY <1>4, <1>5
  <2>2. \A k \in 1 .. c : w[k] # m
    <3> SUFFICES ASSUME NEW k \in 1 .. c PROVE w[k] # m
      OBVIOUS
    <3>1. k \in 1 .. Len(w) /\ k < c + 1
      BY <1>1
    <3>2. w[k] < m
      BY <1>1, <1>5, <3>1 DEF Rising
    <3> QED
      BY <1>5, <3>2
  <2>3. F[m] = <<>>
    BY <1>3, <1>5, <2>1, <2>2
  <2>4. s[m] = Nothing
    BY <1>2, <1>5, <2>3 DEF Going
  <2>5. j <= n
    BY <1>1, <1>6 DEF Told
  <2>6. m \in 1 .. n
    BY <1>5, <2>5
  <2> QED
    BY <1>1, <2>4, <2>6 DEF AllSaid
<1>9. j = m
  BY <1>5, <1>7, <1>8
<1>10. F[j] = OnLine(s[j])
  <2>1. o[j].at \notin {"done", "failed"}
    BY <1>6 DEF Going
  <2> QED
    BY <1>2, <1>6, <2>1 DEF Piece
<1> QED
  BY <1>6, <1>9, <1>10 DEF F, G

\* The frames that have been taken so far are right, unless they are more than those that wait.
InOrder(x, o, s, w, l) == Len(x.frames) <= Len(w) => Right(x.frames, x.reader, o, s, w, l)

\* One more take leaves them right.
LEMMA TakeNextRight ==
  ASSUME host \in Hosts, ~Offline, NEW o, NEW w, NEW s, NEW n \in Int, Orderly(o, w, s, n), NEW l \in Seq(Byte),
         NEW r, NEW x, NEW k \in Nat, Flushed(r, x, k), InOrder(x, o, s, w, l)
  PROVE  InOrder(TakeNext(x), o, s, w, l)
<1> DEFINE b == x.reader
           t == TryTake(b)
           frames == x.frames
           after == t.reader
           c == Len(frames)
           F == Owing(o, s)
           G == Unread(F, w, c)
<1>1. IsTuple(frames) /\ c \in Nat /\ b \in Readers(Nat) /\ x.more \in BOOLEAN
  BY DEF Flushed, IsTuple
<1>2. /\ OpsTyped(o) /\ Len(o) \in Nat /\ Len(o) <= MaxOps /\ Told(o, s, n)
      /\ w \in Seq(1 .. Len(o)) /\ Len(w) \in Nat
  BY LenProperties DEF Orderly, OneByOne, OpsTyped, IsTuple, Waiting
<1>3. Pieces(F) /\ Len(F) = Len(o) /\ Wrapped(F)
  BY <1>2, OwingFacts
<1> HIDE DEF F
<1>4. Wrapped(G) /\ Pieces(G) /\ Len(G) = Len(F)
  BY <1>1, <1>3, UnreadFacts
<1> HIDE DEF G
<1>5. CASE ~x.more
  <2>1. TakeNext(x) = x
    BY <1>5 DEF TakeNext
  <2> QED
    BY <2>1
<1>6. CASE x.more /\ ~t.taken
  <2>1. TakeNext(x) = [frames |-> frames, reader |-> after, more |-> t.taken]
    BY <1>6 DEF TakeNext
  <2>2. SUFFICES ASSUME c <= Len(w) PROVE Right(frames, after, o, s, w, l)
    BY <2>1 DEF InOrder
  <2>3. Right(frames, b, o, s, w, l)
    BY <2>2 DEF InOrder
  <2>4. b.buffer \o l = FlattenSeq(G) /\ b.address % 2 = 0
    BY <2>3 DEF Right, G, F
  <2>5. after.buffer = b.buffer /\ after.address = b.address
    BY <1>1, <1>4, <1>6, <2>4, TakeOwed
  <2> QED
    BY <2>3, <2>5 DEF Right
<1>7. CASE x.more /\ t.taken
  <2> DEFINE more == Append(frames, t)
  <2>1. TakeNext(x) = [frames |-> more, reader |-> after, more |-> t.taken]
    BY <1>7 DEF TakeNext
  <2>2. Len(more) = c + 1 /\ (\A j \in 1 .. c : more[j] = frames[j]) /\ more[c + 1] = t
    BY <1>1, AppendTuple
  <2>3. SUFFICES ASSUME c + 1 <= Len(w) PROVE Right(more, after, o, s, w, l)
    BY <2>1, <2>2 DEF InOrder
  <2>4. Right(frames, b, o, s, w, l)
    <3>1. c <= Len(w)
      BY <1>1, <1>2, <2>3
    <3> QED
      BY <3>1 DEF InOrder
  <2>5. b.buffer \o l = FlattenSeq(G) /\ b.address % 2 = 0
    BY <2>4 DEF Right, G, F
  <2>6. PICK j \in 1 .. Len(G) :
          /\ FirstPiece(G, j) /\ G[j] = Wrap(t.inner)
          /\ t.address \in Nat /\ t.address % 2 = 0
          /\ after.address % 2 = 0
          /\ after.buffer \o l = FlattenSeq(Without(G, j))
    BY <1>1, <1>4, <1>7, <2>5, TakeOwed
  <2>7. t.inner \in Seq(Byte)
    BY <1>1, <1>7, TakeFacts
  <2> HIDE DEF more, t, after, frames
  <2>8. j \in 1 .. Len(o)
    BY <1>3, <1>4, <2>6
  <2>9. j = w[c + 1] /\ s[j] # Nothing /\ G[j] = OnLine(s[j])
    BY <1>1, <2>3, <2>6, <2>8, NextWaiter DEF G, F
  <2>10. InnerOf(s[j]) \in Seq(Byte)
    BY <1>2, <2>8, <2>9, SaidReads
  <2>11. G[j] = Wrap(InnerOf(s[j]))
    BY <2>9 DEF OnLine
  <2>12. t.inner = InnerOf(s[j])
    BY <2>6, <2>7, <2>10, <2>11, WrapEqual
  <2>13. Without(G, j) = Unread(F, w, c + 1)
    BY <1>1, <1>3, <2>8, <2>9, UnreadNext DEF G
  <2>14. ASSUME NEW i \in 1 .. Len(more)
         PROVE  /\ s[w[i]] # Nothing /\ more[i].inner = InnerOf(s[w[i]])
                /\ more[i].address \in Nat /\ more[i].address % 2 = 0
    <3>1. CASE i = c + 1
      BY <2>2, <2>6, <2>9, <2>12, <3>1
    <3>2. CASE i # c + 1
      <4>1. i \in 1 .. c
        BY <1>1, <2>2, <3>2
      <4>2. i \in 1 .. Len(frames) /\ more[i] = frames[i]
        BY <2>2, <4>1
      <4> QED
        BY <2>4, <4>2 DEF Right
    <3> QED
      BY <3>1, <3>2
  <2> QED
    BY <2>2, <2>6, <2>13, <2>14 DEF Right, F
<1> QED
  BY <1>1, <1>5, <1>6, <1>7

\* All of them are right.
LEMMA TakesRight ==
  ASSUME host \in Hosts, ~Offline, NEW o, NEW w, NEW s, NEW n \in Int, Orderly(o, w, s, n), NEW l \in Seq(Byte),
         NEW r \in Readers(Nat), Match(o, s, r, l), NEW m \in Nat
  PROVE  InOrder(Takes(r, m), o, s, w, l)
<1>0. PICK f : TakesRow(f, r, m)
  BY TakesUnfold
<1>1. /\ Takes(r, m) = f[m] /\ f[0] = TakeFirst(r)
      /\ \A k \in 0 .. m - 1 : f[k + 1] = TakeNext(f[k])
  BY <1>0 DEF TakesRow
<1> DEFINE T == {k \in 0 .. m : Flushed(r, f[k], k) /\ InOrder(f[k], o, s, w, l)}
           e == TakeFirst(r)
<1>2. 0 \in T
  <2>1. IsTuple(<<>>) /\ Len(<<>>) = 0
    BY DEF IsTuple
  <2>2. Flushed(r, TakeFirst(r), 0)
    BY <2>1 DEF Flushed, TakeFirst
  <2>3. e.frames = <<>> /\ e.reader = r
    BY DEF TakeFirst
  <2> HIDE DEF e
  <2>4. OpsTyped(o) /\ Len(o) <= MaxOps /\ Told(o, s, n)
    BY DEF Orderly, OneByOne
  <2>5. Pieces(Owing(o, s))
    BY <2>4, OwingFacts
  <2>6. Unread(Owing(o, s), w, 0) = Owing(o, s)
    BY <2>5, UnreadNone
  <2>7. Right(<<>>, r, o, s, w, l)
    BY <2>1, <2>6 DEF Right, Match
  <2>8. InOrder(e, o, s, w, l)
    BY <2>3, <2>7 DEF InOrder
  <2> QED
    BY <1>1, <2>2, <2>8 DEF e
<1> HIDE DEF e
<1>3. ASSUME NEW k \in 0 .. m - 1, k \in T PROVE k + 1 \in T
  <2>1. /\ f[k + 1] = TakeNext(f[k]) /\ k \in Nat /\ k + 1 \in 0 .. m
        /\ Flushed(r, f[k], k) /\ InOrder(f[k], o, s, w, l)
    BY <1>1, <1>3
  <2> DEFINE x == f[k]
  <2> HIDE DEF x
  <2>2. Flushed(r, TakeNext(x), k + 1)
    BY <2>1, TakeNextFacts DEF x
  <2>3. Flushed(r, x, k) /\ InOrder(x, o, s, w, l)
    BY <2>1 DEF x
  <2>4. InOrder(TakeNext(x), o, s, w, l)
    BY <2>1, <2>3, TakeNextRight
  <2> QED
    BY <2>1, <2>2, <2>4 DEF x
<1>4. m \in 0 .. m
  OBVIOUS
<1> HIDE DEF T
<1>5. m \in T
  BY <1>2, <1>3, <1>4, UpTo
<1> QED
  BY <1>1, <1>5 DEF T

\* Where a frame has begun to arrive, the magic number comes first.
LEMMA MagicFirst ==
  ASSUME NEW a \in Seq(Byte), Framed(a) \/ a = <<>>, NEW b \in Seq(Byte), NEW l \in Seq(Byte), b \o l = a, Len(b) >= 4
  PROVE  0 \in MagicAt(b)
<1> DEFINE q == Put32(MAGIC)
           h == SubSeq(b, 1, 4)
<1>1. Len(b) \in Nat /\ Len(l) \in Nat /\ Len(a) = Len(b) + Len(l)
  BY ConcatProperties, LenProperties
<1>2. Framed(a)
  <2>1. a # <<>>
    BY <1>1
  <2> QED
    BY <2>1
<1>3. q \in Seq(Byte) /\ Len(q) = 4
  <2>1. MAGIC \in Nat
    BY Magic
  <2> QED
    BY <2>1, Put32Facts
<1>4. Holds(a, Start, q)
  BY <1>2 DEF Framed
<1> HIDE DEF q
<1>5. <<>> \in Seq(Byte) /\ a \o <<>> = a /\ b \o l = a \o <<>>
  BY ConcatEmptySeq
<1>6. Holds(b, Start, q)
  BY <1>3, <1>4, <1>5, Overlap
<1>7. \A i \in 1 .. 4 : b[i] = q[i]
  <2> SUFFICES ASSUME NEW i \in 1 .. 4 PROVE b[i] = q[i]
    OBVIOUS
  <2>1. b[0 + i] = q[i]
    BY <1>3, <1>6 DEF Holds, Start
  <2>2. 0 + i = i
    OBVIOUS
  <2> QED
    BY <2>1, <2>2
<1>8. h \in Seq(Byte) /\ Len(h) = 4 /\ \A i \in 1 .. 4 : h[i] = b[i]
  <2>1. 1 \in Int /\ 4 \in Int /\ \A i \in 1 .. 4 : b[i] \in Byte
    BY <1>1, ElementOfSeq
  <2>2. /\ h \in Seq(Byte) /\ Len(h) = IF 1 <= 4 THEN 4 - 1 + 1 ELSE 0
        /\ \A i \in 1 .. 4 - 1 + 1 : h[i] = b[1 + i - 1]
    BY <2>1, SubSeqProperties
  <2> HIDE DEF h
  <2>3. \A i \in 1 .. 4 : i \in 1 .. 4 - 1 + 1 /\ 1 + i - 1 = i
    OBVIOUS
  <2> QED
    BY <2>2, <2>3
<1> HIDE DEF h
<1>11. q \in Seq(Byte) /\ Len(q) = 4
  BY <1>3
<1>12. Len(h) = Len(q) /\ \A i \in 1 .. Len(h) : h[i] = q[i]
  BY <1>7, <1>8, <1>11
<1> HIDE DEF q
<1>9. h = q
  BY <1>8, <1>11, <1>12, SeqEqual
<1>10. 0 \in 0 .. Len(b) - 4 /\ 0 + 1 = 1 /\ 0 + 4 = 4
  BY <1>1
<1> QED
  BY <1>9, <1>10 DEF MagicAt, h, q

\* So the offline reader skips nothing.
LEMMA NothingSkipped ==
  ASSUME NEW a \in Seq(Byte), Framed(a) \/ a = <<>>, NEW b \in Seq(Byte), NEW l \in Seq(Byte), b \o l = a
  PROVE  (IF MagicAt(b) = {} THEN Max({0, Len(b) - 3}) ELSE Min(MagicAt(b))) = 0
<1>1. Len(b) \in Nat
  BY LenProperties
<1>2. Len(b) >= 4 => 0 \in MagicAt(b)
  BY MagicFirst
<1>3. MagicAt(b) \subseteq 0 .. Len(b) - 4
  BY DEF MagicAt
<1>4. CASE MagicAt(b) = {}
  <2> DEFINE c == Len(b) - 3
  <2>1. c \in Int /\ c <= 0
    BY <1>1, <1>2, <1>4
  <2> HIDE DEF c
  <2>2. Max({0, c}) = IF 0 >= c THEN 0 ELSE c
    BY <2>1, MaxOfTwo
  <2> QED
    BY <1>4, <2>1, <2>2 DEF c
<1>5. CASE MagicAt(b) # {}
  <2> DEFINE T == MagicAt(b)
  <2>1. T \subseteq Nat /\ 0 \in T
    BY <1>1, <1>2, <1>3, <1>5
  <2> HIDE DEF T
  <2>2. Min(T) \in T /\ \A m \in T : Min(T) <= m
    BY <2>1, MinFacts
  <2>4. Min(T) <= 0 /\ Min(T) \in Nat
    BY <2>1, <2>2
  <2>3. Min(T) = 0
    BY <2>4
  <2> QED
    BY <1>5, <2>3 DEF T
<1> QED
  BY <1>4, <1>5

\* The only piece that is owed.
LEMMA OnlyPiece ==
  ASSUME NEW F, Pieces(F), NEW m \in 1 .. Len(F), \A i \in 1 .. Len(F) : i # m => F[i] = <<>>
  PROVE  FlattenSeq(F) = F[m]
<1> DEFINE G == Without(F, m)
<1>1. /\ Pieces(G) /\ Len(G) = Len(F) /\ G[m] = <<>> /\ \A i \in 1 .. Len(F) : i # m => G[i] = F[i]
  BY WithoutFacts
<1> HIDE DEF G
<1>2. \A i \in 1 .. Len(F) : i < m => F[i] = <<>>
  BY DEF Pieces, IsTuple
<1>3. FlattenSeq(F) = F[m] \o FlattenSeq(G)
  BY <1>1, <1>2, FlattenFirst
<1>4. \A i \in 1 .. Len(G) : G[i] = <<>>
  <2> SUFFICES ASSUME NEW i \in 1 .. Len(F) PROVE G[i] = <<>>
    BY <1>1
  <2>1. i = m \/ i # m
    OBVIOUS
  <2> QED
    BY <1>1, <2>1
<1>5. FlattenSeq(G) = <<>>
  BY <1>1, <1>4, FlattenTyped
<1>6. F[m] \in Seq(Byte)
  BY DEF Pieces
<1>7. F[m] \o <<>> = F[m]
  BY <1>6, ConcatEmptySeq
<1> QED
  BY <1>3, <1>5, <1>7

\* The offline tools take the answer when all of it has come, and nothing before.
LEMMA ExtractRight ==
  ASSUME host \in Hosts, Offline, NEW w, NEW s, NEW n \in Int, Orderly(ops, w, s, n), w # <<>>,
         NEW l \in Seq(Byte), NEW r \in Readers(Nat), Match(ops, s, r, l),
         NEW f, f = OfflineExtract(r, w[1])
  PROVE  Right(f.frames, f.reader, ops, s, w, l)
<1> DEFINE b == r.buffer
           i == w[1]
           k == IF MagicAt(b) = {} THEN Max({0, Len(b) - 3}) ELSE Min(MagicAt(b))
           bytes == SubSeq(b, k + 1, Len(b))
           rest == [r EXCEPT !.buffer = bytes, !.address = @ + k]
           none == MagicAt(b) = {} \/ Len(bytes) < Wanted(i)
           frame == [inner |-> SubSeq(bytes, 1, Wanted(i)), address |-> rest.address]
           after == [rest EXCEPT !.buffer = <<>>]
           e == IF none THEN [frames |-> <<>>, reader |-> rest]
                ELSE [frames |-> <<frame>>, reader |-> after]
           F == Owing(ops, s)
           a == F[i]
<1>1. f = e
  BY DEF OfflineExtract
<1>2. /\ OpsTyped(ops) /\ LastOnly(ops) /\ Len(ops) \in Nat /\ Len(ops) <= MaxOps /\ Told(ops, s, n)
      /\ w \in Seq(1 .. Len(ops)) /\ Len(w) \in Nat /\ AllReading(ops, w)
  BY LenProperties DEF Orderly, OneByOne, OpsTyped, IsTuple, Waiting
<1>3. 1 \in 1 .. Len(w) /\ i \in 1 .. Len(ops) /\ ops[i].at = "reading"
  <2>1. 1 \in 1 .. Len(w)
    BY <1>2, EmptySeq
  <2> QED
    BY <1>2, <2>1, ElementOfSeq DEF AllReading
<1>4. ~Web /\ i = Len(ops)
  BY <1>2, <1>3, Programs DEF LastOnly, Going
<1> HIDE DEF i
<1>5. /\ Pieces(F) /\ Len(F) = Len(ops) /\ \A j \in 1 .. Len(ops) : F[j] = Piece(ops, s, j)
      /\ \A j \in 1 .. Len(ops) : Piece(ops, s, j) # <<>> => s[j] # Nothing /\ Going(ops[j])
  BY <1>2, OwingFacts
<1> HIDE DEF F
<1>6. \A j \in 1 .. Len(F) : j # i => F[j] = <<>>
  <2> SUFFICES ASSUME NEW j \in 1 .. Len(ops), F[j] # <<>> PROVE j = i
    BY <1>5
  <2>1. Going(ops[j])
    BY <1>5
  <2> QED
    BY <1>2, <1>4, <2>1 DEF LastOnly
<1>7. b \o l = a /\ r.address % 2 = 0 /\ r.address \in Nat /\ b \in Seq(Byte) /\ Len(b) \in Nat /\ a \in Seq(Byte)
  <2>1. FlattenSeq(F) = a
    BY <1>3, <1>5, <1>6, OnlyPiece
  <2>2. b \o l = FlattenSeq(F) /\ r.address % 2 = 0
    BY DEF Match, F
  <2>3. a \in Seq(Byte)
    BY <1>3, <1>5 DEF Pieces
  <2>4. b \in Seq(Byte) /\ r.address \in Nat
    BY DEF Readers
  <2> QED
    BY <2>1, <2>2, <2>3, <2>4, LenProperties
<1>8. /\ a = <<>> \/ (s[i] # Nothing /\ a = InnerOf(s[i]) /\ Framed(a))
      /\ Len(a) <= Wanted(i) /\ Wanted(i) \in Nat /\ Wanted(i) >= 1
  <2>1. Wanted(i) \in Nat /\ Wanted(i) >= 1
    BY Sizes DEF Wanted
  <2>2. CASE s[i] = Nothing
    <3>1. a = <<>>
      BY <1>3, <1>5, <2>2 DEF Piece
    <3>2. Len(a) = 0
      BY <3>1
    <3> QED
      BY <2>1, <3>1, <3>2
  <2>3. CASE s[i] # Nothing
    <3>1. a = InnerOf(s[i])
      BY <1>3, <1>5, <2>3 DEF Piece, OnLine
    <3>2. Framed(InnerOf(s[i])) /\ Len(InnerOf(s[i])) <= (IF ops[i].kind = "exchange" THEN OFFLINE_SIZE ELSE ACK_SIZE)
      BY <1>2, <1>3, <2>3, SaidReads
    <3>3. Len(a) <= Wanted(i)
      BY <3>1, <3>2 DEF Wanted
    <3> QED
      BY <2>1, <2>3, <3>1, <3>2, <3>3
  <2> QED
    BY <2>2, <2>3
<1> HIDE DEF a, b
<1>9. k = 0
  BY <1>7, <1>8, NothingSkipped
<1>10. k \in 0 .. Len(b) /\ k \in Nat
  BY <1>7, <1>9
<1>11. bytes = b
  <2> HIDE DEF k
  <2> QED
    BY <1>7, <1>9, <1>10, EndOf
<1> HIDE DEF bytes
<1>12. rest.buffer = b /\ rest.address = r.address /\ rest \in Readers(Nat)
  <2>1. rest = Moved(r, b, k)
    BY <1>11 DEF Moved
  <2> HIDE DEF rest, k
  <2>3. b \in Seq(Byte) /\ k \in Nat
    BY <1>7, <1>10
  <2>4. /\ Moved(r, b, k).buffer = b /\ Moved(r, b, k).address = r.address + k
        /\ Moved(r, b, k) \in Readers(Nat)
    BY <2>3, MovedFacts
  <2>2. rest.buffer = b /\ rest.address = r.address + k /\ rest \in Readers(Nat)
    BY <2>1, <2>4
  <2>5. r.address + k = r.address
    BY <1>7, <1>9
  <2> QED
    BY <2>2, <2>5
<1>13. after.buffer = <<>> /\ after.address = rest.address
  <2>1. after = Holding(rest, <<>>)
    BY DEF Holding
  <2> HIDE DEF after, rest
  <2>2. <<>> \in Seq(Byte)
    OBVIOUS
  <2> QED
    BY <1>12, <2>1, <2>2, HoldingFacts
<1> HIDE DEF rest, after, none, k
<1>14. CASE none
  <2>1. f.frames = <<>> /\ f.reader = rest
    BY <1>1, <1>14
  <2>2. Len(<<>>) = 0
    OBVIOUS
  <2>3. Unread(F, w, 0) = F
    BY <1>5, UnreadNone
  <2>4. rest.buffer \o l = FlattenSeq(F)
    BY <1>12 DEF Match, F, b
  <2>5. Right(<<>>, rest, ops, s, w, l)
    BY <1>7, <1>12, <2>2, <2>3, <2>4 DEF Right, F
  <2> QED
    BY <2>1, <2>5
<1>15. CASE ~none
  <2>1. f.frames = <<frame>> /\ f.reader = after
    <3> HIDE DEF frame
    <3> QED
      BY <1>1, <1>15
  <2>2. Len(<<frame>>) = 1 /\ <<frame>>[1] = frame
    OBVIOUS
  <2>3. Len(b) >= Wanted(i) /\ ~(Len(b) < Wanted(i))
    BY <1>7, <1>8, <1>11, <1>15 DEF none
  <2>4. Len(a) = Len(b) + Len(l) /\ Len(l) \in Nat
    BY <1>7, ConcatProperties, LenProperties
  <2>5. Len(l) = 0 /\ Len(b) = Wanted(i)
    BY <1>7, <1>8, <2>3, <2>4
  <2>6. l = <<>>
    BY <2>5, EmptySeq
  <2>7. a = b
    BY <1>7, <2>6, ConcatEmptySeq
  <2>8. a = InnerOf(s[i]) /\ s[i] # Nothing
    <3>1. Len(a) >= 1 /\ Len(<<>>) = 0
      BY <1>8, <2>5, <2>7
    <3>2. a # <<>>
      BY <3>1
    <3> QED
      BY <1>8, <3>2
  <2>9. frame.inner = InnerOf(s[i]) /\ frame.address = r.address
    <3>1. SubSeq(b, 1, Len(b)) = b
      BY <1>7, SubSeqFull
    <3> QED
      BY <1>11, <1>12, <2>5, <2>7, <2>8, <3>1
  <2>10. after.buffer \o l = FlattenSeq(Unread(F, w, 1))
    <3> DEFINE G == Unread(F, w, 1)
    <3>1. /\ Pieces(G) /\ Len(G) = Len(F)
          /\ \A j \in 1 .. Len(F) : G[j] = IF \E m \in 1 .. 1 : w[m] = j THEN <<>> ELSE F[j]
      BY <1>5, UnreadFacts
    <3> HIDE DEF G
    <3>2. \A j \in 1 .. Len(G) : G[j] = <<>>
      <4> SUFFICES ASSUME NEW j \in 1 .. Len(F) PROVE G[j] = <<>>
        BY <3>1
      <4>1. CASE j = i
        <5>1. 1 \in 1 .. 1 /\ w[1] = j
          BY <4>1 DEF i
        <5> QED
          BY <3>1, <5>1
      <4>2. CASE j # i
        BY <1>6, <3>1, <4>2
      <4> QED
        BY <4>1, <4>2
    <3>3. FlattenSeq(G) = <<>>
      BY <3>1, <3>2, FlattenTyped
    <3>4. <<>> \o <<>> = <<>>
      BY ConcatEmptySeq
    <3> QED
      BY <1>13, <2>6, <3>3, <3>4 DEF G
  <2> DEFINE g == <<frame>>
  <2>11. Len(g) = 1 /\ g[1] = frame
    BY <2>2
  <2> HIDE DEF frame, g
  <2>12. ASSUME NEW j \in 1 .. Len(g)
         PROVE  /\ s[w[j]] # Nothing /\ g[j].inner = InnerOf(s[w[j]])
                /\ g[j].address \in Nat /\ g[j].address % 2 = 0
    <3>1. j = 1
      BY <2>11
    <3> QED
      BY <1>7, <2>8, <2>9, <2>11, <3>1 DEF i
  <2>13. Right(g, after, ops, s, w, l)
    BY <1>7, <1>12, <1>13, <2>10, <2>11, <2>12 DEF Right, F
  <2> QED
    BY <2>1, <2>13 DEF g
<1> QED
  BY <1>14, <1>15

\* The first n frames have gone to the first n waiters.
Handing(n, r, frames) ==
  LET o == Handed(n, r.waiters, frames)
      after == Queued(r, SubSeq(r.waiters, n + 1, Len(r.waiters)))
  IN  /\ n <= Len(frames) /\ (n = Len(frames) \/ n = Len(r.waiters))
      /\ Ended(o, after)
      /\ trouble' = trouble \cup (IF Len(frames) > n THEN {"early"} ELSE {})
                            \cup (IF Stale(GivenUp(o), after) THEN {"stale"} ELSE {})

\* Frames are handed on as far as there are waiters for them.
LEMMA HandShape ==
  ASSUME NEW r \in Readers(Nat), NEW frames, IsTuple(frames), Hand(r, frames)
  PROVE  \E n \in 0 .. Len(r.waiters) : Handing(n, r, frames)
<1> DEFINE w == r.waiters
           n == Min({Len(frames), Len(w)})
<1>1. Len(w) \in Nat /\ Len(frames) \in Nat
  BY LenProperties DEF IsTuple, Readers
<1>2. n \in 0 .. Len(w) /\ n <= Len(frames) /\ (n = Len(frames) \/ n = Len(w))
  <2> DEFINE a == Len(frames)
             b == Len(w)
  <2>1. a \in Nat /\ b \in Nat
    BY <1>1
  <2> HIDE DEF a, b
  <2>2. Min({a, b}) = IF a <= b THEN a ELSE b
    BY <2>1, MinOfTwo
  <2> QED
    BY <2>1, <2>2 DEF a, b
<1> DEFINE o == Handed(n, w, frames)
           after == [r EXCEPT !.waiters = SubSeq(@, n + 1, Len(@))]
<1>3. /\ Ended(o, after)
      /\ trouble' = trouble \cup (IF Len(frames) > n THEN {"early"} ELSE {})
                            \cup (IF Stale(GivenUp(o), after) THEN {"stale"} ELSE {})
  BY DEF Hand, Handed
<1>4. after = Queued(r, SubSeq(w, n + 1, Len(w)))
  BY DEF Queued
<1> HIDE DEF after, n
<1>5. Handing(n, r, frames)
  BY <1>2, <1>3, <1>4 DEF Handing
<1> QED
  BY <1>2, <1>5

\* What the frames leave: those behind the first n waiters, and what reads is still among them.
LEMMA HandedRest ==
  ASSUME OneByOne(ops), NEW w, Waiting(ops, w), EachWaits(ops, w), NEW n \in 0 .. Len(w), NEW frames,
         NEW v, v = SubSeq(w, n + 1, Len(w)), NEW o, o = Handed(n, w, frames)
  PROVE  EachWaits(o, v) /\ Waiting(ops, v) /\ Len(v) = Len(w) - n /\ Len(w) \in Nat
<1>1. /\ Waiting(ops, v) /\ Len(v) = Len(w) - n
      /\ \A k \in 1 .. Len(v) : n + k \in 1 .. Len(w) /\ v[k] = w[n + k]
  BY WaitersEnd
<1>2. /\ Follows(ops, o)
      /\ \A j \in 1 .. n : o[w[j]] = Settle(ops[w[j]], frames[j])
      /\ \A i \in 1 .. Len(ops) : (\A j \in 1 .. n : w[j] # i) => o[i] = ops[i]
  BY HandedFacts
<1>3. Len(w) \in Nat /\ \A i \in 1 .. Len(ops) : Shaped(ops[i])
  BY LenProperties DEF Waiting, OneByOne, OpsTyped
<1>4. ASSUME NEW i \in 1 .. Len(o), o[i].at = "reading" PROVE \E k \in 1 .. Len(v) : v[k] = i
  <2>1. i \in 1 .. Len(ops)
    BY <1>2 DEF Follows
  <2>2. ASSUME NEW j \in 1 .. n PROVE w[j] # i
    <3> SUFFICES ASSUME w[j] = i PROVE FALSE
      OBVIOUS
    <3>1. o[i] = Settle(ops[i], frames[j]) /\ Shaped(ops[i])
      BY <1>2, <1>3, <2>1
    <3>2. /\ ops[i].at = "reading" => o[i].at \in {"done", "failed"}
          /\ ops[i].at # "reading" => o[i] = ops[i]
      BY <3>1, SettleFacts
    <3> QED
      BY <1>4, <3>2
  <2>3. ops[i].at = "reading"
    BY <1>2, <1>4, <2>1, <2>2
  <2>4. PICK k \in 1 .. Len(w) : w[k] = i
    BY <2>1, <2>3 DEF EachWaits
  <2>5. ~(k \in 1 .. n)
    BY <2>2, <2>4
  <2>6. k - n \in 1 .. Len(v) /\ n + (k - n) = k
    BY <1>1, <1>3, <2>5
  <2>7. v[k - n] = w[k]
    BY <1>1, <2>6
  <2> QED
    BY <2>4, <2>6, <2>7
<1> QED
  BY <1>1, <1>3, <1>4 DEF EachWaits

\* The state's own operations are where it comes from.
LEMMA BasedSelf ==
  ASSUME OneByOne(ops)
  PROVE  Based(ops) /\ OpsTyped(ops) /\ DOMAIN ops = 1 .. Len(ops) /\ Len(ops) \in Nat
<1>1. OpsTyped(ops) /\ DOMAIN ops = 1 .. Len(ops) /\ Len(ops) \in Nat
  BY TupleSeq DEF OneByOne, OpsTyped
<1> QED
  BY <1>1 DEF Based

\* Frames are handed on: what reads goes on waiting, the session fits, and the offline tools that
\* have their frame begin with an empty buffer again.
LEMMA HandWaits ==
  ASSUME host \in Hosts, OneByOne(ops), AtOnce(ops), NEW r \in Readers(Nat), Waiting(ops, r.waiters),
         NEW frames, IsTuple(frames), Hand(r, frames), EachWaits(ops, r.waiters), InSession(ops, session)
  PROVE  /\ EachWaits(ops', reader'.waiters) /\ InSession(ops', session')
         /\ r.waiters # <<>> /\ (frames # <<>> => r.buffer = <<>>) /\ reader'.waiters = <<>> => reader'.buffer = <<>>
<1> DEFINE w == r.waiters
<1>1. PICK n \in 0 .. Len(w) : Handing(n, r, frames)
  BY HandShape
<1> DEFINE o == Handed(n, w, frames)
           v == SubSeq(w, n + 1, Len(w))
           after == Queued(r, v)
<1>2. n <= Len(frames) /\ (n = Len(frames) \/ n = Len(w)) /\ Ended(o, after)
  BY <1>1 DEF Handing
<1>3. EachWaits(o, v) /\ Waiting(ops, v) /\ Len(v) = Len(w) - n /\ Len(w) \in Nat
  <2> HIDE DEF w, o, v
  <2>1. Waiting(ops, w) /\ EachWaits(ops, w)
    BY DEF w
  <2> QED
    BY <2>1, HandedRest DEF o, v
<1>4. Follows(ops, o)
  BY HandedFacts
<1>5. Based(ops) /\ OpsTyped(ops) /\ Len(ops) \in Nat
  BY BasedSelf
<1> HIDE DEF o, v
<1>6. OpsTyped(o) /\ AtOnce(o)
  BY <1>4, FollowsKeeps DEF OneByOne
<1>7. v \in Seq(Nat)
  BY <1>3, <1>5, SeqMonotonic DEF Waiting
<1>8. after \in Readers(Nat) /\ after.waiters = v /\ after.buffer = r.buffer
  BY <1>7, QueuedFacts
<1> HIDE DEF after
<1>9. EachWaits(ops', reader'.waiters)
  BY <1>2, <1>3, <1>6, <1>8, EndedWaits
<1>10. InSession(ops', session')
  BY <1>2, <1>4, <1>5, <1>6, EndedSession
<1>11. reader'.waiters = v /\ (reader'.buffer = r.buffer \/ reader'.buffer = <<>>)
  <2>1. reader' = after \/ reader' = Cleared(after)
    BY <1>2 DEF Ended
  <2> QED
    BY <1>8, <2>1, ClearedFacts
<1>12. ASSUME w # <<>>, frames # <<>> => r.buffer = <<>>, v = <<>> PROVE reader'.buffer = <<>>
  <2>1. Len(v) = 0 /\ Len(w) # 0
    <3>1. w \in Seq(Nat)
      BY DEF Readers
    <3> QED
      BY <1>12, <3>1, EmptySeq
  <2>2. Len(frames) # 0
    BY <1>2, <1>3, <2>1
  <2>3. frames # <<>>
    BY <2>2, EmptySeq
  <2> QED
    BY <1>11, <1>12, <2>3
<1> QED
  BY <1>9, <1>10, <1>11, <1>12

\* The frames that were right end their operations with what was said, and the rest of the buffer
\* and the line is owed to the others.
LEMMA HandTrue ==
  ASSUME host \in Hosts, NEW r \in Readers(Nat), NEW s, NEW m \in Int, Orderly(ops, r.waiters, s, m),
         NEW frames, IsTuple(frames), NEW l \in Seq(Byte),
         Len(frames) <= Len(r.waiters) => Right(frames, r, ops, s, r.waiters, l),
         Truthful(ops, s), Hand(r, frames), trouble' = {}
  PROVE  Truthful(ops', s) /\ Match(ops', s, reader', l)
<1> DEFINE w == r.waiters
<1>1. PICK n \in 0 .. Len(w) : Handing(n, r, frames)
  BY HandShape
<1> DEFINE o == Handed(n, w, frames)
           v == SubSeq(w, n + 1, Len(w))
           after == Queued(r, v)
<1>2. /\ n <= Len(frames) /\ Ended(o, after)
      /\ trouble' = trouble \cup (IF Len(frames) > n THEN {"early"} ELSE {})
                            \cup (IF Stale(GivenUp(o), after) THEN {"stale"} ELSE {})
  BY <1>1 DEF Handing
<1>3. /\ Waiting(ops, w) /\ AllReading(ops, w) /\ EachWaits(ops, w) /\ OneByOne(ops) /\ AtOnce(ops)
      /\ Len(ops) <= MaxOps /\ Told(ops, s, m)
  BY DEF Orderly
<1>4. EachWaits(o, v) /\ Waiting(ops, v) /\ Len(v) = Len(w) - n /\ Len(w) \in Nat
  <2> HIDE DEF w, o, v
  <2> QED
    BY <1>3, HandedRest DEF o, v
<1>5. /\ Follows(ops, o)
      /\ \A j \in 1 .. n : o[w[j]] = Settle(ops[w[j]], frames[j])
      /\ \A i \in 1 .. Len(ops) : (\A j \in 1 .. n : w[j] # i) => o[i] = ops[i]
  BY <1>3, HandedFacts
<1>6. Based(ops) /\ OpsTyped(ops) /\ Len(ops) \in Nat /\ \A i \in 1 .. Len(ops) : Shaped(ops[i])
  BY <1>3, BasedSelf DEF OpsTyped
<1> HIDE DEF o, v
<1>7. OpsTyped(o) /\ Len(o) = Len(ops)
  BY <1>3, <1>5, FollowsKeeps DEF OneByOne, Follows
<1>8. v \in Seq(Nat)
  BY <1>4, <1>6, SeqMonotonic DEF Waiting
<1>9. after \in Readers(Nat) /\ after.waiters = v /\ after.buffer = r.buffer /\ after.address = r.address
  BY <1>8, QueuedFacts
<1> HIDE DEF after
<1>10. Len(frames) = n /\ ~Stale(GivenUp(o), after)
  <2>1. ~(Len(frames) > n) /\ ~Stale(GivenUp(o), after)
    BY <1>2
  <2>2. Len(frames) \in Nat
    BY DEF IsTuple
  <2> QED
    BY <1>2, <2>1, <2>2
<1>11. /\ \A j \in 1 .. n : /\ s[w[j]] # Nothing /\ frames[j].inner = InnerOf(s[w[j]])
                            /\ frames[j].address \in Nat /\ frames[j].address % 2 = 0
       /\ r.buffer \o l = FlattenSeq(Unread(Owing(ops, s), w, n)) /\ r.address % 2 = 0
  BY <1>4, <1>10 DEF Right
<1>12. ASSUME NEW j \in 1 .. n
       PROVE  /\ w[j] \in 1 .. Len(ops) /\ s[w[j]] # Nothing /\ o[w[j]].kind = ops[w[j]].kind
              /\ o[w[j]].at \in {"done", "failed"}
              /\ o[w[j]].at = "done" => o[w[j]].result = s[w[j]] /\ Accepted(o[w[j]].kind, s[w[j]])
              /\ o[w[j]].at = "failed" => ~Accepted(o[w[j]].kind, s[w[j]])
  <2>1. j \in 1 .. Len(w)
    BY <1>4
  <2>2. w[j] \in 1 .. Len(ops) /\ ops[w[j]].at = "reading"
    BY <1>3, <2>1, ElementOfSeq DEF Waiting, AllReading
  <2> DEFINE i == w[j]
             op == ops[i]
  <2>3. ReadAs(op.kind, s[i])
    BY <1>3, <1>6, <1>11, <2>2, SaidReads
  <2>4. Shaped(op) /\ op.at = "reading"
    BY <1>6, <2>2
  <2>5. o[i] = Settle(op, frames[j])
    BY <1>5
  <2>6. /\ frames[j].inner = InnerOf(s[i]) /\ frames[j].address \in Nat /\ frames[j].address % 2 = 0
        /\ s[i] # Nothing /\ i \in 1 .. Len(ops)
    BY <1>11, <2>2
  <2> HIDE DEF op, i
  <2>7. /\ Settle(op, frames[j]).at = "done" => Settle(op, frames[j]).result = s[i] /\ Accepted(op.kind, s[i])
        /\ Settle(op, frames[j]).at = "failed" => ~Accepted(op.kind, s[i])
        /\ Settle(op, frames[j]).kind = op.kind /\ Settle(op, frames[j]).at \in {"done", "failed"}
    BY <2>3, <2>4, <2>6, SettleTrue, SettleFacts
  <2>8. /\ i \in 1 .. Len(ops) /\ s[i] # Nothing /\ o[i].kind = ops[i].kind
        /\ o[i].at \in {"done", "failed"}
        /\ o[i].at = "done" => o[i].result = s[i] /\ Accepted(o[i].kind, s[i])
        /\ o[i].at = "failed" => ~Accepted(o[i].kind, s[i])
    BY <2>5, <2>6, <2>7 DEF op
  <2> QED
    BY <2>8 DEF i
<1>13. Truthful(o, s)
  <2> SUFFICES ASSUME NEW i \in 1 .. Len(o)
               PROVE  /\ o[i].at = "done" => s[i] # Nothing /\ o[i].result = s[i] /\ Accepted(o[i].kind, s[i])
                      /\ o[i].at = "failed" => s[i] # Nothing /\ ~Accepted(o[i].kind, s[i])
    BY DEF Truthful
  <2>1. CASE \A j \in 1 .. n : w[j] # i
    <3>1. o[i] = ops[i] /\ i \in 1 .. Len(ops)
      BY <1>5, <1>7, <2>1
    <3> QED
      BY <3>1 DEF Truthful
  <2>2. CASE \E j \in 1 .. n : w[j] = i
    <3>1. PICK j \in 1 .. n : w[j] = i
      BY <2>2
    <3> QED
      BY <1>12, <3>1
  <2> QED
    BY <2>1, <2>2
<1> DEFINE F == Owing(ops, s)
           G == Unread(F, w, n)
<1>14. Pieces(F) /\ Len(F) = Len(ops) /\ \A i \in 1 .. Len(ops) : F[i] = Piece(ops, s, i)
  BY <1>3, <1>6, OwingFacts
<1>15. Owing(o, s) = G
  <2> HIDE DEF F
  <2>1. /\ Pieces(G) /\ Len(G) = Len(F)
        /\ \A i \in 1 .. Len(F) : G[i] = IF \E j \in 1 .. n : w[j] = i THEN <<>> ELSE F[i]
    BY <1>14, UnreadFacts
  <2> HIDE DEF G
  <2>2. ASSUME NEW i \in 1 .. Len(o) PROVE G[i] = Piece(o, s, i)
    <3>1. CASE \A j \in 1 .. n : w[j] # i
      <4>1. o[i] = ops[i] /\ i \in 1 .. Len(ops) /\ G[i] = F[i]
        BY <1>5, <1>7, <1>14, <2>1, <3>1
      <4> QED
        BY <1>14, <4>1 DEF Piece
    <3>2. CASE \E j \in 1 .. n : w[j] = i
      <4>1. o[i].at \in {"done", "failed"} /\ G[i] = <<>>
        BY <1>7, <1>12, <1>14, <2>1, <3>2
      <4> QED
        BY <4>1 DEF Piece
    <3> QED
      BY <3>1, <3>2
  <2>3. IsTuple(G) /\ Len(G) = Len(o)
    BY <1>7, <1>14, <2>1 DEF Pieces
  <2> QED
    BY <1>7, <2>2, <2>3, OwingOver
<1>16. Match(o, s, after, l)
  BY <1>9, <1>11, <1>15 DEF Match
<1> HIDE DEF F, G
<1>17. GivenUp(o) = o
  <2>1. ASSUME NEW i \in 1 .. Len(o), o[i].kind = "exchange", o[i].at = "reading"
        PROVE  ~Lost(o) /\ ~(Web /\ Exited(o))
    <3>1. PICK k \in 1 .. Len(v) : v[k] = i
      BY <1>4, <2>1 DEF EachWaits
    <3>2. DOMAIN v = 1 .. Len(v)
      BY <1>8, LenProperties
    <3>3. GivenUp(o)[i].at = "reading"
      BY <1>9, <1>10, <3>1, <3>2 DEF Stale
    <3> QED
      BY <1>7, <2>1, <3>3, StillReads
  <2>2. CASE ~Lost(o) /\ ~(Web /\ Exited(o))
    BY <1>7, <2>2, GivenUpFacts
  <2>3. CASE ~(~Lost(o) /\ ~(Web /\ Exited(o)))
    <3>1. \A i \in 1 .. Len(o) : ~(o[i].kind = "exchange" /\ o[i].at = "reading")
      BY <2>1, <2>3
    <3> QED
      BY <1>7, <3>1, NoneGivenUp
  <2> QED
    BY <2>2, <2>3
<1>18. Told(o, s, m) /\ Len(o) <= MaxOps
  BY <1>3, <1>5, <1>7, ToldFollows
<1> QED
  BY <1>2, <1>5, <1>6, <1>9, <1>13, <1>16, <1>17, <1>18, EndedTrue

-----------------------------------------------------------------------------
(***************************************************************************)
(* Every step keeps what was said, what is owed and what has ended         *)
(* together.                                                               *)
(***************************************************************************)
\* Whatever goes wrong on the line.
Kept ==
  /\ Told(ops, said, Looked) /\ EachWaits(ops, reader.waiters) /\ InSession(ops, session)
  /\ Offline /\ reader.waiters = <<>> => reader.buffer = <<>>
\* As long as nothing goes wrong.
Clean == trouble = {} => AllSaid(said, Looked) /\ Truthful(ops, said) /\ Match(ops, said, reader, line)

TruthInv == LinkInv /\ Kept /\ Clean

\* The parts of the invariant after a step.
LEMMA TruthPrimed ==
  ASSUME host' = host, Told(ops', said', Looked'), EachWaits(ops', reader'.waiters), InSession(ops', session'),
         Offline /\ reader'.waiters = <<>> => reader'.buffer = <<>>,
         trouble' = {} => AllSaid(said', Looked') /\ Truthful(ops', said') /\ Match(ops', said', reader', line')
  PROVE  Kept' /\ Clean'
<1>1. Web' = Web /\ Offline' = Offline
  BY DEF Web, Offline
<1>2. \A kind, i : Asks(kind, i)' = Asks(kind, i)
  BY DEF Asks, Bytes, Web, HostFrame, BridgeFrame, RealtimeFrame, OfflineFrame
<1>3. \A q : Heard(q)' = Heard(q)
  BY <1>1 DEF Heard
<1>4. /\ \A q, word, status : AckOf(q, word, status)' = AckOf(q, word, status)
      /\ \A q, status : EchoOf(q, status)' = EchoOf(q, status)
  BY <1>1, <1>3 DEF AckOf, EchoOf
<1>5. \A kind, i : Answers(kind, i)' = Answers(kind, i)
  BY <1>2, <1>4 DEF Answers
<1>6. \A a : OnLine(a)' = OnLine(a)
  BY <1>1 DEF OnLine, InnerOf
<1>7. \A status : StatusIsOk(status)' = StatusIsOk(status)
  BY DEF StatusIsOk
<1>8. \A kind, a : Accepted(kind, a)' = Accepted(kind, a)
  BY <1>7 DEF Accepted
<1>9. Told(ops, said, Looked)'
  BY <1>5 DEF Told
<1>10. EachWaits(ops, reader.waiters)' /\ InSession(ops, session)'
  BY <1>1 DEF EachWaits, InSession
<1>11. Kept'
  BY <1>1, <1>9, <1>10 DEF Kept
<1>12. Truthful(ops', said') => Truthful(ops, said)'
  BY <1>8 DEF Truthful
<1>13. Owing(ops, said)' = Owing(ops', said')
  BY <1>6 DEF Owing, Piece
<1>14. Match(ops', said', reader', line') => Match(ops, said, reader, line)'
  BY <1>13 DEF Match
<1>15. AllSaid(said', Looked') => AllSaid(said, Looked)'
  BY DEF AllSaid
<1>16. Clean'
  BY <1>12, <1>14, <1>15 DEF Clean
<1> QED
  BY <1>11, <1>16

\* What the invariant says, in the terms of the lemmas above.
LEMMA TruthState ==
  ASSUME TruthInv
  PROVE  /\ host \in Hosts /\ session \in Sessions /\ OneByOne(ops) /\ AtOnce(ops) /\ OpsTyped(ops) /\ IsTuple(ops)
         /\ Len(ops) \in Nat /\ Len(ops) <= MaxOps /\ line \in Seq(Byte) /\ reader \in Readers(Nat)
         /\ Served(ops, reader) /\ reader.buffer \in Seq(Byte)
         /\ Looked \in 0 .. Len(ops) /\ Told(ops, said, Looked) /\ EachWaits(ops, reader.waiters)
         /\ InSession(ops, session) /\ (Offline /\ reader.waiters = <<>> => reader.buffer = <<>>)
         /\ trouble = {} => /\ AllSaid(said, Looked) /\ Truthful(ops, said)
                            /\ Match(ops, said, reader, line) /\ AllReading(ops, reader.waiters)
<1>1. /\ host \in Hosts /\ session \in Sessions /\ OneByOne(ops) /\ AtOnce(ops) /\ OpsTyped(ops) /\ IsTuple(ops)
      /\ Len(ops) \in Nat /\ Len(ops) <= MaxOps /\ line \in Seq(Byte) /\ reader \in Readers(Nat)
      /\ Served(ops, reader) /\ reader.buffer \in Seq(Byte)
  BY DEF TruthInv, LinkInv, Typed, Queueing, OneByOne, OpsTyped, IsTuple, Served, Readers
<1>2. Looked \in 0 .. Len(ops)
  BY <1>1 DEF TruthInv, LinkInv, Asked, IsTuple, Looked
<1>3. trouble = {} => AllReading(ops, reader.waiters)
  BY <1>1 DEF Served
<1> QED
  BY <1>1, <1>2, <1>3 DEF TruthInv, Kept, Clean

\* A silent device: the request is lost, and something has gone wrong.
LEMMA SilentTrue ==
  ASSUME TruthInv, Silent
  PROVE  Kept' /\ Clean'
<1>1. /\ requests # <<>> /\ requests' = Tail(requests) /\ trouble' # {}
      /\ host' = host /\ session' = session /\ ops' = ops /\ said' = said /\ reader' = reader
  BY DEF Silent
<1>2. Looked' = Looked + 1 /\ Looked \in Nat
  <2>1. Len(Tail(requests)) = Len(requests) - 1 /\ Len(requests) \in Nat
    BY <1>1, TailTuple DEF TruthInv, LinkInv, Asked
  <2> QED
    BY <1>1, <2>1, TruthState DEF Looked
<1>3. Told(ops', said', Looked')
  <2>1. Told(ops, said, Looked + 1)
    <3>1. Told(ops, said, Looked) /\ Len(ops) \in Nat
      BY TruthState
    <3>2. \A i \in 1 .. Len(ops) : i <= Looked => i <= Looked + 1
      BY <1>2, <3>1
    <3> QED
      BY <3>1, <3>2 DEF Told
  <2> QED
    BY <1>1, <1>2, <2>1
<1> QED
  BY <1>1, <1>3, TruthState, TruthPrimed

\* A byte that belongs to no frame: something has gone wrong.
LEMMA NoiseTrue ==
  ASSUME TruthInv, Noise
  PROVE  Kept' /\ Clean'
<1>1. /\ trouble' # {} /\ requests' = requests
      /\ host' = host /\ session' = session /\ ops' = ops /\ said' = said /\ reader' = reader
  BY DEF Noise
<1>2. Looked' = Looked
  BY <1>1 DEF Looked
<1> QED
  BY <1>1, <1>2, TruthState, TruthPrimed

\* The device says something: it is owed behind everything else.
LEMMA SayTrue ==
  ASSUME TruthInv, requests # <<>>, NEW i, i = Looked + 1, NEW a \in Answers(ops[i].kind, i),
         Say(i, a, InnerOf(a)), trouble' = trouble
  PROVE  Kept' /\ Clean'
<1>1. /\ requests' = Tail(requests) /\ said' = [said EXCEPT ![i] = a] /\ line' = line \o OnLine(a)
      /\ host' = host /\ session' = session /\ ops' = ops /\ reader' = reader
  BY DEF Say, OnLine
<1>2. Looked' = i /\ Looked \in Nat /\ i \in 1 .. Len(ops) /\ i \in 1 .. MaxOps /\ ops[i].kind \in Kinds
  <2>1. Looked + 1 \in 1 .. Len(ops) /\ Looked + 1 \in 1 .. MaxOps /\ ops[Looked + 1].kind \in Kinds
    BY <1>1, RequestTaken DEF TruthInv
  <2>2. Len(Tail(requests)) = Len(requests) - 1 /\ Len(requests) \in Nat
    BY TailTuple DEF TruthInv, LinkInv, Asked
  <2>3. Looked \in Nat /\ Len(ops) \in Nat
    BY TruthState
  <2>4. Looked' = Looked + 1
    BY <1>1, <2>2, <2>3 DEF Looked
  <2> QED
    BY <2>1, <2>3, <2>4
<1> DEFINE t == [said EXCEPT ![i] = a]
<1>3. /\ Told(ops, said, Looked) /\ IsTuple(said) /\ Len(said) = Len(ops) /\ Len(ops) \in Nat
      /\ \A j \in 1 .. Len(ops) : said[j] # Nothing => j <= Looked /\ said[j] \in Answers(ops[j].kind, j)
  BY TruthState DEF Told
<1>4. /\ IsTuple(t) /\ Len(t) = Len(ops) /\ t[i] = a /\ \A j \in 1 .. Len(ops) : j # i => t[j] = said[j]
  <2>1. DOMAIN said = 1 .. Len(ops)
    BY <1>3, TupleSeq
  <2>2. t = [j \in 1 .. Len(ops) |-> t[j]] /\ t[i] = a /\ \A j \in 1 .. Len(ops) : j # i => t[j] = said[j]
    BY <1>2, <2>1
  <2> HIDE DEF t
  <2> QED
    BY <1>3, <2>2, FunctionTuple
<1> HIDE DEF t
<1>5. said' = t
  BY <1>1 DEF t
<1>6. Told(ops, t, i)
  <2> SUFFICES ASSUME NEW j \in 1 .. Len(ops), t[j] # Nothing PROVE j <= i /\ t[j] \in Answers(ops[j].kind, j)
    BY <1>4 DEF Told
  <2>1. CASE j = i
    BY <1>2, <1>4, <2>1
  <2>2. CASE j # i
    <3>1. j <= Looked /\ t[j] \in Answers(ops[j].kind, j)
      BY <1>3, <1>4, <2>2
    <3> QED
      BY <1>2, <3>1
  <2> QED
    BY <2>1, <2>2
<1>7. a # Nothing /\ Framed(InnerOf(a))
  BY <1>2, AnswerReads, TruthState
<1>8. ASSUME trouble' = {} PROVE AllSaid(t, i) /\ Truthful(ops, t) /\ Match(ops, t, reader, line')
  <2>1. /\ AllSaid(said, Looked) /\ Truthful(ops, said) /\ Match(ops, said, reader, line) /\ host \in Hosts
        /\ OpsTyped(ops) /\ Len(ops) <= MaxOps /\ line \in Seq(Byte) /\ reader.buffer \in Seq(Byte)
    BY <1>8, TruthState
  <2>2. AllSaid(t, i)
    <3> SUFFICES ASSUME NEW j \in 1 .. i PROVE t[j] # Nothing
      BY DEF AllSaid
    <3>1. CASE j = i
      BY <1>4, <1>7, <3>1
    <3>2. CASE j # i
      <4>1. j \in 1 .. Looked /\ j \in 1 .. Len(ops)
        BY <1>2, <1>3, <3>2
      <4> QED
        BY <1>4, <2>1, <3>2, <4>1 DEF AllSaid
    <3> QED
      BY <3>1, <3>2
  <2>3. said[i] = Nothing
    BY <1>2, <1>3
  <2>4. Truthful(ops, t)
    <3> SUFFICES ASSUME NEW j \in 1 .. Len(ops)
                 PROVE  /\ ops[j].at = "done" => t[j] # Nothing /\ ops[j].result = t[j] /\ Accepted(ops[j].kind, t[j])
                        /\ ops[j].at = "failed" => t[j] # Nothing /\ ~Accepted(ops[j].kind, t[j])
      BY DEF Truthful
    <3>1. CASE j = i
      BY <2>1, <2>3, <3>1 DEF Truthful
    <3>2. CASE j # i
      BY <1>4, <2>1, <3>2 DEF Truthful
    <3> QED
      BY <3>1, <3>2
  <2> DEFINE F == Owing(ops, said)
             G == Owing(ops, t)
  <2>5. Pieces(F) /\ Len(F) = Len(ops) /\ \A j \in 1 .. Len(ops) : F[j] = Piece(ops, said, j)
    BY <1>3, <2>1, OwingFacts
  <2>6. Pieces(G) /\ Len(G) = Len(ops) /\ \A j \in 1 .. Len(ops) : G[j] = Piece(ops, t, j)
    BY <1>6, <2>1, OwingFacts
  <2> HIDE DEF F, G
  <2>7. \A j \in 1 .. Len(F) : j >= i => F[j] = <<>>
    <3> SUFFICES ASSUME NEW j \in 1 .. Len(F), j >= i PROVE F[j] = <<>>
      OBVIOUS
    <3>1. j \in 1 .. Len(ops) /\ ~(j <= Looked)
      BY <1>2, <1>3, <2>5
    <3>2. said[j] = Nothing
      BY <1>3, <3>1
    <3> QED
      BY <2>5, <3>1, <3>2 DEF Piece
  <2>8. \A j \in 1 .. Len(F) : j # i => G[j] = F[j]
    BY <1>4, <2>5, <2>6 DEF Piece
  <2>9. G[i] = OnLine(a)
    <3>1. ops[i].at \notin {"done", "failed"}
      BY <1>2, <2>1, <2>3 DEF Truthful
    <3> QED
      BY <1>2, <1>4, <1>7, <2>6, <3>1 DEF Piece
  <2>10. i \in 1 .. Len(F) /\ Len(G) = Len(F)
    BY <1>2, <2>5, <2>6
  <2>11. FlattenSeq(G) = FlattenSeq(F) \o G[i] /\ G[i] \in Seq(Byte)
    BY <2>5, <2>6, <2>7, <2>8, <2>10, FlattenLast DEF Pieces
  <2>12. reader.buffer \o line = FlattenSeq(F) /\ reader.address % 2 = 0
    BY <2>1 DEF Match, F
  <2> DEFINE x == OnLine(a)
  <2>13. x \in Seq(Byte) /\ line' = line \o x /\ FlattenSeq(G) = FlattenSeq(F) \o x
    BY <1>1, <2>9, <2>11
  <2> HIDE DEF x
  <2>19. Associates(reader.buffer, line, x)
    BY <2>1, <2>13, BytesAssociative
  <2>14. (reader.buffer \o line) \o x = reader.buffer \o (line \o x)
    BY <2>19 DEF Associates
  <2>15. reader.buffer \o line' = FlattenSeq(G)
    BY <2>12, <2>13, <2>14
  <2> QED
    BY <2>2, <2>4, <2>12, <2>15 DEF Match, G
<1>9. Told(ops', said', Looked')
  BY <1>1, <1>2, <1>5, <1>6
<1>10. trouble' = {} => AllSaid(said', Looked') /\ Truthful(ops', said') /\ Match(ops', said', reader', line')
  BY <1>1, <1>2, <1>5, <1>8
<1> QED
  BY <1>1, <1>9, <1>10, TruthState, TruthPrimed

\* The device answers.
LEMMA AnswerTrue ==
  ASSUME TruthInv, Answer
  PROVE  Kept' /\ Clean'
<1> DEFINE q == Head(requests)
           i == Looked + 1
           kind == ops[i].kind
           word == IF ops[q.op].kind = "query" THEN 2 ELSE 0
<1>1. requests # <<>> /\ trouble' = trouble
  BY DEF Answer
<1>2. requests' = Tail(requests) /\ host' = host /\ ops' = ops
  BY DEF Answer, Say
<1>3. i \in 1 .. MaxOps /\ kind \in Kinds /\ q = Asks(kind, i) /\ host \in Hosts
  BY <1>1, <1>2, RequestTaken DEF TruthInv, LinkInv, Typed
<1> HIDE DEF i
<1>4. q.op = i
  BY <1>3 DEF Asks
<1>5. CASE ops[q.op].kind = "exchange"
  <2>1. PICK s \in (IF Offline \/ left.bad = 0 THEN {OK} ELSE Statuses) :
           Say(q.op, EchoOf(q, s), IF Offline THEN OfflineBytes(EchoOf(q, s)) ELSE ResponseBytes(EchoOf(q, s)))
    BY <1>5 DEF Answer
  <2>2. s \in Statuses
    BY DEF Statuses
  <2>3. kind = "exchange" /\ q = Asks("exchange", i)
    BY <1>3, <1>4, <1>5
  <2>4. InnerOf(EchoOf(q, s)) = IF Offline THEN OfflineBytes(EchoOf(q, s)) ELSE ResponseBytes(EchoOf(q, s))
    BY <1>3, <2>2, <2>3, EchoReads
  <2>5. EchoOf(q, s) \in Answers(kind, i)
    BY <2>2, <2>3 DEF Answers
  <2>6. Say(i, EchoOf(q, s), InnerOf(EchoOf(q, s)))
    BY <1>4, <2>1, <2>4
  <2> DEFINE a == EchoOf(q, s)
  <2> HIDE DEF a
  <2>7. i = Looked + 1 /\ a \in Answers(ops[i].kind, i) /\ Say(i, a, InnerOf(a))
    BY <2>5, <2>6 DEF a, i
  <2> QED
    BY <1>1, <2>7, SayTrue
<1>6. CASE ops[q.op].kind # "exchange"
  <2>1. Say(q.op, AckOf(q, word, OK), AckBytes(Heard(q).command, word, OK))
    BY <1>6 DEF Answer
  <2>2. word \in {0, 2} /\ OK \in {OK, NOT_ACTIVE} /\ kind # "exchange"
    BY <1>4, <1>6
  <2> HIDE DEF word, kind
  <2>3. InnerOf(AckOf(q, word, OK)) = AckBytes(Heard(q).command, word, OK)
    BY <1>3, <2>2, AckReads
  <2>4. AckOf(q, word, OK) \in Answers(kind, i)
    BY <1>3, <2>2 DEF Answers
  <2> DEFINE a == AckOf(q, word, OK)
  <2> HIDE DEF a
  <2>5. i = Looked + 1 /\ a \in Answers(ops[i].kind, i) /\ Say(i, a, InnerOf(a))
    BY <1>4, <2>1, <2>3, <2>4 DEF a, i, kind
  <2> QED
    BY <1>1, <2>5, SayTrue
<1> QED
  BY <1>5, <1>6

\* The device refuses an exchange.
LEMMA RefuseTrue ==
  ASSUME TruthInv, Refuse
  PROVE  Kept' /\ Clean'
<1> DEFINE q == Head(requests)
           i == Looked + 1
           kind == ops[i].kind
           a == AckOf(q, 0, NOT_ACTIVE)
<1>1. /\ requests # <<>> /\ trouble' = trouble /\ ops[q.op].kind = "exchange"
      /\ Say(q.op, a, AckBytes(Heard(q).command, 0, NOT_ACTIVE))
  BY DEF Refuse
<1>2. requests' = Tail(requests) /\ host' = host /\ ops' = ops
  BY <1>1 DEF Say
<1>3. i \in 1 .. MaxOps /\ kind \in Kinds /\ q = Asks(kind, i) /\ host \in Hosts
  BY <1>1, <1>2, RequestTaken DEF TruthInv, LinkInv, Typed
<1> HIDE DEF i
<1>4. q.op = i /\ kind = "exchange" /\ 0 \in {0, 2} /\ NOT_ACTIVE \in {OK, NOT_ACTIVE}
  BY <1>1, <1>3 DEF Asks
<1> HIDE DEF kind
<1>5. InnerOf(a) = AckBytes(Heard(q).command, 0, NOT_ACTIVE)
  BY <1>3, <1>4, AckReads
<1>6. a \in Answers(kind, i)
  BY <1>3, <1>4 DEF Answers
<1> HIDE DEF a
<1>7. i = Looked + 1 /\ a \in Answers(ops[i].kind, i) /\ Say(i, a, InnerOf(a))
  BY <1>1, <1>4, <1>5, <1>6 DEF i, kind
<1> QED
  BY <1>1, <1>7, SayTrue

\* A write returns, and its operation reads.
LEMMA WrittenTrue ==
  ASSUME TruthInv, NEW i \in DOMAIN ops, Written(i)
  PROVE  Kept' /\ Clean'
<1>1. /\ host \in Hosts /\ session \in Sessions /\ OneByOne(ops) /\ Len(ops) <= MaxOps
      /\ Told(ops, said, Looked) /\ EachWaits(ops, reader.waiters) /\ InSession(ops, session)
      /\ (Offline /\ reader.waiters = <<>> => reader.buffer = <<>>) /\ line \in Seq(Byte)
  BY TruthState
<1>2. /\ About(i, ops) /\ Served(ops, reader) /\ ReadFrame(i, ops, reader)
      /\ \A k \in 1 .. Len(reader.waiters) : reader.waiters[k] < i
  BY WrittenAbout DEF TruthInv
<1>3. Based(ops)
  BY <1>1, BasedSelf
<1>4. Follows(ops, ops')
  BY <1>1, <1>2, ReadFrameKeeps
<1>5. EachWaits(ops', reader'.waiters) /\ InSession(ops', session') /\ (Offline => reader'.waiters # <<>>)
  BY <1>1, <1>2, <1>3, ReadFrameWaits
<1>6. host' = host /\ requests' = requests /\ said' = said /\ line' = line /\ trouble' = trouble
  BY DEF Written
<1>7. Looked' = Looked
  BY <1>4, <1>6 DEF Looked, Follows
<1>8. Told(ops', said', Looked')
  BY <1>1, <1>4, <1>6, <1>7, ToldFollows
<1>9. ASSUME trouble' = {} PROVE AllSaid(said', Looked') /\ Truthful(ops', said') /\ Match(ops', said', reader', line')
  <2>1. AllSaid(said, Looked) /\ Truthful(ops, said) /\ Match(ops, said, reader, line)
    BY <1>6, <1>9, TruthState
  <2>2. Truthful(ops', said) /\ Match(ops', said, reader', line)
    BY <1>1, <1>2, <1>3, <2>1, ReadFrameTrue
  <2> QED
    BY <1>6, <1>7, <2>1, <2>2
<1> QED
  BY <1>5, <1>6, <1>8, <1>9, TruthPrimed

\* Whoever still reads when one read has given up goes on waiting.
LEMMA OthersWait ==
  ASSUME NEW o, OpsTyped(o), NEW r \in Readers(Nat), Waiting(o, r.waiters), EachWaits(o, r.waiters), NEW i,
         NEW q, Len(q) = Len(o), \A j \in 1 .. Len(o) : j # i => q[j] = o[j],
         i \in 1 .. Len(o) => q[i].at # "reading"
  PROVE  EachWaits(q, WebTimeout(r, i).waiters)
<1> DEFINE w == r.waiters
           v == RemoveFirst(w, i)
<1>1. w \in Seq(1 .. Len(o)) /\ Rising(w) /\ (1 .. Len(o)) \subseteq Nat
  BY DEF Waiting, OpsTyped, IsTuple
<1>2. WebTimeout(r, i).waiters = v
  BY DEF WebTimeout, Readers
<1>3. \A j \in 1 .. Len(w) : w[j] # i => \E k \in 1 .. Len(v) : v[k] = w[j]
  <2> HIDE DEF w
  <2> QED
    BY <1>1, RemoveFacts
<1> HIDE DEF v
<1>4. ASSUME NEW j \in 1 .. Len(q), q[j].at = "reading" PROVE \E k \in 1 .. Len(v) : v[k] = j
  <2>1. j # i /\ j \in 1 .. Len(o) /\ o[j].at = "reading"
    BY <1>4
  <2>2. PICK k \in 1 .. Len(w) : w[k] = j
    BY <2>1 DEF EachWaits
  <2> QED
    BY <1>3, <2>1, <2>2
<1> QED
  BY <1>2, <1>4 DEF EachWaits

\* The timer of a read whose operation was given up: on a line on which nothing went wrong there
\* is none.
LEMMA StaleTimeoutTrue ==
  ASSUME TruthInv, NEW i \in DOMAIN ops, StaleTimeout(i)
  PROVE  Kept' /\ Clean'
<1>1. /\ host' = host /\ session' = session /\ ops' = ops /\ requests' = requests /\ said' = said
      /\ trouble' = trouble /\ reader' = WebTimeout(reader, i) /\ ops[i].at = "failed"
      /\ i \in ToSet(reader.waiters)
  BY DEF StaleTimeout
<1>2. /\ OpsTyped(ops) /\ reader \in Readers(Nat) /\ Waiting(ops, reader.waiters) /\ EachWaits(ops, reader.waiters)
      /\ ~Web => AllReading(ops, reader.waiters)
      /\ trouble = {} => AllReading(ops, reader.waiters)
      /\ Told(ops, said, Looked) /\ InSession(ops, session) /\ host \in Hosts
  BY TruthState DEF Served
<1>3. EachWaits(ops', reader'.waiters)
  <2>1. EachWaits(ops, WebTimeout(reader, i).waiters)
    BY <1>1, <1>2, OthersWait
  <2> QED
    BY <1>1, <2>1
<1>4. ~AllReading(ops, reader.waiters)
  <2>1. PICK k \in DOMAIN reader.waiters : reader.waiters[k] = i
    BY <1>1 DEF ToSet
  <2>2. k \in 1 .. Len(reader.waiters)
    BY <1>2, LenProperties DEF Waiting
  <2> QED
    BY <1>1, <2>1, <2>2 DEF AllReading
<1>5. ~Offline /\ trouble' # {}
  BY <1>1, <1>2, <1>4, Programs
<1>6. Looked' = Looked
  BY <1>1 DEF Looked
<1> QED
  BY <1>1, <1>2, <1>3, <1>5, <1>6, TruthPrimed

\* A read that gives up: something has gone wrong.
LEMMA TimeoutTrue ==
  ASSUME TruthInv, NEW i \in DOMAIN ops, Timeout(i)
  PROVE  Kept' /\ Clean'
<1> DEFINE s == WebTimeout(reader, i)
           r == IF Web THEN s ELSE ToolTimeout(reader, i)
           o == [ops EXCEPT ![i].at = "failed"]
<1>1. /\ ops[i].at = "reading" /\ Ended(o, r) /\ trouble' # {}
      /\ host' = host /\ requests' = requests /\ said' = said
  BY DEF Timeout
<1>2. /\ host \in Hosts /\ OneByOne(ops) /\ AtOnce(ops) /\ OpsTyped(ops) /\ IsTuple(ops) /\ Len(ops) \in Nat
      /\ reader \in Readers(Nat) /\ Waiting(ops, reader.waiters) /\ EachWaits(ops, reader.waiters)
      /\ Told(ops, said, Looked) /\ InSession(ops, session)
  BY TruthState DEF Served
<1>3. /\ Len(o) = Len(ops) /\ o[i].at = "failed" /\ \A j \in 1 .. Len(ops) : j # i => o[j] = ops[j]
      /\ Follows(ops, o) /\ AtOnce(o) /\ OpsTyped(o)
  BY <1>1, <1>2, FailedFacts
<1> HIDE DEF o
<1>4. s \in Readers(Nat)
  BY <1>2, <1>3, GivesUpFacts
<1>5. EachWaits(o, s.waiters)
  BY <1>2, <1>3, OthersWait
<1>6. r = s \/ (~Web /\ r = Cleared(s))
  BY DEF ToolTimeout
<1>7. Offline => r = Cleared(s)
  BY <1>2, Programs DEF ToolTimeout
<1> HIDE DEF s, r
<1>8. r \in Readers(Nat) /\ r.waiters = s.waiters /\ (Offline => r.buffer = <<>>)
  BY <1>4, <1>6, <1>7, ClearedFacts
<1>9. EachWaits(ops', reader'.waiters)
  BY <1>1, <1>3, <1>5, <1>8, EndedWaits
<1>10. InSession(ops', session')
  BY <1>1, <1>2, <1>3, BasedSelf, EndedSession
<1>11. ops' = GivenUp(o) /\ (reader' = r \/ reader' = Cleared(r))
  BY <1>1 DEF Ended
<1>12. Offline => reader'.buffer = <<>>
  BY <1>8, <1>11, ClearedFacts
<1>13. Follows(ops, ops')
  BY <1>3, <1>11, GivenUpFacts, FollowsOver
<1>14. Looked' = Looked
  BY <1>1, <1>13 DEF Looked, Follows
<1>15. Told(ops', said', Looked')
  BY <1>1, <1>2, <1>13, <1>14, ToldFollows
<1> QED
  BY <1>1, <1>9, <1>10, <1>12, <1>15, TruthPrimed

\* Bytes cut in two.
LEMMA CutInTwo ==
  ASSUME NEW s \in Seq(Byte), NEW n \in 0 .. Len(s)
  PROVE  /\ SubSeq(s, 1, n) \in Seq(Byte) /\ SubSeq(s, n + 1, Len(s)) \in Seq(Byte)
         /\ SubSeq(s, 1, n) \o SubSeq(s, n + 1, Len(s)) = s
<1> DEFINE a == SubSeq(s, 1, n)
           c == SubSeq(s, n + 1, Len(s))
           t == a \o c
<1>1. Len(s) \in Nat /\ n \in Nat /\ n <= Len(s) /\ \A j \in 1 .. Len(s) : s[j] \in Byte
  BY LenProperties, ElementOfSeq
<1>2. a \in Seq(Byte) /\ Len(a) = n /\ \A j \in 1 .. n : a[j] = s[j]
  <2>1. 1 \in Int /\ n \in Int /\ \A j \in 1 .. n : s[j] \in Byte
    BY <1>1
  <2>2. a \in Seq(Byte) /\ Len(a) = (IF 1 <= n THEN n - 1 + 1 ELSE 0) /\ \A j \in 1 .. n - 1 + 1 : a[j] = s[1 + j - 1]
    BY <2>1, SubSeqProperties
  <2> HIDE DEF a
  <2>3. Len(a) = n
    BY <1>1, <2>2
  <2>4. ASSUME NEW j \in 1 .. n PROVE a[j] = s[j]
    <3>1. j \in 1 .. n - 1 + 1 /\ 1 + j - 1 = j
      BY <1>1
    <3> QED
      BY <2>2, <3>1
  <2> QED
    BY <2>2, <2>3, <2>4
<1>3. c \in Seq(Byte) /\ Len(c) = Len(s) - n /\ \A j \in 1 .. Len(s) - n : c[j] = s[n + j]
  <2>1. n + 1 \in Int /\ Len(s) \in Int /\ \A j \in n + 1 .. Len(s) : s[j] \in Byte
    BY <1>1
  <2>2. /\ c \in Seq(Byte) /\ Len(c) = IF n + 1 <= Len(s) THEN Len(s) - (n + 1) + 1 ELSE 0
        /\ \A j \in 1 .. Len(s) - (n + 1) + 1 : c[j] = s[n + 1 + j - 1]
    BY <2>1, SubSeqProperties
  <2> HIDE DEF c
  <2>3. Len(c) = Len(s) - n
    BY <1>1, <2>2
  <2>4. ASSUME NEW j \in 1 .. Len(s) - n PROVE c[j] = s[n + j]
    <3>1. j \in 1 .. Len(s) - (n + 1) + 1 /\ n + 1 + j - 1 = n + j
      BY <1>1
    <3> QED
      BY <2>2, <3>1
  <2> QED
    BY <2>2, <2>3, <2>4
<1> HIDE DEF a, c
<1>4. /\ t \in Seq(Byte) /\ Len(t) = Len(a) + Len(c)
      /\ \A j \in 1 .. Len(a) + Len(c) : t[j] = IF j <= Len(a) THEN a[j] ELSE c[j - Len(a)]
  BY <1>2, <1>3, ConcatProperties
<1> HIDE DEF t
<1>5. Len(t) = Len(s)
  BY <1>1, <1>2, <1>3, <1>4
<1>6. ASSUME NEW j \in 1 .. Len(s) PROVE t[j] = s[j]
  <2>1. j \in 1 .. Len(a) + Len(c)
    BY <1>1, <1>2, <1>3
  <2>2. CASE j <= n
    <3>1. j \in 1 .. n
      BY <1>1, <2>2
    <3> QED
      BY <1>2, <1>4, <2>1, <2>2, <3>1
  <2>3. CASE ~(j <= n)
    <3>1. j - n \in 1 .. Len(s) - n /\ n + (j - n) = j
      BY <1>1, <2>3
    <3>2. c[j - n] = s[j]
      BY <1>3, <3>1
    <3> QED
      BY <1>2, <1>4, <2>1, <2>3, <3>2
  <2> QED
    BY <2>2, <2>3
<1>7. t = s
  BY <1>4, <1>5, <1>6, SeqEqual
<1> QED
  BY <1>2, <1>3, <1>7 DEF t, a, c

\* The readers of the page and of the tools take the right frames.
LEMMA FlushRight ==
  ASSUME host \in Hosts, ~Offline, NEW s, NEW n \in Int, NEW r \in Readers(Nat), Orderly(ops, r.waiters, s, n),
         NEW l \in Seq(Byte), Match(ops, s, r, l), Len(Flush(r).frames) <= Len(r.waiters)
  PROVE  Right(Flush(r).frames, Flush(r).reader, ops, s, r.waiters, l)
<1> DEFINE w == r.waiters
           m == IF r.waiters = <<>> /\ host # "webserial" THEN 0 ELSE Len(r.waiters) + 1
<1>1. Len(w) \in Nat /\ m \in Nat
  BY LenProperties DEF Readers
<1>2. Flush(r) = Takes(r, m)
  BY DEF Flush, RealtimeFlush, WebFlush
<1> HIDE DEF m
<1>3. Orderly(ops, w, s, n)
  OBVIOUS
<1> HIDE DEF w
<1>4. InOrder(Takes(r, m), ops, s, w, l)
  BY <1>1, <1>3, TakesRight
<1> DEFINE x == Flush(r)
<1>5. InOrder(x, ops, s, w, l) /\ Len(x.frames) <= Len(w)
  BY <1>2, <1>4 DEF w
<1> HIDE DEF x
<1>6. Right(x.frames, x.reader, ops, s, w, l)
  BY <1>5 DEF InOrder
<1> QED
  BY <1>6 DEF x, w

\* A chunk arrives, whatever its size: the answers in it go to the operations they belong to.
LEMMA DeliverTrue ==
  ASSUME TruthInv, NEW n \in 1 .. Len(line), Deliver(n)
  PROVE  Kept' /\ Clean'
<1> DEFINE c == SubSeq(line, 1, n)
           l == SubSeq(line, n + 1, Len(line))
           b == reader.buffer \o c
           r == Fed(reader, b)
           w == reader.waiters
           f == IF Offline THEN OfflineExtract(r, reader.waiters[1]) ELSE Flush(r)
<1>1. /\ line' = l /\ host' = host /\ requests' = requests /\ said' = said
      /\ IF Offline /\ reader.waiters = <<>>
           THEN /\ trouble' = trouble \cup {"early"} /\ session' = session /\ ops' = ops /\ reader' = reader
           ELSE Hand(f.reader, f.frames)
  <2> USE DEF Fed
  <2> QED
    BY DEF Deliver
<1>2. /\ host \in Hosts /\ session \in Sessions /\ OneByOne(ops) /\ AtOnce(ops) /\ Len(ops) <= MaxOps
      /\ Len(ops) \in Nat /\ line \in Seq(Byte) /\ reader \in Readers(Nat) /\ reader.buffer \in Seq(Byte)
      /\ Waiting(ops, w) /\ (~Web \/ "stale" \notin trouble => AllReading(ops, w))
      /\ Told(ops, said, Looked) /\ EachWaits(ops, w) /\ InSession(ops, session) /\ Looked \in Int
      /\ (Offline /\ w = <<>> => reader.buffer = <<>>)
      /\ trouble = {} => /\ AllSaid(said, Looked) /\ Truthful(ops, said)
                         /\ Match(ops, said, reader, line) /\ AllReading(ops, w)
  BY TruthState DEF Served
<1>3. c \in Seq(Byte) /\ l \in Seq(Byte) /\ c \o l = line
  <2>1. n \in 0 .. Len(line)
    BY <1>2, LenProperties
  <2> QED
    BY <1>2, <2>1, CutInTwo
<1> HIDE DEF c, l
<1>4. b \in Seq(Byte) /\ b \o l = reader.buffer \o line
  <2>1. b \in Seq(Byte)
    BY <1>2, <1>3, ConcatProperties
  <2>5. Associates(reader.buffer, c, l)
    BY <1>2, <1>3, BytesAssociative
  <2>2. b \o l = reader.buffer \o (c \o l)
    BY <2>5 DEF Associates
  <2> QED
    BY <1>3, <2>1, <2>2
<1> HIDE DEF b
<1>5. r \in Readers(Nat) /\ r.waiters = w /\ r.buffer = b /\ r.address = 0
  BY <1>2, <1>4, FedFacts
<1> HIDE DEF r
<1>6. CASE Offline /\ w = <<>>
  <2>1. /\ trouble' # {} /\ session' = session /\ ops' = ops /\ reader' = reader
    BY <1>1, <1>6
  <2>2. Looked' = Looked
    BY <1>1, <2>1 DEF Looked
  <2> QED
    BY <1>1, <1>2, <2>1, <2>2, TruthPrimed
<1>7. CASE ~(Offline /\ w = <<>>)
  <2> DEFINE q == f.reader
             frames == f.frames
  <2>1. Hand(q, frames)
    BY <1>1, <1>7
  <2>2. /\ IsTuple(frames) /\ q \in Readers(Nat) /\ q.waiters = w
        /\ ~Offline /\ Len(frames) < Len(w) => ~TryTake(q).taken
        /\ Offline /\ frames # <<>> => q.buffer = <<>>
    <3>1. CASE Offline
      <4> DEFINE i == reader.waiters[1]
      <4>1. f = OfflineExtract(r, i)
        BY <3>1
      <4> HIDE DEF i
      <4> QED
        BY <1>5, <3>1, <4>1, ExtractFacts
    <3>2. CASE ~Offline
      <4>1. f = Flush(r)
        BY <3>2
      <4> QED
        BY <1>5, <3>2, <4>1, FlushFacts
    <3> QED
      BY <3>1, <3>2
  <2>3. ASSUME trouble = {}, Len(frames) <= Len(w) PROVE Right(frames, q, ops, said, w, l)
    <3>1. Orderly(ops, w, said, Looked)
      BY <1>2, <2>3 DEF Orderly
    <3>2. Match(ops, said, r, l)
      <4>1. 0 % 2 = 0
        OBVIOUS
      <4> QED
        BY <1>2, <1>4, <1>5, <2>3, <4>1 DEF Match
    <3>3. CASE Offline
      <4>1. f = OfflineExtract(r, w[1]) /\ w # <<>>
        BY <1>7, <3>3
      <4> DEFINE g == OfflineExtract(r, w[1])
      <4> HIDE DEF w
      <4>2. Right(g.frames, g.reader, ops, said, w, l)
        BY <1>2, <1>3, <1>5, <3>1, <3>2, <3>3, <4>1, ExtractRight
      <4> QED
        BY <4>1, <4>2 DEF w
    <3>4. CASE ~Offline
      <4>1. f = Flush(r) /\ Len(Flush(r).frames) <= Len(r.waiters) /\ Orderly(ops, r.waiters, said, Looked)
        BY <1>5, <2>3, <3>1, <3>4
      <4>2. Right(Flush(r).frames, Flush(r).reader, ops, said, r.waiters, l)
        BY <1>2, <1>3, <1>5, <3>2, <3>4, <4>1, FlushRight
      <4> QED
        BY <1>5, <4>1, <4>2
    <3> QED
      BY <3>3, <3>4
  <2> HIDE DEF q, frames, f
  <2>4. /\ Waiting(ops, q.waiters) /\ EachWaits(ops, q.waiters)
        /\ ~Web \/ "stale" \notin trouble => AllReading(ops, q.waiters)
        /\ ~Offline /\ Len(frames) < Len(q.waiters) => ~TryTake(q).taken
    BY <1>2, <2>2
  <2>5. Follows(ops, ops') /\ \E new \in SUBSET {"early", "stale"} : trouble' = trouble \cup new
    BY <1>2, <2>1, <2>2, <2>4, HandKeeps
  <2>6. /\ EachWaits(ops', reader'.waiters) /\ InSession(ops', session')
        /\ q.waiters # <<>> /\ (frames # <<>> => q.buffer = <<>>) /\ reader'.waiters = <<>> => reader'.buffer = <<>>
    BY <1>2, <2>1, <2>2, <2>4, HandWaits
  <2>7. Offline /\ reader'.waiters = <<>> => reader'.buffer = <<>>
    BY <1>7, <2>2, <2>6
  <2>8. Looked' = Looked
    BY <1>1, <2>5 DEF Looked, Follows
  <2>9. Told(ops', said', Looked')
    BY <1>1, <1>2, <2>5, <2>8, ToldFollows
  <2>10. ASSUME trouble' = {} PROVE AllSaid(said', Looked') /\ Truthful(ops', said') /\ Match(ops', said', reader', line')
    <3>1. trouble = {}
      BY <2>5, <2>10
    <3>2. /\ AllSaid(said, Looked) /\ Truthful(ops, said) /\ AllReading(ops, w)
          /\ Len(frames) <= Len(q.waiters) => Right(frames, q, ops, said, q.waiters, l)
      BY <1>2, <2>2, <2>3, <3>1
    <3>3. Orderly(ops, q.waiters, said, Looked)
      BY <1>2, <2>2, <3>2 DEF Orderly
    <3>4. Truthful(ops', said) /\ Match(ops', said, reader', l)
      BY <1>2, <1>3, <2>1, <2>2, <2>10, <3>2, <3>3, HandTrue
    <3> QED
      BY <1>1, <2>8, <3>2, <3>4
  <2> QED
    BY <1>1, <2>6, <2>7, <2>9, <2>10, TruthPrimed
<1> QED
  BY <1>6, <1>7

\* What a new operation changes in what was said and what is owed: nothing.
Fresh(o, s, kind) ==
  /\ Based(o) /\ Told(o, s, Looked) /\ EachWaits(o, reader.waiters) /\ InSession(o, session)
  /\ trouble = {} => /\ AllSaid(s, Looked) /\ Truthful(o, s) /\ Match(o, s, reader, line)
                     /\ kind = "enter" => Match(o, s, Cleared(reader), line)

\* A new operation: nothing has been said of it, and nothing else is under way when ENTER empties
\* the reader.
LEMMA BegunTrue ==
  ASSUME TruthInv, NEW kind \in Kinds, MayBegin(kind), Len(ops) < MaxOps
  PROVE  Fresh(Begun(kind), Append(said, Nothing), kind)
<1> DEFINE i == Len(ops) + 1
           o == Begun(kind)
           s == Append(said, Nothing)
<1>1. /\ host \in Hosts /\ OpsTyped(ops) /\ IsTuple(ops) /\ Len(ops) \in Nat /\ Len(ops) <= MaxOps
      /\ DOMAIN ops = 1 .. Len(ops) /\ reader \in Readers(Nat) /\ line \in Seq(Byte)
      /\ Looked \in 0 .. Len(ops) /\ Told(ops, said, Looked) /\ EachWaits(ops, reader.waiters)
      /\ InSession(ops, session) /\ reader.buffer \in Seq(Byte)
      /\ trouble = {} => AllSaid(said, Looked) /\ Truthful(ops, said) /\ Match(ops, said, reader, line)
  BY TruthState, TupleSeq
<1>2. /\ OneByOne(o) /\ Len(o) = i /\ i \in Nat /\ o[i].kind = kind /\ OpsTyped(o)
      /\ \A j \in 1 .. Len(ops) : o[j] = ops[j]
      /\ o[i].at = "writing"
  BY BegunFacts DEF TruthInv, About, OneByOne
<1>3. IsTuple(said) /\ Len(said) = Len(ops)
  BY <1>1 DEF Told
<1>4. /\ IsTuple(s) /\ Len(s) = i /\ s[i] = Nothing /\ \A j \in 1 .. Len(ops) : s[j] = said[j]
  BY <1>3, AppendTuple
<1> HIDE DEF o, s
<1>5. \A j \in 1 .. Len(o) : j # i => j \in 1 .. Len(ops)
  BY <1>1, <1>2
<1> HIDE DEF i
<1>6. Based(o)
  <2> SUFFICES ASSUME NEW j \in 1 .. Len(o), ~Going(o[j]) PROVE j \in DOMAIN ops /\ o[j] = ops[j]
    BY <1>2 DEF Based
  <2>1. j # i
    BY <1>2 DEF Going
  <2> QED
    BY <1>1, <1>2, <1>5, <2>1
<1>7. Told(o, s, Looked)
  <2> SUFFICES ASSUME NEW j \in 1 .. Len(o), s[j] # Nothing PROVE j <= Looked /\ s[j] \in Answers(o[j].kind, j)
    BY <1>2, <1>4 DEF Told
  <2>1. j # i
    BY <1>4
  <2>2. j \in 1 .. Len(ops) /\ o[j] = ops[j] /\ s[j] = said[j]
    BY <1>2, <1>4, <1>5, <2>1
  <2> QED
    BY <1>1, <2>2 DEF Told
<1>8. EachWaits(o, reader.waiters)
  <2> SUFFICES ASSUME NEW j \in 1 .. Len(o), o[j].at = "reading"
               PROVE  \E k \in 1 .. Len(reader.waiters) : reader.waiters[k] = j
    BY DEF EachWaits
  <2>1. j # i
    BY <1>2
  <2> QED
    BY <1>1, <1>2, <1>5, <2>1 DEF EachWaits
<1>9. InSession(o, session)
  <2> SUFFICES ASSUME Web, NEW j \in 1 .. Len(o), Going(o[j])
               PROVE  /\ o[j].kind = "exchange" => session = "active"
                      /\ o[j].kind = "enter" => session \in {"closed", "lost"}
                      /\ o[j].kind = "query" => session = "entered"
    BY DEF InSession
  <2>1. CASE j = i
    <3>1. WebMay(kind)
      BY DEF MayBegin
    <3> QED
      BY <1>2, <2>1, <3>1 DEF WebMay
  <2>2. CASE j # i
    BY <1>1, <1>2, <1>5, <2>2 DEF InSession
  <2> QED
    BY <2>1, <2>2
<1>10. ASSUME trouble = {} PROVE AllSaid(s, Looked) /\ Truthful(o, s)
  <2>1. AllSaid(said, Looked) /\ Truthful(ops, said)
    BY <1>1, <1>10
  <2>2. \A j \in 1 .. Looked : j \in 1 .. Len(ops)
    BY <1>1
  <2>3. AllSaid(s, Looked)
    BY <1>4, <2>1, <2>2 DEF AllSaid
  <2>4. Truthful(o, s)
    <3> SUFFICES ASSUME NEW j \in 1 .. Len(o)
                 PROVE  /\ o[j].at = "done" => s[j] # Nothing /\ o[j].result = s[j] /\ Accepted(o[j].kind, s[j])
                        /\ o[j].at = "failed" => s[j] # Nothing /\ ~Accepted(o[j].kind, s[j])
      BY DEF Truthful
    <3>1. CASE j = i
      BY <1>2, <3>1
    <3>2. CASE j # i
      BY <1>2, <1>4, <1>5, <2>1, <3>2 DEF Truthful
    <3> QED
      BY <3>1, <3>2
  <2> QED
    BY <2>3, <2>4
<1> DEFINE F == Owing(ops, said)
           G == Owing(o, s)
<1>11. /\ Pieces(F) /\ Len(F) = Len(ops) /\ \A j \in 1 .. Len(ops) : F[j] = Piece(ops, said, j)
       /\ \A j \in 1 .. Len(ops) : Piece(ops, said, j) # <<>> => Going(ops[j])
  BY <1>1, OwingFacts
<1>12. Pieces(G) /\ Len(G) = Len(o) /\ \A j \in 1 .. Len(o) : G[j] = Piece(o, s, j)
  <2>1. Len(o) <= MaxOps
    BY <1>1, <1>2, LinkAssumption DEF i
  <2> QED
    BY <1>1, <1>2, <1>7, <2>1, OwingFacts
<1> HIDE DEF F, G
<1>13. FlattenSeq(G) = FlattenSeq(F)
  <2>1. Len(G) = Len(F) + 1 /\ Len(F) + 1 = i /\ Len(F) \in Nat
    BY <1>1, <1>2, <1>11, <1>12 DEF i
  <2>2. G[i] = <<>>
    <3>1. i \in 1 .. Len(o)
      BY <1>2, <1>12, <2>1
    <3> QED
      BY <1>4, <1>12, <3>1 DEF Piece
  <2>3. ASSUME NEW j \in 1 .. Len(F) PROVE G[j] = F[j]
    <3>1. j \in 1 .. Len(o) /\ j \in 1 .. Len(ops)
      BY <1>11, <1>12, <2>1
    <3> QED
      BY <1>2, <1>4, <1>11, <1>12, <3>1 DEF Piece
  <2> QED
    BY <1>11, <1>12, <2>1, <2>2, <2>3, FlattenMore
<1>14. trouble = {} => Match(o, s, reader, line)
  BY <1>1, <1>13 DEF Match, F, G
<1>15. ASSUME trouble = {}, kind = "enter" PROVE Match(o, s, Cleared(reader), line)
  <2>1. ASSUME NEW j \in 1 .. Len(ops), Going(ops[j]) PROVE FALSE
    <3>1. j \in Pending
      BY <1>1, <2>1 DEF Pending, Going
    <3>2. Web /\ Commands = {} /\ session \in {"closed", "lost"}
      BY <1>15, <3>1 DEF MayBegin, WebMay
    <3>3. ops[j].kind = "exchange"
      BY <3>1, <3>2 DEF Commands
    <3> QED
      BY <1>1, <2>1, <3>2, <3>3 DEF InSession
  <2>2. \A j \in 1 .. Len(F) : F[j] = <<>>
    BY <1>11, <2>1
  <2>3. FlattenSeq(F) = <<>>
    BY <1>11, <2>2, FlattenTyped
  <2>4. reader.buffer \o line = <<>>
    BY <1>1, <1>15, <2>3 DEF Match, F
  <2>5. reader.buffer = <<>>
    BY <1>1, <2>4, ConcatSimplifications
  <2>6. Cleared(reader).buffer = reader.buffer /\ Cleared(reader).address = 0 /\ 0 % 2 = 0
    BY <1>1, <2>5, ClearedFacts
  <2> QED
    BY <1>14, <1>15, <2>6 DEF Match
<1> QED
  BY <1>6, <1>7, <1>8, <1>9, <1>10, <1>14, <1>15 DEF Fresh, o, s

\* A command or an exchange begins.
LEMMA BeginTrue ==
  ASSUME TruthInv, NEW kind \in Kinds, Begin(kind)
  PROVE  Kept' /\ Clean'
<1> DEFINE i == Len(ops) + 1
           o == Begun(kind)
           s == Append(said, Nothing)
<1>1. /\ MayBegin(kind) /\ Len(ops) < MaxOps /\ requests' = Append(requests, Asks(kind, i))
      /\ said' = s /\ host' = host /\ line' = line /\ trouble' = trouble
      /\ IF Web /\ kind = "exchange" THEN ReadFrame(i, o, reader)
         ELSE /\ ops' = o /\ session' = session
              /\ reader' = IF kind = "enter" THEN Cleared(reader) ELSE reader
  <2> USE DEF Begun, Asks
  <2> QED
    BY DEF Begin
<1>2. /\ host \in Hosts /\ session \in Sessions /\ IsTuple(ops) /\ Len(ops) \in Nat
      /\ reader \in Readers(Nat) /\ Waiting(ops, reader.waiters) /\ Served(ops, reader) /\ line \in Seq(Byte)
      /\ (Offline /\ reader.waiters = <<>> => reader.buffer = <<>>)
  BY TruthState DEF Served
<1> HIDE DEF o, s
<1>3. Fresh(o, s, kind)
  BY <1>1, BegunTrue DEF o, s
<1>4. /\ Based(o) /\ Told(o, s, Looked) /\ EachWaits(o, reader.waiters) /\ InSession(o, session)
      /\ trouble = {} => /\ AllSaid(s, Looked) /\ Truthful(o, s) /\ Match(o, s, reader, line)
                         /\ kind = "enter" => Match(o, s, Cleared(reader), line)
  BY <1>3 DEF Fresh
<1>5. About(i, o) /\ Len(o) = i /\ i \in Nat /\ \A j \in 1 .. Len(ops) : o[j] = ops[j]
  BY <1>1, BegunFacts DEF o, TruthInv
<1> DEFINE w == reader.waiters
<1>6. /\ Waiting(o, w) /\ (AllReading(ops, w) => AllReading(o, w))
      /\ \A k \in 1 .. Len(w) : w[k] < i
  BY <1>2, <1>5, BegunWaiting
<1>7. Served(o, reader)
  BY <1>2, <1>6 DEF Served
<1>8. Len(o) <= MaxOps
  BY <1>1, <1>2, <1>5, LinkAssumption
<1>9. Len(ops') = i => Looked' = Looked
  <2>1. Len(requests') = Len(requests) + 1 /\ Len(requests) \in Nat
    <3>1. IsTuple(requests)
      BY DEF TruthInv, LinkInv, Asked
    <3> QED
      BY <1>1, <3>1, AppendTuple DEF IsTuple
  <2> QED
    BY <1>2, <2>1 DEF Looked
<1> HIDE DEF i
<1>10. CASE Web /\ kind = "exchange"
  <2>1. ReadFrame(i, o, reader)
    BY <1>1, <1>10
  <2>2. Follows(o, ops')
    BY <1>2, <1>5, <1>6, <1>7, <2>1, ReadFrameKeeps
  <2>3. EachWaits(ops', reader'.waiters) /\ InSession(ops', session') /\ (Offline => reader'.waiters # <<>>)
    BY <1>2, <1>4, <1>5, <1>7, <2>1, ReadFrameWaits
  <2>4. Looked' = Looked
    BY <1>5, <1>9, <2>2 DEF Follows
  <2>5. Told(ops', said', Looked')
    BY <1>1, <1>4, <2>2, <2>4, ToldFollows
  <2>6. ASSUME trouble' = {} PROVE AllSaid(said', Looked') /\ Truthful(ops', said') /\ Match(ops', said', reader', line')
    <3>1. AllSaid(s, Looked) /\ Truthful(o, s) /\ Match(o, s, reader, line)
      BY <1>1, <1>4, <2>6
    <3>2. Truthful(ops', s) /\ Match(ops', s, reader', line)
      BY <1>2, <1>4, <1>5, <1>6, <1>7, <1>8, <2>1, <3>1, ReadFrameTrue
    <3> QED
      BY <1>1, <2>4, <3>1, <3>2
  <2> QED
    BY <1>1, <2>3, <2>5, <2>6, TruthPrimed
<1>11. CASE ~(Web /\ kind = "exchange")
  <2>1. /\ ops' = o /\ session' = session
        /\ reader' = IF kind = "enter" THEN Cleared(reader) ELSE reader
    BY <1>1, <1>11
  <2>2. reader'.waiters = w /\ (reader'.buffer = reader.buffer \/ reader'.buffer = <<>>)
    BY <1>2, <2>1, ClearedFacts
  <2>3. Looked' = Looked
    BY <1>5, <1>9, <2>1
  <2>4. /\ Told(ops', said', Looked') /\ EachWaits(ops', reader'.waiters) /\ InSession(ops', session')
    BY <1>1, <1>4, <2>1, <2>2, <2>3
  <2>5. ASSUME trouble' = {} PROVE AllSaid(said', Looked') /\ Truthful(ops', said') /\ Match(ops', said', reader', line')
    <3>1. AllSaid(s, Looked) /\ Truthful(o, s) /\ Match(o, s, reader', line)
      BY <1>1, <1>4, <2>1, <2>5
    <3> QED
      BY <1>1, <2>1, <2>3, <3>1
  <2> QED
    BY <1>1, <1>2, <2>2, <2>4, <2>5, TruthPrimed
<1> QED
  BY <1>10, <1>11

\* Nothing has been said, and nothing is owed, in the beginning.
LEMMA TruthInit ==
  ASSUME Init
  PROVE  Kept /\ Clean
<1>1. /\ host \in Hosts /\ ops = <<>> /\ requests = <<>> /\ said = <<>> /\ line = <<>>
      /\ reader.buffer = <<>> /\ reader.waiters = <<>> /\ reader.address = 0
  BY DEF Init
<1>2. Len(ops) = 0 /\ Len(requests) = 0 /\ Len(said) = 0 /\ Looked = 0
  BY <1>1 DEF Looked
<1>3. IsTuple(said)
  <2>1. <<>> \in Seq({})
    OBVIOUS
  <2> QED
    BY <1>1, <2>1, SeqTuple
<1>4. Kept
  <2>1. Told(ops, said, Looked)
    BY <1>2, <1>3 DEF Told
  <2>2. EachWaits(ops, reader.waiters) /\ InSession(ops, session)
    BY <1>2 DEF EachWaits, InSession
  <2> QED
    BY <1>1, <2>1, <2>2 DEF Kept
<1> DEFINE F == Owing(ops, said)
<1>5. FlattenSeq(F) = <<>>
  <2>1. OpsTyped(ops) /\ Len(ops) <= MaxOps
    BY <1>1, <1>2, LinkInvInit, LinkAssumption DEF LinkInv, Typed, OneByOne
  <2>2. Pieces(F) /\ Len(F) = 0
    BY <1>1, <1>2, <1>4, <2>1, OwingFacts DEF Kept
  <2> HIDE DEF F
  <2> QED
    BY <2>2, FlattenTyped
<1>6. Clean
  <2>1. AllSaid(said, Looked) /\ Truthful(ops, said)
    BY <1>2 DEF AllSaid, Truthful
  <2>2. Match(ops, said, reader, line)
    <3>1. reader.buffer \o line = <<>> /\ 0 % 2 = 0
      BY <1>1
    <3> QED
      BY <1>1, <1>5, <3>1 DEF Match
  <2> QED
    BY <2>1, <2>2 DEF Clean
<1> QED
  BY <1>4, <1>6

\* Every step keeps them.
LEMMA TruthNext ==
  ASSUME TruthInv, [Next]_vars
  PROVE  TruthInv'
<1>1. LinkInv'
  BY LinkInvNext DEF TruthInv
<1>2. CASE \E kind \in Kinds : Begin(kind)
  BY <1>1, <1>2, BeginTrue DEF TruthInv
<1>3. CASE \E i \in DOMAIN ops : Written(i)
  BY <1>1, <1>3, WrittenTrue DEF TruthInv
<1>4. CASE \E i \in DOMAIN ops : Timeout(i)
  BY <1>1, <1>4, TimeoutTrue DEF TruthInv
<1>5. CASE \E i \in DOMAIN ops : StaleTimeout(i)
  BY <1>1, <1>5, StaleTimeoutTrue DEF TruthInv
<1>6. CASE \E n \in 1 .. Len(line) : Deliver(n)
  BY <1>1, <1>6, DeliverTrue DEF TruthInv
<1>7. CASE Answer
  BY <1>1, <1>7, AnswerTrue DEF TruthInv
<1>8. CASE Refuse
  BY <1>1, <1>8, RefuseTrue DEF TruthInv
<1>9. CASE Silent
  BY <1>1, <1>9, SilentTrue DEF TruthInv
<1>10. CASE Noise
  BY <1>1, <1>10, NoiseTrue DEF TruthInv
<1>11. CASE UNCHANGED vars
  <2>1. UNCHANGED <<host, session, ops, requests, said, line, reader, left, trouble>>
    BY <1>11 DEF vars
  <2>2. Looked' = Looked
    BY <2>1 DEF Looked
  <2>3. Kept' /\ Clean'
    BY <2>1, <2>2, TruthState, TruthPrimed
  <2> QED
    BY <1>1, <2>3 DEF TruthInv
<1> QED
  BY <1>2, <1>3, <1>4, <1>5, <1>6, <1>7, <1>8, <1>9, <1>10, <1>11 DEF Next, Kinds

\* What the answer to an exchange carries when it was accepted, and what was read of it.
LEMMA TruthResults ==
  ASSUME TruthInv
  PROVE  /\ InStep /\ FailsForCause
         /\ trouble = {} => /\ trouble \cap {"late", "silent", "stale", "early"} = {}
                            /\ ResultsTrue
<1>1. /\ host \in Hosts /\ OpsTyped(ops) /\ Len(ops) <= MaxOps /\ Told(ops, said, Looked)
      /\ DOMAIN ops = 1 .. Len(ops)
      /\ trouble = {} => Truthful(ops, said) /\ Match(ops, said, reader, line)
  BY TruthState, TupleSeq
<1>2. InStep
  <2>1. [i \in DOMAIN ops |-> Owed(i)] = Owing(ops, said)
    BY DEF Owing, Piece, Owed, OnLine, InnerOf
  <2> QED
    BY <1>1, <2>1 DEF InStep, Match
<1>3. FailsForCause
  BY <1>1 DEF FailsForCause, Blamed, Truthful
<1>4. ASSUME trouble = {} PROVE ResultsTrue
  <2> SUFFICES ASSUME NEW i \in DOMAIN ops, ops[i].at = "done"
               PROVE  /\ ops[i].result = said[i]
                      /\ ops[i].kind = "exchange" =>
                           /\ ops[i].result.sequence = Number(i)
                           /\ ops[i].result.down = PeriodOf(i).down /\ ops[i].result.up = PeriodOf(i).up
    BY DEF ResultsTrue
  <2>1. i \in 1 .. Len(ops) /\ said[i] # Nothing /\ ops[i].result = said[i] /\ Accepted(ops[i].kind, said[i])
    BY <1>1, <1>4 DEF Truthful
  <2>2. ops[i].kind = "exchange" =>
          said[i].sequence = Number(i) /\ said[i].down = PeriodOf(i).down /\ said[i].up = PeriodOf(i).up
    BY <1>1, <2>1, SaidReads
  <2> QED
    BY <2>1, <2>2
<1> QED
  BY <1>2, <1>3, <1>4

\* What was said, what is owed and what has ended fit together in every state.
LEMMA LinkTruth == Spec => []TruthInv
<1>1. Init => TruthInv
  BY LinkInvInit, TruthInit DEF TruthInv
<1>2. TruthInv /\ [Next]_vars => TruthInv'
  BY TruthNext
<1> QED
  BY <1>1, <1>2, PTL DEF Spec

\* As long as nothing goes wrong, the buffer and the line hold exactly the answers nobody has read
\* yet, whatever the program, the chunks and the order of operations and answers.
THEOREM LinkInStep == Spec => []InStep
<1>1. TruthInv => InStep
  BY TruthResults
<1> QED
  BY <1>1, LinkTruth, PTL

\* An operation fails only for what the device said of it, as long as nothing goes wrong.
THEOREM LinkFailsForCause == Spec => []FailsForCause
<1>1. TruthInv => FailsForCause
  BY TruthResults
<1> QED
  BY <1>1, LinkTruth, PTL

\* An operation that succeeded holds the answer the device gave to it, and an exchange the samples
\* it sent, as long as nothing goes wrong.
THEOREM LinkResults == Spec => [](trouble = {} => ResultsTrue)
<1>1. TruthInv => (trouble = {} => ResultsTrue)
  BY TruthResults
<1> QED
  BY <1>1, LinkTruth, PTL

=============================================================================
