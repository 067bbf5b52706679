------------------------- MODULE BridgeServerProofs -------------------------
(***************************************************************************)
(* Proofs about the bridge server, for pipelines, queues and sessions of   *)
(* every size and any number of connections.                               *)
(***************************************************************************)
EXTENDS BridgeServer, SequenceTheorems, FiniteSetTheorems, TLAPS

-----------------------------------------------------------------------------
(***************************************************************************)
(* Counting the commands of some kinds in a sequence.                      *)
(***************************************************************************)
Places(s, kinds) == {i \in 1 .. Len(s) : s[i].what \in kinds}
One(c, kinds) == IF c.what \in kinds THEN 1 ELSE 0

\* One command counts or not.
LEMMA OneNat ==
  ASSUME NEW c, NEW kinds PROVE One(c, kinds) \in Nat
BY DEF One

\* The load when a part of it moves.
LEMMA LoadSum ==
  ASSUME NEW w \in Nat, NEW a \in Nat, NEW b \in Nat, NEW c \in Nat, NEW d \in Nat, c + d = a + b
  PROVE  w + c + d = w + a + b
OBVIOUS

\* As many numbers as the last one says.
LEMMA UpTo == ASSUME NEW n \in Nat PROVE IsFiniteSet(1 .. n) /\ Cardinality(1 .. n) = n
<1>1. 1 \in Int /\ n \in Int
  OBVIOUS
<1>2. IsFiniteSet(1 .. n) /\ Cardinality(1 .. n) = IF 1 > n THEN 0 ELSE n - 1 + 1
  BY <1>1, FS_Interval
<1> QED
  BY <1>2

\* The places can be counted.
LEMMA PlacesFinite ==
  ASSUME NEW s \in Seq(Command), NEW kinds
  PROVE  /\ Len(s) \in Nat
         /\ IsFiniteSet(Places(s, kinds))
         /\ Many(s, kinds) = Cardinality(Places(s, kinds))
         /\ Many(s, kinds) \in Nat
<1>1. Len(s) \in Nat
  BY LenProperties
<1>2. IsFiniteSet(1 .. Len(s))
  BY <1>1, UpTo
<1>3. Places(s, kinds) \in SUBSET (1 .. Len(s))
  BY DEF Places
<1>4. IsFiniteSet(Places(s, kinds))
  BY <1>2, <1>3, FS_Subset
<1>5. Many(s, kinds) = Cardinality(Places(s, kinds))
  BY DEF Many, Places
<1> QED
  BY <1>1, <1>4, <1>5, FS_CardinalityType

\* When all are of the kinds it is the length, and when none is it is zero.
LEMMA ManyAll ==
  ASSUME NEW s \in Seq(Command), NEW kinds
  PROVE  /\ (\A i \in 1 .. Len(s) : s[i].what \in kinds) => Many(s, kinds) = Len(s)
         /\ (\A i \in 1 .. Len(s) : s[i].what \notin kinds) => Many(s, kinds) = 0
<1>1. Len(s) \in Nat /\ Many(s, kinds) = Cardinality(Places(s, kinds))
  BY PlacesFinite
<1>2. ASSUME \A i \in 1 .. Len(s) : s[i].what \in kinds PROVE Many(s, kinds) = Len(s)
  <2>1. Places(s, kinds) = 1 .. Len(s)
    BY <1>2 DEF Places
  <2>2. Cardinality(1 .. Len(s)) = Len(s)
    BY <1>1, UpTo
  <2> QED
    BY <1>1, <2>1, <2>2
<1>3. ASSUME \A i \in 1 .. Len(s) : s[i].what \notin kinds PROVE Many(s, kinds) = 0
  <2>1. Places(s, kinds) = {}
    BY <1>3 DEF Places
  <2> QED
    BY <1>1, <2>1, FS_EmptySet
<1> QED
  BY <1>2, <1>3

\* One command, and none.
LEMMA ManyOne ==
  ASSUME NEW c \in Command, NEW kinds
  PROVE  /\ <<c>> \in Seq(Command) /\ <<>> \in Seq(Command)
         /\ Many(<<c>>, kinds) = One(c, kinds)
         /\ Many(<<>>, kinds) = 0
<1>1. <<c>> \in Seq(Command) /\ <<>> \in Seq(Command) /\ Len(<<c>>) = 1 /\ Len(<<>>) = 0
  OBVIOUS
<1>2. \A i \in 1 .. Len(<<c>>) : <<c>>[i] = c
  OBVIOUS
<1>3. Many(<<c>>, kinds) = One(c, kinds)
  BY <1>1, <1>2, ManyAll DEF One
<1>4. Many(<<>>, kinds) = 0
  <2>1. \A i \in 1 .. Len(<<>>) : <<>>[i].what \notin kinds
    BY <1>1
  <2> HIDE DEF Command
  <2> QED
    BY <1>1, <2>1, ManyAll
<1> QED
  BY <1>1, <1>3, <1>4

\* The second part of a concatenation has its places behind those of the first.
LEMMA ManyConcat ==
  ASSUME NEW s \in Seq(Command), NEW t \in Seq(Command), NEW kinds
  PROVE  /\ s \o t \in Seq(Command)
         /\ Many(s \o t, kinds) = Many(s, kinds) + Many(t, kinds)
<1> DEFINE l == Len(s)
           n == Len(t)
           P == Places(s, kinds)
           Q == Places(t, kinds)
           R == {i \in l + 1 .. l + n : t[i - l].what \in kinds}
           move == [i \in Q |-> l + i]
<1>1. l \in Nat /\ n \in Nat /\ IsFiniteSet(P) /\ IsFiniteSet(Q)
  BY PlacesFinite
<1>2. /\ s \o t \in Seq(Command) /\ Len(s \o t) = l + n
      /\ \A i \in 1 .. l + n : (s \o t)[i] = IF i <= l THEN s[i] ELSE t[i - l]
  BY ConcatProperties
<1>3. Places(s \o t, kinds) = P \cup R
  BY <1>1, <1>2 DEF Places
<1>4. P \cap R = {}
  BY <1>1 DEF Places
<1>5. move \in Bijection(Q, R)
  <2>1. \A i \in Q : i \in 1 .. n /\ t[i].what \in kinds /\ l + i \in R
    BY <1>1 DEF Places
  <2>2. \A k \in R : k - l \in Q /\ k \in Int
    BY <1>1 DEF Places
  <2> HIDE DEF Q, R, l, n
  <2>3. move \in [Q -> R]
    BY <2>1
  <2>4. \A a, b \in Q : move[a] = move[b] => a = b
    BY <1>1, <2>1
  <2>5. ASSUME NEW k \in R PROVE \E i \in Q : move[i] = k
    <3>1. k - l \in Q /\ move[k - l] = k
      BY <1>1, <2>2
    <3> QED
      BY <3>1
  <2> HIDE DEF move
  <2> QED
    BY <2>3, <2>4, <2>5 DEF Bijection, Injection, Surjection, IsInjective
<1>6. IsFiniteSet(R) /\ Cardinality(R) = Cardinality(Q)
  <2>1. ExistsBijection(Q, R)
    BY <1>5 DEF ExistsBijection
  <2> QED
    BY <1>1, <2>1, FS_Bijection
<1> HIDE DEF P, Q, R
<1>7. Cardinality(P \cup R) = Cardinality(P) + Cardinality(R)
  <2>1. Cardinality(P \cup R) = Cardinality(P) + Cardinality(R) - Cardinality(P \cap R)
    BY <1>1, <1>6, FS_Union
  <2>2. Cardinality(P \cap R) = 0 /\ Cardinality(P) \in Nat /\ Cardinality(R) \in Nat
    BY <1>1, <1>4, <1>6, FS_EmptySet, FS_CardinalityType
  <2> QED
    BY <2>1, <2>2
<1> QED
  BY <1>2, <1>3, <1>6, <1>7, PlacesFinite DEF P, Q

\* A command at the end.
LEMMA ManyAppend ==
  ASSUME NEW s \in Seq(Command), NEW c \in Command, NEW kinds
  PROVE  /\ Append(s, c) \in Seq(Command) /\ Len(Append(s, c)) = Len(s) + 1
         /\ Many(Append(s, c), kinds) = Many(s, kinds) + One(c, kinds)
<1>1. Append(s, c) \in Seq(Command) /\ Len(Append(s, c)) = Len(s) + 1
  BY AppendProperties
<1>2. Append(s, c) = s \o <<c>>
  BY AppendIsConcat
<1>3. <<c>> \in Seq(Command) /\ Many(<<c>>, kinds) = One(c, kinds)
  BY ManyOne
<1>4. Many(s \o <<c>>, kinds) = Many(s, kinds) + Many(<<c>>, kinds)
  BY <1>3, ManyConcat
<1> QED
  BY <1>1, <1>2, <1>3, <1>4

\* The first command and the others.
LEMMA ManyTail ==
  ASSUME NEW s \in Seq(Command), s # <<>>, NEW kinds
  PROVE  /\ Head(s) \in Command /\ Tail(s) \in Seq(Command)
         /\ Many(s, kinds) = One(Head(s), kinds) + Many(Tail(s), kinds)
<1>1. /\ Head(s) \in Command /\ Tail(s) \in Seq(Command) /\ Len(Tail(s)) = Len(s) - 1
      /\ \A i \in 1 .. Len(Tail(s)) : Tail(s)[i] = s[i + 1]
  BY HeadTailProperties
<1>2. <<Head(s)>> \in Seq(Command) /\ Len(s) \in Nat \ {0}
  BY <1>1, EmptySeq, ManyOne
<1>3. s = <<Head(s)>> \o Tail(s)
  <2>1. /\ <<Head(s)>> \o Tail(s) \in Seq(Command) /\ Len(<<Head(s)>> \o Tail(s)) = Len(s)
        /\ \A i \in 1 .. Len(s) : (<<Head(s)>> \o Tail(s))[i] = s[i]
    BY <1>1, <1>2
  <2> QED
    BY <2>1, SeqEqual
<1>4. Many(<<Head(s)>> \o Tail(s), kinds) = Many(<<Head(s)>>, kinds) + Many(Tail(s), kinds)
  <2> DEFINE first == <<Head(s)>>
             others == Tail(s)
  <2>1. first \in Seq(Command) /\ others \in Seq(Command)
    BY <1>1, <1>2
  <2> HIDE DEF first, others
  <2>2. Many(first \o others, kinds) = Many(first, kinds) + Many(others, kinds)
    BY <2>1, ManyConcat
  <2> QED
    BY <2>2 DEF first, others
<1> QED
  BY <1>1, <1>3, <1>4, ManyOne

\* A sequence cut in two.
LEMMA ManyCut ==
  ASSUME NEW s \in Seq(Command), NEW n \in 0 .. Len(s), NEW kinds
  PROVE  /\ SubSeq(s, 1, n) \in Seq(Command) /\ Len(SubSeq(s, 1, n)) = n
         /\ \A i \in 1 .. n : SubSeq(s, 1, n)[i] = s[i]
         /\ SubSeq(s, n + 1, Len(s)) \in Seq(Command)
         /\ Len(SubSeq(s, n + 1, Len(s))) = Len(s) - n
         /\ \A i \in 1 .. Len(s) - n : SubSeq(s, n + 1, Len(s))[i] = s[n + i]
         /\ Many(s, kinds) = Many(SubSeq(s, 1, n), kinds) + Many(SubSeq(s, n + 1, Len(s)), kinds)
<1> DEFINE a == SubSeq(s, 1, n)
           b == SubSeq(s, n + 1, Len(s))
<1>1. Len(s) \in Nat /\ n \in Nat /\ n <= Len(s) /\ \A i \in 1 .. Len(s) : s[i] \in Command
  BY LenProperties, ElementOfSeq
<1>2. a \in Seq(Command) /\ Len(a) = n /\ \A i \in 1 .. n : a[i] = s[i]
  <2>1. \A i \in 1 .. n : s[i] \in Command
    BY <1>1
  <2>2. /\ a \in Seq(Command) /\ Len(a) = IF 1 <= n THEN n - 1 + 1 ELSE 0
        /\ \A i \in 1 .. n - 1 + 1 : a[i] = s[1 + i - 1]
    BY <1>1, <2>1, SubSeqProperties
  <2> HIDE DEF a
  <2>3. n - 1 + 1 = n /\ \A i \in 1 .. n : 1 + i - 1 = i
    BY <1>1
  <2> QED
    BY <1>1, <2>2, <2>3
<1>3. b \in Seq(Command) /\ Len(b) = Len(s) - n /\ \A i \in 1 .. Len(s) - n : b[i] = s[n + i]
  <2>1. \A i \in n + 1 .. Len(s) : s[i] \in Command
    BY <1>1
  <2>2. /\ b \in Seq(Command) /\ Len(b) = IF n + 1 <= Len(s) THEN Len(s) - (n + 1) + 1 ELSE 0
        /\ \A i \in 1 .. Len(s) - (n + 1) + 1 : b[i] = s[(n + 1) + i - 1]
    BY <1>1, <2>1, SubSeqProperties
  <2> HIDE DEF b
  <2>3. /\ Len(s) - (n + 1) + 1 = Len(s) - n /\ \A i \in 1 .. Len(s) - n : (n + 1) + i - 1 = n + i
        /\ (IF n + 1 <= Len(s) THEN Len(s) - n ELSE 0) = Len(s) - n
    BY <1>1
  <2> QED
    BY <2>2, <2>3
<1> HIDE DEF a, b
<1>4. a \o b = s
  <2>1. /\ a \o b \in Seq(Command) /\ Len(a \o b) = Len(a) + Len(b)
        /\ \A i \in 1 .. Len(a) + Len(b) : (a \o b)[i] = IF i <= Len(a) THEN a[i] ELSE b[i - Len(a)]
    BY <1>2, <1>3, ConcatProperties
  <2>2. Len(a) + Len(b) = Len(s)
    BY <1>1, <1>2, <1>3
  <2>3. ASSUME NEW i \in 1 .. Len(s) PROVE (a \o b)[i] = s[i]
    <3>1. CASE i <= n
      BY <1>1, <1>2, <2>1, <2>2, <3>1
    <3>2. CASE ~(i <= n)
      <4>1. i - n \in 1 .. Len(s) - n /\ n + (i - n) = i
        BY <1>1, <3>2
      <4> QED
        BY <1>2, <1>3, <2>1, <2>2, <3>2, <4>1
    <3> QED
      BY <3>1, <3>2
  <2> QED
    BY <2>1, <2>2, <2>3, SeqEqual
<1>5. Many(a \o b, kinds) = Many(a, kinds) + Many(b, kinds)
  BY <1>2, <1>3, ManyConcat
<1> QED
  BY <1>2, <1>3, <1>4, <1>5 DEF a, b

\* The commands of a queue of jobs.
LEMMA OfFacts ==
  ASSUME NEW js \in Seq(Job)
  PROVE  /\ Of(js) \in Seq(Command) /\ Len(Of(js)) = Len(js) /\ Len(js) \in Nat
         /\ \A i \in 1 .. Len(js) : js[i] \in Job /\ Of(js)[i] = js[i].of
<1>1. Len(js) \in Nat /\ \A i \in 1 .. Len(js) : js[i] \in Job /\ js[i].of \in Command
  <2>1. Len(js) \in Nat /\ \A i \in 1 .. Len(js) : js[i] \in Job
    BY LenProperties, ElementOfSeq
  <2>2. \A job \in Job : job.of \in Command
    BY DEF Job
  <2> QED
    BY <2>1, <2>2
<1>2. Of(js) \in [1 .. Len(js) -> Command] /\ \A i \in 1 .. Len(js) : Of(js)[i] = js[i].of
  BY <1>1 DEF Of
<1>3. Of(js) \in Seq(Command)
  BY <1>1, <1>2, SeqDef
<1>4. DOMAIN Of(js) = 1 .. Len(Of(js)) /\ Len(Of(js)) \in Nat
  BY <1>3, LenProperties
<1>5. Len(Of(js)) = Len(js)
  <2>1. 1 .. Len(Of(js)) = 1 .. Len(js)
    BY <1>2, <1>4
  <2> QED
    BY <1>1, <1>4, <2>1
<1> QED
  BY <1>1, <1>2, <1>3, <1>5

\* One job.
LEMMA OfOne ==
  ASSUME NEW job \in Job, NEW kinds
  PROVE  /\ <<job>> \in Seq(Job)
         /\ Many(Of(<<job>>), kinds) = One(job.of, kinds)
         /\ Many(Of(<<>>), kinds) = 0
<1>1. /\ <<job>> \in Seq(Job) /\ Len(<<job>>) = 1 /\ <<job>>[1] = job
      /\ <<>> \in Seq(Job) /\ Len(<<>>) = 0
  OBVIOUS
<1> HIDE DEF Job
<1>2. Of(<<job>>) = <<job.of>>
  BY <1>1 DEF Of
<1>3. Of(<<>>) = <<>>
  BY <1>1 DEF Of
<1>4. job.of \in Command
  BY DEF Job
<1> QED
  BY <1>1, <1>2, <1>3, <1>4, ManyOne

\* The first job and the others.
LEMMA OfTail ==
  ASSUME NEW js \in Seq(Job), js # <<>>, NEW kinds
  PROVE  /\ Head(js) \in Job /\ Tail(js) \in Seq(Job)
         /\ Head(js).of \in Command /\ Head(js).reply \in Reply
         /\ Many(Of(js), kinds) = One(Head(js).of, kinds) + Many(Of(Tail(js)), kinds)
<1>1. /\ Head(js) \in Job /\ Tail(js) \in Seq(Job) /\ Len(Tail(js)) = Len(js) - 1
      /\ \A i \in 1 .. Len(Tail(js)) : Tail(js)[i] = js[i + 1]
      /\ Len(js) \in Nat \ {0} /\ Head(js) = js[1]
  BY HeadTailProperties, EmptySeq
<1>2. /\ Of(js) \in Seq(Command) /\ Len(Of(js)) = Len(js)
      /\ \A i \in 1 .. Len(js) : Of(js)[i] = js[i].of
  BY OfFacts
<1>3. /\ Of(Tail(js)) \in Seq(Command) /\ Len(Of(Tail(js))) = Len(js) - 1
      /\ \A i \in 1 .. Len(js) - 1 : Of(Tail(js))[i] = js[i + 1].of
  <2> DEFINE rest == Tail(js)
  <2>1. /\ rest \in Seq(Job) /\ Len(rest) = Len(js) - 1 /\ Len(js) \in Nat
        /\ \A i \in 1 .. Len(rest) : rest[i] = js[i + 1]
    BY <1>1
  <2> HIDE DEF rest
  <2>2. /\ Of(rest) \in Seq(Command) /\ Len(Of(rest)) = Len(rest)
        /\ \A i \in 1 .. Len(rest) : Of(rest)[i] = rest[i].of
    BY <2>1, OfFacts
  <2>3. /\ Of(rest) \in Seq(Command) /\ Len(Of(rest)) = Len(js) - 1
        /\ \A i \in 1 .. Len(js) - 1 : Of(rest)[i] = js[i + 1].of
    BY <2>1, <2>2
  <2> QED
    BY <2>3 DEF rest
<1>4. Of(js) # <<>>
  BY <1>1, <1>2
<1>5. Head(Of(js)) = Head(js).of
  BY <1>1, <1>2, <1>4
<1>6. Tail(Of(js)) = Of(Tail(js))
  <2>1. /\ Tail(Of(js)) \in Seq(Command) /\ Len(Tail(Of(js))) = Len(js) - 1
        /\ \A i \in 1 .. Len(js) - 1 : Tail(Of(js))[i] = Of(js)[i + 1]
    BY <1>2, <1>4, HeadTailProperties
  <2>2. \A i \in 1 .. Len(js) - 1 : i + 1 \in 1 .. Len(js)
    BY <1>1
  <2>3. \A i \in 1 .. Len(js) - 1 : Tail(Of(js))[i] = Of(Tail(js))[i]
    BY <1>2, <1>3, <2>1, <2>2
  <2> QED
    BY <1>3, <2>1, <2>3, SeqEqual
<1> QED
  BY <1>1, <1>2, <1>4, <1>5, <1>6, ManyTail DEF Job

-----------------------------------------------------------------------------
(***************************************************************************)
(* The inductive invariant.                                                *)
(***************************************************************************)
\* Only requests wait in the relay queue.
Queued == \A i \in 1 .. Len(relayQueue) : relayQueue[i].what = "exchange"

\* Every session that began, and every start on its way, was asked for.
Begun == (IF opening = None THEN 0 ELSE 1) + epoch + Load({"enter", "query"}) <= starts

IInv == TypeOK /\ InFlightExact /\ Queued /\ Begun

\* What every step has to keep of the types, beside those of the sequences it touches.
LEMMA Facts ==
  ASSUME TypeOK, NEW kinds
  PROVE  /\ writing \in Seq(Command) /\ waiters \in Seq(Command) /\ toDevice \in Seq(Command)
         /\ jobs \in Seq(Job) /\ Of(jobs) \in Seq(Command)
         /\ relayQueue \in Seq(Command) /\ buffer \in Seq(Reply) /\ line \in Seq(Reply)
         /\ Many(writing, kinds) \in Nat /\ Many(waiters, kinds) \in Nat
         /\ Many(Of(jobs), kinds) \in Nat /\ Load(kinds) \in Nat
<1>1. /\ writing \in Seq(Command) /\ waiters \in Seq(Command) /\ toDevice \in Seq(Command)
      /\ jobs \in Seq(Job) /\ relayQueue \in Seq(Command) /\ buffer \in Seq(Reply) /\ line \in Seq(Reply)
  BY DEF TypeOK
<1>2. Of(jobs) \in Seq(Command)
  BY <1>1, OfFacts
<1>3. /\ Many(writing, kinds) \in Nat /\ Many(waiters, kinds) \in Nat
      /\ Many(Of(jobs), kinds) \in Nat
  BY <1>1, <1>2, PlacesFinite
<1> QED
  BY <1>1, <1>2, <1>3 DEF Load

\* At the start nothing is on its way.
LEMMA InitSafe == Init => IInv
<1> SUFFICES ASSUME Init PROVE IInv
  OBVIOUS
<1>1. /\ writing \in Seq(Command) /\ waiters \in Seq(Command) /\ toDevice \in Seq(Command)
      /\ relayQueue \in Seq(Command) /\ Len(relayQueue) = 0
      /\ jobs \in Seq(Job) /\ buffer \in Seq(Reply) /\ line \in Seq(Reply)
  BY DEF Init
<1>2. TypeOK
  <2>1. 0 \in 0 .. Requests /\ 0 \in 0 .. Depth /\ 0 \in 0 .. Sessions /\ 0 \in 0 .. Losses
    BY BridgeAssumption
  <2>2. Len(relayQueue) <= QueueLimit
    BY <1>1, BridgeAssumption
  <2>3. /\ conn \in [Client -> {"new", "open", "closed"}]
        /\ view \in [Client -> {"idle", "starting", "active"}]
        /\ next \in [Client -> 0 .. Requests]
        /\ answered \in [Client -> Number \cup {-1}]
        /\ device \in [active : BOOLEAN, last : Number \cup {-1}]
    BY <2>1 DEF Init
  <2> QED
    BY <1>1, <2>1, <2>2, <2>3 DEF Init, TypeOK
<1>3. \A kinds : Load(kinds) = 0
  <2>1. ASSUME NEW kinds PROVE Many(<<>>, kinds) = 0 /\ Many(Of(<<>>), kinds) = 0
    <3>1. <<>> \in Seq(Command) /\ Len(<<>>) = 0 /\ <<>> \in Seq(Job)
      OBVIOUS
    <3>2. Of(<<>>) \in Seq(Command) /\ Len(Of(<<>>)) = 0
      BY <3>1, OfFacts
    <3>3. \A i \in 1 .. 0 : FALSE
      OBVIOUS
    <3> HIDE DEF Command, Job
    <3> QED
      BY <3>1, <3>2, <3>3, ManyAll
  <2> QED
    BY <2>1 DEF Load, Init
<1>4. InFlightExact /\ Queued /\ Begun
  BY <1>1, <1>3 DEF Init, InFlightExact, Queued, Begun
<1> QED
  BY <1>2, <1>4 DEF IInv

-----------------------------------------------------------------------------
(***************************************************************************)
(* The line: what is on its way stays what it is.                          *)
(***************************************************************************)
\* Commands that are written.
LEMMA WriteSafe ==
  ASSUME TypeOK, NEW commands \in Seq(Command), Write(commands)
  PROVE  /\ writing' \in Seq(Command) /\ toDevice' \in Seq(Command)
         /\ \A kinds : Many(writing', kinds) = Many(writing, kinds) + Many(commands, kinds)
<1>1. writing \in Seq(Command) /\ toDevice \in Seq(Command)
  BY DEF TypeOK
<1>2. writing' = writing \o commands /\ toDevice' = toDevice \o commands
  BY DEF Write
<1>3. writing' \in Seq(Command) /\ toDevice' \in Seq(Command)
  BY <1>1, <1>2, ConcatProperties
<1> QED
  BY <1>1, <1>2, <1>3, ManyConcat

\* A step of the line that moves commands from waiters to jobs and nothing else.
LEMMA Moved ==
  ASSUME IInv,
         jobs' \in Seq(Job), waiters' \in Seq(Command), buffer' \in Seq(Reply), line' \in Seq(Reply),
         \A kinds : Many(waiters', kinds) + Many(Of(jobs'), kinds)
                      = Many(waiters, kinds) + Many(Of(jobs), kinds),
         UNCHANGED <<client, server, relay, usb, writing, toDevice, device, lost,
                     starts, overlapped, epoch, answered>>
  PROVE  IInv'
<1>1. TypeOK /\ InFlightExact /\ Queued /\ Begun
  BY DEF IInv
<1>2. TypeOK'
  BY <1>1 DEF TypeOK, client, server, relay, usb
<1>3. ASSUME NEW kinds PROVE Load(kinds)' = Load(kinds)
  <2>1. /\ Many(writing, kinds) \in Nat /\ Many(waiters, kinds) \in Nat
        /\ Many(Of(jobs), kinds) \in Nat
    BY <1>1, Facts
  <2>2. Many(waiters', kinds) \in Nat /\ Many(Of(jobs'), kinds) \in Nat
    BY PlacesFinite, OfFacts
  <2>3. Many(waiters', kinds) + Many(Of(jobs'), kinds) = Many(waiters, kinds) + Many(Of(jobs), kinds)
    OBVIOUS
  <2>4. Many(writing', kinds) + Many(waiters', kinds) + Many(Of(jobs'), kinds)
          = Many(writing, kinds) + Many(waiters, kinds) + Many(Of(jobs), kinds)
    <3> DEFINE w == Many(writing, kinds)
               a == Many(waiters, kinds)
               b == Many(Of(jobs), kinds)
               c == Many(waiters', kinds)
               d == Many(Of(jobs'), kinds)
    <3>1. w \in Nat /\ a \in Nat /\ b \in Nat /\ c \in Nat /\ d \in Nat /\ c + d = a + b
      BY <2>1, <2>2, <2>3
    <3>2. writing' = writing
      OBVIOUS
    <3> HIDE DEF w, a, b, c, d
    <3>3. w + c + d = w + a + b
      BY <3>1, LoadSum
    <3> QED
      BY <3>2, <3>3 DEF w, a, b, c, d
  <2> QED
    BY <2>4 DEF Load
<1>4. InFlightExact' /\ Queued' /\ Begun'
  BY <1>1, <1>3 DEF InFlightExact, Queued, Begun, relay, usb
<1> QED
  BY <1>2, <1>4 DEF IInv

\* A drained write: the command goes from writing to waiters or to jobs.
LEMMA DrainedSafe == IInv /\ Drained => IInv'
<1> SUFFICES ASSUME IInv, Drained PROVE IInv'
  OBVIOUS
<1>1. TypeOK /\ InFlightExact /\ Queued /\ Begun
  BY DEF IInv
<1>2. /\ writing \in Seq(Command) /\ writing # <<>> /\ waiters \in Seq(Command)
      /\ buffer \in Seq(Reply) /\ jobs = <<>> /\ writing' = Tail(writing)
  BY <1>1 DEF TypeOK, Drained, Ready
<1>3. /\ Head(writing) \in Command /\ Tail(writing) \in Seq(Command)
      /\ \A kinds : Many(writing, kinds) = One(Head(writing), kinds) + Many(Tail(writing), kinds)
  BY <1>2, ManyTail
<1>4. /\ waiters' \in Seq(Command) /\ buffer' \in Seq(Reply) /\ jobs' \in Seq(Job)
      /\ \A kinds : /\ Many(waiters', kinds) + Many(Of(jobs'), kinds)
                          = Many(waiters, kinds) + Many(Of(jobs), kinds) + One(Head(writing), kinds)
                    /\ Many(waiters, kinds) \in Nat /\ Many(Of(jobs), kinds) \in Nat
  <2>1. CASE buffer # <<>> /\ jobs' = <<[of |-> Head(writing), reply |-> Head(buffer)]>>
             /\ buffer' = Tail(buffer) /\ waiters' = waiters
    <3> DEFINE job == [of |-> Head(writing), reply |-> Head(buffer)]
    <3>1. Head(buffer) \in Reply /\ Tail(buffer) \in Seq(Reply)
      BY <1>2, <2>1, HeadTailProperties
    <3>2. job \in Job /\ job.of = Head(writing)
      BY <1>3, <3>1 DEF Job
    <3> HIDE DEF job
    <3>3. /\ <<job>> \in Seq(Job)
          /\ \A kinds : Many(Of(<<job>>), kinds) = One(job.of, kinds) /\ Many(Of(<<>>), kinds) = 0
      BY <3>2, OfOne
    <3>4. \A kinds : Many(waiters, kinds) \in Nat /\ One(job.of, kinds) \in Nat
      BY <1>2, PlacesFinite, OneNat
    <3>5. jobs' = <<job>>
      BY <2>1 DEF job
    <3> QED
      BY <1>2, <2>1, <3>1, <3>2, <3>3, <3>4, <3>5
  <2>2. CASE buffer = <<>> /\ waiters' = Append(waiters, Head(writing)) /\ UNCHANGED <<buffer, jobs>>
    <3>3. /\ waiters' \in Seq(Command)
          /\ \A kinds : Many(waiters', kinds) = Many(waiters, kinds) + One(Head(writing), kinds)
      BY <1>2, <1>3, <2>2, ManyAppend
    <3>4. \A kinds : /\ Many(waiters, kinds) \in Nat /\ Many(Of(jobs), kinds) \in Nat
                     /\ One(Head(writing), kinds) \in Nat
      BY <1>1, Facts, OneNat
    <3>5. jobs \in Seq(Job)
      BY <1>1 DEF TypeOK
    <3> QED
      BY <1>2, <2>2, <3>3, <3>4, <3>5
  <2> QED
    BY <2>1, <2>2 DEF Drained
<1>5. \A kinds : Load(kinds)' = Load(kinds)
  <2>1. ASSUME NEW kinds PROVE Load(kinds)' = Load(kinds)
    <3>1. /\ Many(Tail(writing), kinds) \in Nat /\ Many(waiters', kinds) \in Nat
          /\ Many(Of(jobs'), kinds) \in Nat /\ One(Head(writing), kinds) \in Nat
      BY <1>3, <1>4, PlacesFinite, OfFacts, OneNat
    <3>2. Many(writing, kinds) = One(Head(writing), kinds) + Many(writing', kinds)
      BY <1>2, <1>3
    <3>3. Many(waiters', kinds) + Many(Of(jobs'), kinds)
            = Many(waiters, kinds) + Many(Of(jobs), kinds) + One(Head(writing), kinds)
      BY <1>4
    <3>4. Many(writing', kinds) \in Nat /\ Many(waiters, kinds) \in Nat /\ Many(Of(jobs), kinds) \in Nat
      BY <1>2, <1>4, <3>1
    <3> QED
      BY <3>1, <3>2, <3>3, <3>4 DEF Load
  <2> QED
    BY <2>1
<1>6. UNCHANGED <<client, server, relay, usb, wire, starts, overlapped, epoch, answered, toDevice>>
  BY DEF Drained, wire
<1>7. TypeOK'
  <2>1. /\ writing' \in Seq(Command) /\ waiters' \in Seq(Command) /\ jobs' \in Seq(Job)
        /\ buffer' \in Seq(Reply)
    BY <1>2, <1>3, <1>4
  <2>2. UNCHANGED <<conn, view, next, activeClient, sessionActive, lastModuleKind>>
    BY <1>6 DEF client, server
  <2>3. UNCHANGED <<relayQueue, usbInFlight, port, opening, toDevice, line, device, lost>>
    BY <1>6 DEF relay, usb, wire
  <2>4. UNCHANGED <<starts, overlapped, epoch, answered>>
    BY <1>6
  <2> QED
    BY <1>1, <2>1, <2>2, <2>3, <2>4 DEF TypeOK
<1>8. InFlightExact' /\ Queued' /\ Begun'
  BY <1>1, <1>5, <1>6 DEF InFlightExact, Queued, Begun, relay, usb
<1> QED
  BY <1>7, <1>8 DEF IInv

\* Frames for the first waiters: each of them goes from waiters to jobs.
LEMMA HandOut ==
  ASSUME TypeOK, jobs = <<>>, NEW frames \in Seq(Reply), NEW n \in 0 .. Len(waiters), n <= Len(frames),
         jobs' = [i \in 1 .. n |-> [of |-> waiters[i], reply |-> frames[i]]],
         waiters' = SubSeq(waiters, n + 1, Len(waiters))
  PROVE  /\ jobs' \in Seq(Job) /\ waiters' \in Seq(Command) /\ Of(jobs') = SubSeq(waiters, 1, n)
         /\ \A kinds : Many(waiters', kinds) + Many(Of(jobs'), kinds)
                         = Many(waiters, kinds) + Many(Of(jobs), kinds)
<1>1. waiters \in Seq(Command) /\ n \in Nat /\ Len(waiters) \in Nat /\ Len(frames) \in Nat
  BY LenProperties DEF TypeOK
<1>2. jobs' \in Seq(Job) /\ Len(jobs') = n /\ \A i \in 1 .. n : jobs'[i].of = waiters[i]
  <2>1. ASSUME NEW i \in 1 .. n
        PROVE  [of |-> waiters[i], reply |-> frames[i]] \in Job
    <3>1. i \in 1 .. Len(waiters) /\ i \in 1 .. Len(frames)
      BY <1>1
    <3>2. waiters[i] \in Command /\ frames[i] \in Reply
      BY <1>1, <3>1, ElementOfSeq
    <3> QED
      BY <3>2 DEF Job
  <2>2. jobs' \in [1 .. n -> Job]
    BY <2>1
  <2>3. jobs' \in Seq(Job)
    BY <1>1, <2>2, SeqDef
  <2>4. Len(jobs') = n
    <3>1. DOMAIN jobs' = 1 .. Len(jobs') /\ Len(jobs') \in Nat /\ DOMAIN jobs' = 1 .. n
      BY <2>2, <2>3, LenProperties
    <3> QED
      BY <1>1, <3>1
  <2> QED
    BY <2>3, <2>4
<1>3. /\ SubSeq(waiters, 1, n) \in Seq(Command) /\ Len(SubSeq(waiters, 1, n)) = n
      /\ \A i \in 1 .. n : SubSeq(waiters, 1, n)[i] = waiters[i]
      /\ waiters' \in Seq(Command)
      /\ \A kinds : Many(waiters, kinds) = Many(SubSeq(waiters, 1, n), kinds) + Many(waiters', kinds)
  BY <1>1, ManyCut
<1>4. Of(jobs') = SubSeq(waiters, 1, n)
  <2>1. Of(jobs') \in Seq(Command) /\ Len(Of(jobs')) = n /\ \A i \in 1 .. n : Of(jobs')[i] = jobs'[i].of
    BY <1>2, OfFacts
  <2> QED
    BY <1>2, <1>3, <2>1, SeqEqual
<1>5. ASSUME NEW kinds
      PROVE  Many(waiters', kinds) + Many(Of(jobs'), kinds) = Many(waiters, kinds) + Many(Of(jobs), kinds)
  <2>1. Many(Of(jobs), kinds) = 0
    <3>1. <<>> \in Seq(Job) /\ Len(<<>>) = 0
      OBVIOUS
    <3>2. Of(<<>>) \in Seq(Command) /\ Len(Of(<<>>)) = 0
      BY <3>1, OfFacts
    <3>3. \A i \in 1 .. 0 : FALSE
      OBVIOUS
    <3> QED
      BY <3>2, <3>3, ManyAll
  <2>2. Many(waiters, kinds) \in Nat /\ Many(waiters', kinds) \in Nat /\ Many(SubSeq(waiters, 1, n), kinds) \in Nat
    BY <1>1, <1>3, PlacesFinite
  <2>3. Many(waiters, kinds) = Many(SubSeq(waiters, 1, n), kinds) + Many(waiters', kinds)
    BY <1>3
  <2>4. Many(Of(jobs'), kinds) = Many(SubSeq(waiters, 1, n), kinds)
    BY <1>4
  <2> DEFINE p == Many(waiters, kinds)
             q == Many(SubSeq(waiters, 1, n), kinds)
             r == Many(waiters', kinds)
  <2> HIDE DEF p, q, r
  <2>5. p \in Nat /\ q \in Nat /\ r \in Nat /\ p = q + r
    BY <2>2, <2>3 DEF p, q, r
  <2>6. r + q = p + 0
    BY <2>5
  <2> QED
    BY <2>1, <2>4, <2>6 DEF p, q, r
<1> QED
  BY <1>2, <1>3, <1>4, <1>5

\* A chunk of bytes arrives.
LEMMA ArriveSafe == IInv /\ Arrive => IInv'
<1> SUFFICES ASSUME IInv, Arrive PROVE IInv'
  OBVIOUS
<1>1. TypeOK /\ InFlightExact /\ Queued /\ Begun /\ jobs = <<>>
  BY DEF IInv, Arrive, Ready
<1>2. PICK k \in 1 .. Len(line) :
        LET frames == buffer \o SubSeq(line, 1, k)
            n == IF Len(frames) < Len(waiters) THEN Len(frames) ELSE Len(waiters)
        IN  /\ line' = SubSeq(line, k + 1, Len(line))
            /\ jobs' = [i \in 1 .. n |-> [of |-> waiters[i], reply |-> frames[i]]]
            /\ waiters' = SubSeq(waiters, n + 1, Len(waiters))
            /\ buffer' = IF waiters = <<>> THEN frames
                         ELSE SubSeq(frames, n + 2, Len(frames))
  BY DEF Arrive
<1> DEFINE frames == buffer \o SubSeq(line, 1, k)
           n == IF Len(frames) < Len(waiters) THEN Len(frames) ELSE Len(waiters)
<1>3. /\ line \in Seq(Reply) /\ buffer \in Seq(Reply) /\ waiters \in Seq(Command)
      /\ Len(line) \in Nat /\ Len(waiters) \in Nat
      /\ \A i \in 1 .. Len(line) : line[i] \in Reply
  BY <1>1, LenProperties, ElementOfSeq DEF TypeOK
<1>4. SubSeq(line, 1, k) \in Seq(Reply) /\ SubSeq(line, k + 1, Len(line)) \in Seq(Reply)
  <2>1. (\A i \in 1 .. k : line[i] \in Reply) /\ (\A i \in k + 1 .. Len(line) : line[i] \in Reply)
    BY <1>3
  <2> QED
    BY <1>3, <2>1, SubSeqProperties
<1>5. frames \in Seq(Reply) /\ Len(frames) \in Nat /\ \A i \in 1 .. Len(frames) : frames[i] \in Reply
  <2>1. frames \in Seq(Reply)
    BY <1>3, <1>4, ConcatProperties
  <2> HIDE DEF frames
  <2> QED
    BY <2>1, LenProperties, ElementOfSeq
<1> HIDE DEF frames
<1>6. n \in 0 .. Len(waiters) /\ n <= Len(frames) /\ n \in Nat
  BY <1>3, <1>5
<1>7. /\ line' = SubSeq(line, k + 1, Len(line))
      /\ jobs' = [i \in 1 .. n |-> [of |-> waiters[i], reply |-> frames[i]]]
      /\ waiters' = SubSeq(waiters, n + 1, Len(waiters))
      /\ buffer' = IF waiters = <<>> THEN frames ELSE SubSeq(frames, n + 2, Len(frames))
  BY <1>2 DEF frames
<1> HIDE DEF n
<1>8. SubSeq(frames, n + 2, Len(frames)) \in Seq(Reply)
  <2>1. \A i \in n + 2 .. Len(frames) : frames[i] \in Reply
    BY <1>5, <1>6
  <2> QED
    BY <1>5, <1>6, <2>1, SubSeqProperties
<1>9. /\ jobs' \in Seq(Job) /\ waiters' \in Seq(Command)
      /\ \A kinds : Many(waiters', kinds) + Many(Of(jobs'), kinds)
                      = Many(waiters, kinds) + Many(Of(jobs), kinds)
  BY <1>1, <1>5, <1>6, <1>7, HandOut
<1>10. line' \in Seq(Reply) /\ buffer' \in Seq(Reply)
  BY <1>4, <1>5, <1>7, <1>8
<1>11. UNCHANGED <<client, server, relay, usb, writing, toDevice, device, lost,
                   starts, overlapped, epoch, answered>>
  BY DEF Arrive
<1> QED
  BY <1>1, <1>9, <1>10, <1>11, Moved

\* The oldest waiter gives up.
LEMMA ExpireSafe == IInv /\ Expire => IInv'
<1> SUFFICES ASSUME IInv, Expire PROVE IInv'
  OBVIOUS
<1>1. TypeOK /\ waiters # <<>> /\ jobs = <<>> /\ waiters \in Seq(Command) /\ line \in Seq(Reply)
  BY DEF IInv, Expire, Ready, TypeOK
<1> DEFINE job == [of |-> Head(waiters), reply |-> [of |-> Head(waiters), status |-> "timeout"]]
<1>2. jobs' = <<job>> /\ waiters' = Tail(waiters) /\ buffer' = <<>>
  BY DEF Expire
<1>3. /\ Head(waiters) \in Command /\ Tail(waiters) \in Seq(Command)
      /\ \A kinds : Many(waiters, kinds) = One(Head(waiters), kinds) + Many(Tail(waiters), kinds)
  BY <1>1, ManyTail
<1>4. job \in Job /\ job.of = Head(waiters)
  BY <1>3 DEF Job, Reply
<1> HIDE DEF job
<1>5. /\ <<job>> \in Seq(Job)
      /\ \A kinds : Many(Of(<<job>>), kinds) = One(job.of, kinds) /\ Many(Of(<<>>), kinds) = 0
  BY <1>4, OfOne
<1>6. ASSUME NEW kinds
      PROVE  Many(waiters', kinds) + Many(Of(jobs'), kinds) = Many(waiters, kinds) + Many(Of(jobs), kinds)
  <2>1. Many(Tail(waiters), kinds) \in Nat /\ One(Head(waiters), kinds) \in Nat
    BY <1>3, PlacesFinite, OneNat
  <2>2. Many(waiters, kinds) = One(Head(waiters), kinds) + Many(Tail(waiters), kinds)
    BY <1>3
  <2>3. Many(Of(<<job>>), kinds) = One(Head(waiters), kinds) /\ Many(Of(<<>>), kinds) = 0
    BY <1>4, <1>5
  <2> QED
    BY <1>1, <1>2, <2>1, <2>2, <2>3
<1>7. line' \in Seq(Reply)
  <2>1. CASE line' = line
    BY <1>1, <2>1
  <2>2. CASE line # <<>> /\ line' = Tail(line)
    BY <1>1, <2>2, HeadTailProperties
  <2>3. ASSUME line # <<>>, NEW k \in 2 .. Len(line) + 1,
               line' = <<[Head(line) EXCEPT !.status = "garbage"]>> \o SubSeq(line, k, Len(line))
        PROVE  line' \in Seq(Reply)
    <3>1. Head(line) \in Reply /\ Len(line) \in Nat /\ \A i \in 1 .. Len(line) : line[i] \in Reply
      BY <1>1, <2>3, HeadTailProperties, LenProperties, ElementOfSeq
    <3>2. [Head(line) EXCEPT !.status = "garbage"] \in Reply
      BY <3>1 DEF Reply
    <3>3. <<[Head(line) EXCEPT !.status = "garbage"]>> \in Seq(Reply)
      BY <3>2
    <3>4. \A i \in k .. Len(line) : line[i] \in Reply
      BY <3>1
    <3>5. SubSeq(line, k, Len(line)) \in Seq(Reply)
      BY <3>1, <3>4, SubSeqProperties
    <3> QED
      BY <2>3, <3>3, <3>5, ConcatProperties
  <2> QED
    BY <2>1, <2>2, <2>3 DEF Expire
<1>8. UNCHANGED <<client, server, relay, usb, writing, toDevice, device, lost,
                  starts, overlapped, epoch, answered>>
  BY DEF Expire
<1>9. jobs' \in Seq(Job) /\ waiters' \in Seq(Command) /\ buffer' \in Seq(Reply)
  BY <1>2, <1>3, <1>5
<1> QED
  BY <1>6, <1>7, <1>8, <1>9, Moved

-----------------------------------------------------------------------------
(***************************************************************************)
(* The handlers.                                                           *)
(***************************************************************************)
\* The load of a step that writes m commands of the kinds, and of one in which the first job
\* goes on besides.
LEMMA LoadSums ==
  ASSUME NEW w \in Nat, NEW a \in Nat, NEW b \in Nat, NEW m \in Nat, NEW o \in Nat, NEW r \in Nat, b = o + r
  PROVE  /\ (w + m) + a + b = (w + a + b) + m
         /\ ((w + m) + a + r) + o = (w + a + b) + m
         /\ o <= w + a + b
OBVIOUS

\* A step changes a load by what its parts change.
LEMMA LoadStep ==
  ASSUME TypeOK, waiters' = waiters, writing' \in Seq(Command), NEW kinds, NEW m \in Nat,
         Many(writing', kinds) = Many(writing, kinds) + m
  PROVE  /\ Load(kinds) \in Nat /\ (jobs' \in Seq(Job) => Load(kinds)' \in Nat)
         /\ jobs' = jobs => Load(kinds)' = Load(kinds) + m
         /\ jobs # <<>> /\ jobs' = Tail(jobs) =>
              /\ Load(kinds)' + One(Head(jobs).of, kinds) = Load(kinds) + m
              /\ One(Head(jobs).of, kinds) <= Load(kinds)
<1> DEFINE w == Many(writing, kinds)
           a == Many(waiters, kinds)
           b == Many(Of(jobs), kinds)
<1>1. w \in Nat /\ a \in Nat /\ b \in Nat /\ Load(kinds) \in Nat /\ jobs \in Seq(Job)
  BY Facts
<1>2. Load(kinds) = w + a + b /\ Load(kinds)' = (w + m) + a + Many(Of(jobs'), kinds)
  BY DEF Load
<1>3. ASSUME jobs' = jobs PROVE Load(kinds)' = Load(kinds) + m
  <2>1. Load(kinds)' = (w + m) + a + b
    BY <1>2, <1>3
  <2> HIDE DEF w, a, b
  <2>2. (w + m) + a + b = (w + a + b) + m
    BY <1>1
  <2> QED
    BY <1>2, <2>1, <2>2
<1>4. ASSUME jobs # <<>>, jobs' = Tail(jobs)
      PROVE  /\ Load(kinds)' + One(Head(jobs).of, kinds) = Load(kinds) + m
             /\ One(Head(jobs).of, kinds) <= Load(kinds)
  <2> DEFINE o == One(Head(jobs).of, kinds)
             r == Many(Of(Tail(jobs)), kinds)
  <2>1. b = o + r
    BY <1>1, <1>4, OfTail
  <2>2. Tail(jobs) \in Seq(Job)
    BY <1>1, <1>4, OfTail
  <2>3. o \in Nat /\ r \in Nat
    BY <2>2, OfFacts, PlacesFinite, OneNat
  <2>4. Load(kinds)' = (w + m) + a + r
    BY <1>2, <1>4
  <2> HIDE DEF w, a, b, o, r
  <2>5. ((w + m) + a + r) + o = (w + a + b) + m /\ o <= w + a + b
    BY <1>1, <2>1, <2>3, LoadSums
  <2> QED
    BY <1>2, <2>4, <2>5 DEF o
<1>5. Load(kinds)' \in Nat \/ jobs' \notin Seq(Job)
  <2> SUFFICES ASSUME jobs' \in Seq(Job) PROVE Load(kinds)' \in Nat
    OBVIOUS
  <2>1. Many(Of(jobs'), kinds) \in Nat
    BY OfFacts, PlacesFinite
  <2> DEFINE d == Many(Of(jobs'), kinds)
  <2> HIDE DEF w, a, b, d
  <2>2. (w + m) + a + d \in Nat
    BY <1>1, <2>1 DEF d
  <2> QED
    BY <1>2, <2>2 DEF d
<1> QED
  BY <1>1, <1>3, <1>4, <1>5

\* drainRelayQueue keeps the limits, and writes as many exchanges as it counts.
LEMMA DrainSafe ==
  ASSUME TypeOK, NEW queue \in Seq(Command), Len(queue) <= QueueLimit,
         \A i \in 1 .. Len(queue) : queue[i].what = "exchange",
         NEW inFlight \in 0 .. Depth, Drain(queue, inFlight)
  PROVE  /\ relayQueue' \in Seq(Command) /\ Len(relayQueue') <= QueueLimit /\ Queued'
         /\ usbInFlight' \in 0 .. Depth
         /\ writing' \in Seq(Command) /\ toDevice' \in Seq(Command)
         /\ \E n \in Nat :
              /\ usbInFlight' = inFlight + n
              /\ Many(writing', {"exchange"}) = Many(writing, {"exchange"}) + n
         /\ Many(writing', {"enter", "query"}) = Many(writing, {"enter", "query"}) + 0
<1> DEFINE room == Depth - inFlight
           n == IF ~sessionActive THEN 0 ELSE IF Len(queue) < room THEN Len(queue) ELSE room
           front == SubSeq(queue, 1, n)
           rest == SubSeq(queue, n + 1, Len(queue))
<1>1. Len(queue) \in Nat /\ Depth \in Nat /\ inFlight \in Nat /\ inFlight <= Depth
  BY BridgeAssumption, LenProperties
<1>2. n \in 0 .. Len(queue) /\ n \in Nat /\ inFlight + n \in 0 .. Depth
  BY <1>1
<1>3. relayQueue' = rest /\ usbInFlight' = inFlight + n /\ Write(front)
  BY DEF Drain
<1> HIDE DEF n
<1>4. /\ front \in Seq(Command) /\ Len(front) = n /\ \A i \in 1 .. n : front[i] = queue[i]
      /\ rest \in Seq(Command) /\ Len(rest) = Len(queue) - n
      /\ \A i \in 1 .. Len(queue) - n : rest[i] = queue[n + i]
  BY <1>2, ManyCut
<1> HIDE DEF front, rest
<1>5. /\ \A i \in 1 .. n : front[i].what = "exchange"
      /\ \A i \in 1 .. Len(rest) : rest[i].what = "exchange"
  <2>1. \A i \in 1 .. n : i \in 1 .. Len(queue)
    BY <1>1, <1>2
  <2>2. \A i \in 1 .. Len(queue) - n : n + i \in 1 .. Len(queue)
    BY <1>1, <1>2
  <2>3. ASSUME NEW i \in 1 .. n PROVE front[i].what = "exchange"
    BY <1>4, <2>1
  <2>4. ASSUME NEW i \in 1 .. Len(rest) PROVE rest[i].what = "exchange"
    <3>1. i \in 1 .. Len(queue) - n
      BY <1>4
    <3>2. rest[i] = queue[n + i] /\ n + i \in 1 .. Len(queue)
      BY <1>4, <2>2, <3>1
    <3> QED
      BY <3>2
  <2> QED
    BY <2>3, <2>4
<1>6. Many(front, {"exchange"}) = n /\ Many(front, {"enter", "query"}) = 0
  <2>1. \A i \in 1 .. Len(front) : front[i].what \in {"exchange"} /\ front[i].what \notin {"enter", "query"}
    BY <1>4, <1>5
  <2> QED
    BY <1>4, <2>1, ManyAll
<1>7. /\ writing' \in Seq(Command) /\ toDevice' \in Seq(Command)
      /\ Many(writing', {"exchange"}) = Many(writing, {"exchange"}) + n
      /\ Many(writing', {"enter", "query"}) = Many(writing, {"enter", "query"}) + 0
  BY <1>3, <1>4, <1>6, WriteSafe
<1>8. Len(rest) <= QueueLimit
  BY <1>1, <1>2, <1>4, BridgeAssumption
<1> QED
  BY <1>2, <1>3, <1>4, <1>5, <1>7, <1>8 DEF Queued

\* A command of the server for a client.
LEMMA ControlSafe ==
  ASSUME NEW c \in Client, NEW what \in {"enter", "query", "exit"}
  PROVE  Control(what, c) \in Command /\ Control(what, c).what = what
<1>1. 0 \in 0 .. Sessions
  BY BridgeAssumption
<1> QED
  BY <1>1 DEF Control, Command

\* A handler that writes at most one command, which is no exchange.
LEMMA WriteOne ==
  ASSUME TypeOK, NEW commands \in {<<Control("enter", c)>> : c \in Client} \cup {<<Control("exit", c)>> : c \in Client},
         Write(commands)
  PROVE  /\ writing' \in Seq(Command) /\ toDevice' \in Seq(Command)
         /\ Many(writing', {"exchange"}) = Many(writing, {"exchange"}) + 0
         /\ \E m \in {0, 1} :
              /\ Many(writing', {"enter", "query"}) = Many(writing, {"enter", "query"}) + m
              /\ m = 1 => \E c \in Client : commands = <<Control("enter", c)>>
<1>1. PICK c \in Client, what \in {"enter", "exit"} : commands = <<Control(what, c)>>
  OBVIOUS
<1>2. Control(what, c) \in Command /\ Control(what, c).what = what
  BY ControlSafe
<1>3. /\ commands \in Seq(Command)
      /\ \A kinds : Many(commands, kinds) = One(Control(what, c), kinds)
  BY <1>1, <1>2, ManyOne
<1>4. /\ writing' \in Seq(Command) /\ toDevice' \in Seq(Command)
      /\ \A kinds : Many(writing', kinds) = Many(writing, kinds) + Many(commands, kinds)
  BY <1>3, WriteSafe
<1>5. Many(commands, {"exchange"}) = 0
  <2>1. One(Control(what, c), {"exchange"}) = 0
    BY <1>2 DEF One
  <2> QED
    BY <1>3, <2>1
<1>6. Many(commands, {"enter", "query"}) = IF what = "enter" THEN 1 ELSE 0
  <2>1. One(Control(what, c), {"enter", "query"}) = IF what = "enter" THEN 1 ELSE 0
    BY <1>2 DEF One
  <2> QED
    BY <1>3, <2>1
<1>7. Many(writing', {"exchange"}) = Many(writing, {"exchange"}) + 0
  BY <1>4, <1>5
<1>8. Many(writing', {"enter", "query"})
        = Many(writing, {"enter", "query"}) + IF what = "enter" THEN 1 ELSE 0
  BY <1>4, <1>6
<1> QED
  BY <1>1, <1>4, <1>7, <1>8

\* The device, a request that is lost, and a new connection touch no handler.
LEMMA OthersSafe == IInv /\ (Device \/ Lose \/ \E c \in Client : Connect(c)) => IInv'
<1> SUFFICES ASSUME IInv, Device \/ Lose \/ \E c \in Client : Connect(c) PROVE IInv'
  OBVIOUS
<1>1. TypeOK /\ InFlightExact /\ Queued /\ Begun
  BY DEF IInv
<1>2. UNCHANGED <<view, next, sessionActive, lastModuleKind, relay, usb, writing, waiters, buffer, jobs,
                  starts, overlapped, epoch, answered>>
  BY DEF Device, Lose, Connect, client, server, wire
<1>3. InFlightExact' /\ Queued' /\ Begun'
  BY <1>1, <1>2 DEF InFlightExact, Queued, Begun, Load, relay, usb
<1>4. conn' \in [Client -> {"new", "open", "closed"}] /\ activeClient' \in Client \cup {None}
  BY <1>1 DEF TypeOK, Device, Lose, Connect, client, server
<1>5. /\ toDevice' \in Seq(Command) /\ line' \in Seq(Reply) /\ lost' \in 0 .. Losses
      /\ device' \in [active : BOOLEAN, last : Number \cup {-1}]
  <2>1. toDevice \in Seq(Command) /\ line \in Seq(Reply) /\ lost \in 0 .. Losses
        /\ device \in [active : BOOLEAN, last : Number \cup {-1}] /\ Losses \in Nat
    BY <1>1, BridgeAssumption DEF TypeOK
  <2>2. CASE Device
    <3>1. toDevice # <<>>
      BY <2>2 DEF Device
    <3>2. Head(toDevice) \in Command /\ Tail(toDevice) \in Seq(Command)
      BY <2>1, <3>1, HeadTailProperties
    <3>3. \A status \in {"ok", "gap", "refused"} :
            Append(line, [of |-> Head(toDevice), status |-> status]) \in Seq(Reply)
      <4>1. \A status \in {"ok", "gap", "refused"} : [of |-> Head(toDevice), status |-> status] \in Reply
        BY <3>2 DEF Reply
      <4> QED
        BY <2>1, <4>1, AppendProperties
    <3>4. line' \in Seq(Reply) /\ lost' \in 0 .. Losses
      <4>1. \/ /\ \E status \in {"ok", "gap", "refused"} :
                    line' = Append(line, [of |-> Head(toDevice), status |-> status])
               /\ lost' = lost
            \/ line' = line /\ lost < Losses /\ lost' = lost + 1
        BY <2>2 DEF Device
      <4>2. line' \in Seq(Reply)
        BY <2>1, <3>3, <4>1
      <4>3. lost' \in 0 .. Losses
        BY <2>1, <4>1
      <4> QED
        BY <4>2, <4>3
    <3>5. Head(toDevice).number \in Number \cup {-1}
      BY <3>2 DEF Command
    <3>6. device' \in [active : BOOLEAN, last : Number \cup {-1}]
      BY <2>1, <2>2, <3>5 DEF Device
    <3> QED
      BY <2>2, <3>2, <3>4, <3>6 DEF Device
  <2>3. CASE Lose
    <3>1. Tail(toDevice) \in Seq(Command)
      BY <2>1, <2>3, HeadTailProperties DEF Lose
    <3> QED
      BY <2>1, <2>3, <3>1 DEF Lose
  <2>4. CASE \E c \in Client : Connect(c)
    BY <2>1, <2>4 DEF Connect, wire
  <2> QED
    BY <2>2, <2>3, <2>4
<1>6. TypeOK'
  BY <1>1, <1>2, <1>4, <1>5 DEF TypeOK, relay, usb
<1> QED
  BY <1>3, <1>6 DEF IInv

\* startSession up to its first await.
LEMMA StartSafe == ASSUME IInv, NEW c \in Client, Start(c) PROVE IInv'
<1>1. TypeOK /\ InFlightExact /\ Queued /\ Begun
  BY DEF IInv
<1>2. /\ starts \in 0 .. Sessions /\ starts < Sessions /\ starts' = starts + 1 /\ Sessions \in Nat
      /\ UNCHANGED <<conn, next, server, relay, port, waiters, jobs, line, device, lost, epoch, answered>>
      /\ view' = [view EXCEPT ![c] = "starting"] /\ overlapped' \in BOOLEAN
  BY <1>1, BridgeAssumption DEF Start, TypeOK
<1>3. /\ writing' \in Seq(Command) /\ toDevice' \in Seq(Command) /\ buffer' \in Seq(Reply)
      /\ opening' \in Client \cup {None}
      /\ Load({"exchange"})' = Load({"exchange"})
      /\ Load({"enter", "query"})' \in Nat
      /\ (IF opening' = None THEN 0 ELSE 1) + Load({"enter", "query"})'
            <= (IF opening = None THEN 0 ELSE 1) + Load({"enter", "query"}) + 1
  <2>1. /\ writing \in Seq(Command) /\ toDevice \in Seq(Command) /\ buffer \in Seq(Reply)
        /\ opening \in Client \cup {None}
        /\ \A kinds : Many(writing, kinds) \in Nat /\ Load(kinds) \in Nat
    BY <1>1, Facts DEF TypeOK
  <2>2. CASE NoWrite /\ buffer' = buffer /\ opening' \in {opening, c}
    <3>1. ASSUME NEW kinds PROVE Load(kinds)' = Load(kinds)
      BY <1>2, <2>2 DEF NoWrite, Load
    <3> DEFINE l == Load({"enter", "query"})
    <3>2. l \in Nat /\ Load({"enter", "query"})' = l /\ Load({"exchange"})' = Load({"exchange"})
      BY <2>1, <3>1
    <3> HIDE DEF l
    <3>3. (IF opening' = None THEN 0 ELSE 1) + l <= (IF opening = None THEN 0 ELSE 1) + l + 1
      BY <2>2, <3>2
    <3> QED
      BY <2>1, <2>2, <3>2, <3>3 DEF NoWrite, l
  <2>3. CASE Enter(c) /\ opening' = opening
    <3>1. Write(<<Control("enter", c)>>) /\ buffer' = <<>>
      BY <2>3 DEF Enter
    <3>2. PICK m \in {0, 1} :
            /\ writing' \in Seq(Command) /\ toDevice' \in Seq(Command)
            /\ Many(writing', {"exchange"}) = Many(writing, {"exchange"}) + 0
            /\ Many(writing', {"enter", "query"}) = Many(writing, {"enter", "query"}) + m
      BY <1>1, <3>1, WriteOne
    <3>3. jobs' = jobs /\ waiters' = waiters /\ 0 \in Nat /\ m \in Nat
      BY <1>2
    <3>4. Load({"exchange"})' = Load({"exchange"}) + 0
      BY <1>1, <3>2, <3>3, LoadStep
    <3>5. Load({"enter", "query"})' = Load({"enter", "query"}) + m
      BY <1>1, <3>2, <3>3, LoadStep
    <3>6. Load({"exchange"}) \in Nat /\ Load({"enter", "query"}) \in Nat
      BY <2>1
    <3>7. Load({"exchange"})' = Load({"exchange"})
      BY <3>4, <3>6
    <3>8. /\ Load({"enter", "query"})' \in Nat
          /\ Load({"enter", "query"})' <= Load({"enter", "query"}) + 1
      BY <3>5, <3>6
    <3>9. buffer' \in Seq(Reply) /\ opening' \in Client \cup {None}
      BY <2>1, <2>3, <3>1
    <3> DEFINE busy == IF opening = None THEN 0 ELSE 1
    <3>10. busy \in Nat /\ (IF opening' = None THEN 0 ELSE 1) = busy
      BY <2>3
    <3> HIDE DEF busy
    <3>11. (IF opening' = None THEN 0 ELSE 1) + Load({"enter", "query"})'
              <= busy + Load({"enter", "query"}) + 1
      BY <3>6, <3>8, <3>10
    <3> QED
      BY <3>2, <3>7, <3>8, <3>9, <3>11 DEF busy
  <2> QED
    BY <2>2, <2>3 DEF Start, NoWrite
<1>4. TypeOK'
  <2>1. view' \in [Client -> {"idle", "starting", "active"}] /\ starts' \in 0 .. Sessions
    BY <1>1, <1>2 DEF TypeOK
  <2> QED
    BY <1>1, <1>2, <1>3, <2>1 DEF TypeOK, server, relay
<1>5. InFlightExact' /\ Queued'
  BY <1>1, <1>2, <1>3 DEF InFlightExact, Queued, relay
<1>6. Begun'
  <2>1. /\ epoch' = epoch /\ epoch \in Nat /\ starts \in Nat
        /\ Load({"enter", "query"}) \in Nat
    BY <1>1, <1>2, Facts, BridgeAssumption DEF TypeOK
  <2>2. Load({"enter", "query"})' \in Nat
    BY <1>3
  <2> DEFINE l == Load({"enter", "query"})
             k == Load({"enter", "query"})'
             o == IF opening = None THEN 0 ELSE 1
             p == IF opening' = None THEN 0 ELSE 1
  <2>3. l \in Nat /\ k \in Nat /\ o \in Nat /\ p \in Nat /\ p + k <= o + l + 1 /\ o + epoch + l <= starts
    BY <1>1, <1>3, <2>1, <2>2 DEF Begun
  <2> HIDE DEF l, k, o, p
  <2>4. p + epoch + k <= starts + 1
    BY <2>1, <2>3
  <2> QED
    BY <1>2, <2>1, <2>4 DEF Begun, l, k, o, p
<1> QED
  BY <1>4, <1>5, <1>6 DEF IInv

\* The port is open, or is not.
LEMMA OpenedSafe == IInv /\ Opened => IInv'
<1> SUFFICES ASSUME IInv, Opened PROVE IInv'
  OBVIOUS
<1>1. TypeOK /\ InFlightExact /\ Queued /\ Begun
  BY DEF IInv
<1>2. /\ opening # None /\ opening \in Client /\ opening' = None
      /\ UNCHANGED <<client, server, relay, waiters, jobs, line, device, lost, starts,
                     overlapped, epoch, answered>>
  BY <1>1 DEF Opened, TypeOK
<1>3. /\ writing' \in Seq(Command) /\ toDevice' \in Seq(Command) /\ buffer' \in Seq(Reply)
      /\ port' \in BOOLEAN
      /\ Load({"exchange"})' = Load({"exchange"})
      /\ \E m \in {0, 1} : Load({"enter", "query"})' = Load({"enter", "query"}) + m
  <2>1. /\ writing \in Seq(Command) /\ toDevice \in Seq(Command) /\ buffer \in Seq(Reply)
        /\ port \in BOOLEAN
        /\ Load({"exchange"}) \in Nat /\ Load({"enter", "query"}) \in Nat
    BY <1>1, Facts DEF TypeOK
  <2>2. CASE NoWrite /\ UNCHANGED <<port, buffer>>
    <3>1. ASSUME NEW kinds PROVE Load(kinds)' = Load(kinds)
      BY <1>2, <2>2 DEF NoWrite, Load
    <3>2. Load({"enter", "query"})' = Load({"enter", "query"}) + 0
      BY <2>1, <3>1
    <3> QED
      BY <2>1, <2>2, <3>1, <3>2 DEF NoWrite
  <2>3. CASE port' = TRUE /\ Enter(opening)
    <3>1. Write(<<Control("enter", opening)>>) /\ buffer' = <<>>
      BY <2>3 DEF Enter
    <3>2. PICK m \in {0, 1} :
            /\ writing' \in Seq(Command) /\ toDevice' \in Seq(Command)
            /\ Many(writing', {"exchange"}) = Many(writing, {"exchange"}) + 0
            /\ Many(writing', {"enter", "query"}) = Many(writing, {"enter", "query"}) + m
      BY <1>1, <1>2, <3>1, WriteOne
    <3>3. jobs' = jobs /\ waiters' = waiters /\ 0 \in Nat /\ m \in Nat
      BY <1>2
    <3>4. Load({"exchange"})' = Load({"exchange"}) + 0
      BY <1>1, <3>2, <3>3, LoadStep
    <3>5. Load({"enter", "query"})' = Load({"enter", "query"}) + m
      BY <1>1, <3>2, <3>3, LoadStep
    <3> QED
      BY <2>1, <2>3, <3>1, <3>2, <3>4, <3>5
  <2> QED
    BY <2>2, <2>3 DEF Opened
<1>4. TypeOK'
  BY <1>1, <1>2, <1>3 DEF TypeOK, client, server, relay
<1>5. InFlightExact' /\ Queued'
  BY <1>1, <1>2, <1>3 DEF InFlightExact, Queued, relay
<1>6. Begun'
  <2>1. epoch' = epoch /\ starts' = starts /\ epoch \in Nat /\ starts \in Nat /\ Load({"enter", "query"}) \in Nat
    BY <1>1, <1>2, Facts, BridgeAssumption DEF TypeOK
  <2> DEFINE l == Load({"enter", "query"})
             k == Load({"enter", "query"})'
  <2>2. 1 + epoch + l <= starts /\ l \in Nat /\ k \in {l, l + 1}
    BY <1>1, <1>2, <1>3, <2>1 DEF Begun
  <2> HIDE DEF l, k
  <2>3. 0 + epoch + k <= starts
    BY <2>1, <2>2
  <2> QED
    BY <1>2, <2>1, <2>3 DEF Begun, k
<1> QED
  BY <1>4, <1>5, <1>6 DEF IInv

\* A client stops its session, or its connection closes.
LEMMA EndSafe == ASSUME IInv, NEW c \in Client, Stop(c) \/ Close(c) PROVE IInv'
<1>1. TypeOK /\ InFlightExact /\ Queued /\ Begun
  BY DEF IInv
<1>2. UNCHANGED <<sessionActive, lastModuleKind, usbInFlight, usb, waiters, buffer, jobs, line, device, lost,
                  starts, overlapped, epoch>>
  BY DEF Stop, Close, server
<1>3. /\ relayQueue' \in {relayQueue, <<>>}
      /\ NoWrite \/ Write(<<Control("exit", c)>>)
  BY DEF Stop, StopSession, Close
<1>4. /\ writing' \in Seq(Command) /\ toDevice' \in Seq(Command)
      /\ Load({"exchange"})' = Load({"exchange"})
      /\ Load({"enter", "query"})' = Load({"enter", "query"})
  <2>1. /\ writing \in Seq(Command) /\ toDevice \in Seq(Command)
        /\ Load({"exchange"}) \in Nat /\ Load({"enter", "query"}) \in Nat
    BY <1>1, Facts DEF TypeOK
  <2>2. CASE NoWrite
    <3>1. ASSUME NEW kinds PROVE Load(kinds)' = Load(kinds)
      BY <1>2, <2>2 DEF NoWrite, Load
    <3> QED
      BY <2>1, <2>2, <3>1 DEF NoWrite
  <2>3. CASE Write(<<Control("exit", c)>>)
    <3>1. Control("exit", c) \in Command /\ Control("exit", c).what = "exit"
      BY ControlSafe
    <3>2. /\ <<Control("exit", c)>> \in Seq(Command)
          /\ \A kinds : Many(<<Control("exit", c)>>, kinds) = One(Control("exit", c), kinds)
      BY <3>1, ManyOne
    <3>3. One(Control("exit", c), {"exchange"}) = 0 /\ One(Control("exit", c), {"enter", "query"}) = 0
      BY <3>1 DEF One
    <3>4. /\ writing' \in Seq(Command) /\ toDevice' \in Seq(Command)
          /\ \A kinds : Many(writing', kinds) = Many(writing, kinds) + Many(<<Control("exit", c)>>, kinds)
      BY <1>1, <2>3, <3>2, WriteSafe
    <3>5. /\ Many(writing', {"exchange"}) = Many(writing, {"exchange"}) + 0
          /\ Many(writing', {"enter", "query"}) = Many(writing, {"enter", "query"}) + 0
      BY <3>2, <3>3, <3>4
    <3>6. jobs' = jobs /\ waiters' = waiters /\ 0 \in Nat
      BY <1>2
    <3>7. Load({"exchange"})' = Load({"exchange"}) + 0
      BY <1>1, <3>4, <3>5, <3>6, LoadStep
    <3>8. Load({"enter", "query"})' = Load({"enter", "query"}) + 0
      BY <1>1, <3>4, <3>5, <3>6, LoadStep
    <3> QED
      BY <2>1, <3>4, <3>7, <3>8
  <2> QED
    BY <1>3, <2>2, <2>3
<1>5. /\ relayQueue' \in Seq(Command) /\ Len(relayQueue') <= QueueLimit /\ Queued'
  <2>1. relayQueue \in Seq(Command) /\ Len(relayQueue) <= QueueLimit /\ QueueLimit \in Nat
    BY <1>1, BridgeAssumption DEF TypeOK
  <2>2. CASE relayQueue' = relayQueue
    BY <1>1, <2>1, <2>2 DEF Queued
  <2>3. CASE relayQueue' = <<>>
    <3>1. <<>> \in Seq(Command) /\ Len(<<>>) = 0
      OBVIOUS
    <3> QED
      BY <2>1, <2>3, <3>1 DEF Queued
  <2> QED
    BY <1>3, <2>2, <2>3
<1>6. /\ conn' \in [Client -> {"new", "open", "closed"}]
      /\ view' \in [Client -> {"idle", "starting", "active"}]
      /\ next' \in [Client -> 0 .. Requests] /\ activeClient' \in Client \cup {None}
      /\ answered' \in [Client -> Number \cup {-1}]
  <2>1. 0 \in 0 .. Requests
    BY BridgeAssumption
  <2>2. /\ conn \in [Client -> {"new", "open", "closed"}]
        /\ view \in [Client -> {"idle", "starting", "active"}]
        /\ next \in [Client -> 0 .. Requests] /\ activeClient \in Client \cup {None}
        /\ answered \in [Client -> Number \cup {-1}]
    BY <1>1 DEF TypeOK
  <2>3. CASE Stop(c)
    BY <2>2, <2>3 DEF Stop, server
  <2>4. CASE Close(c)
    BY <2>1, <2>2, <2>4 DEF Close
  <2> QED
    BY <2>3, <2>4
<1>7. TypeOK'
  BY <1>1, <1>2, <1>4, <1>5, <1>6 DEF TypeOK, usb
<1>8. InFlightExact' /\ Begun'
  BY <1>1, <1>2, <1>4 DEF InFlightExact, Begun, usb
<1> QED
  BY <1>5, <1>7, <1>8 DEF IInv

\* A client sends an exchange.
LEMMA ExchangeSafe == ASSUME IInv, NEW c \in Client, Exchange(c) PROVE IInv'
<1>1. TypeOK /\ InFlightExact /\ Queued /\ Begun
  BY DEF IInv
<1> DEFINE request == [what |-> "exchange", owner |-> c, number |-> next[c], epoch |-> epoch]
           queue == Newest(Append(relayQueue, request))
<1>2. /\ next[c] \in 0 .. Requests /\ next[c] < Requests /\ next' = [next EXCEPT ![c] = @ + 1]
      /\ UNCHANGED <<conn, view, server, usb, waiters, buffer, jobs, line, device, lost,
                     starts, overlapped, epoch, answered>>
  BY <1>1 DEF Exchange, TypeOK
<1>3. request \in Command /\ request.what = "exchange"
  <2>1. next[c] \in Number /\ epoch \in 0 .. Sessions
    BY <1>1, <1>2, BridgeAssumption DEF Number, TypeOK
  <2> QED
    BY <2>1 DEF Command
<1> HIDE DEF request
<1>4. /\ queue \in Seq(Command) /\ Len(queue) <= QueueLimit
      /\ \A i \in 1 .. Len(queue) : queue[i].what = "exchange"
  <2> DEFINE more == Append(relayQueue, request)
  <2>1. relayQueue \in Seq(Command) /\ Len(relayQueue) <= QueueLimit /\ QueueLimit \in Nat \ {0}
        /\ Len(relayQueue) \in Nat
    BY <1>1, LenProperties, BridgeAssumption DEF TypeOK
  <2>2. /\ more \in Seq(Command) /\ Len(more) = Len(relayQueue) + 1 /\ more # <<>>
        /\ \A i \in 1 .. Len(relayQueue) : more[i] = relayQueue[i]
        /\ more[Len(relayQueue) + 1] = request
    BY <1>3, <2>1, AppendProperties
  <2> HIDE DEF more
  <2>3. \A i \in 1 .. Len(more) : more[i].what = "exchange"
    <3>1. ASSUME NEW i \in 1 .. Len(more) PROVE more[i].what = "exchange"
      <4>1. i \in 1 .. Len(relayQueue) \/ i = Len(relayQueue) + 1
        BY <2>1, <2>2
      <4> QED
        BY <1>1, <1>3, <2>2, <4>1 DEF Queued
    <3> QED
      BY <3>1
  <2>4. /\ Tail(more) \in Seq(Command) /\ Len(Tail(more)) = Len(more) - 1
        /\ \A i \in 1 .. Len(Tail(more)) : Tail(more)[i] = more[i + 1]
    BY <2>2, HeadTailProperties
  <2>5. CASE Len(more) > QueueLimit
    <3>1. queue = Tail(more)
      BY <2>5 DEF Newest, more
    <3>2. Len(Tail(more)) <= QueueLimit
      BY <2>1, <2>2, <2>4
    <3>3. \A i \in 1 .. Len(Tail(more)) : i + 1 \in 1 .. Len(more)
      BY <2>1, <2>2, <2>4
    <3>4. \A i \in 1 .. Len(Tail(more)) : Tail(more)[i].what = "exchange"
      BY <2>3, <2>4, <3>3
    <3> QED
      BY <2>4, <3>1, <3>2, <3>4
  <2>6. CASE ~(Len(more) > QueueLimit)
    <3>1. queue = more
      BY <2>6 DEF Newest, more
    <3> QED
      BY <2>1, <2>2, <2>3, <2>6, <3>1
  <2> QED
    BY <2>5, <2>6
<1> HIDE DEF queue
<1>5. /\ relayQueue' \in Seq(Command) /\ Len(relayQueue') <= QueueLimit /\ Queued'
      /\ usbInFlight' \in 0 .. Depth
      /\ writing' \in Seq(Command) /\ toDevice' \in Seq(Command)
      /\ InFlightExact' /\ Load({"enter", "query"})' = Load({"enter", "query"})
  <2>1. usbInFlight \in 0 .. Depth /\ jobs' = jobs /\ waiters' = waiters /\ usbInFlight \in Nat
        /\ Load({"exchange"}) \in Nat /\ Load({"enter", "query"}) \in Nat
    BY <1>1, <1>2, Facts, BridgeAssumption DEF TypeOK
  <2>2. CASE sessionActive
    <3>1. Drain(queue, usbInFlight)
      BY <2>2 DEF Exchange, queue, request
    <3>2. /\ relayQueue' \in Seq(Command) /\ Len(relayQueue') <= QueueLimit /\ Queued'
          /\ usbInFlight' \in 0 .. Depth
          /\ writing' \in Seq(Command) /\ toDevice' \in Seq(Command)
          /\ Many(writing', {"enter", "query"}) = Many(writing, {"enter", "query"}) + 0
      BY <1>1, <1>4, <2>1, <3>1, DrainSafe
    <3>3. PICK n \in Nat : /\ usbInFlight' = usbInFlight + n
                           /\ Many(writing', {"exchange"}) = Many(writing, {"exchange"}) + n
      BY <1>1, <1>4, <2>1, <3>1, DrainSafe
    <3>4. Load({"exchange"})' = Load({"exchange"}) + n
      BY <1>1, <2>1, <3>2, <3>3, LoadStep
    <3>5. Load({"enter", "query"})' = Load({"enter", "query"}) + 0
      <4>1. 0 \in Nat
        OBVIOUS
      <4> QED
        BY <1>1, <2>1, <3>2, <4>1, LoadStep
    <3>6. InFlightExact'
      BY <1>1, <3>3, <3>4 DEF InFlightExact
    <3> QED
      BY <2>1, <3>2, <3>5, <3>6
  <2>3. CASE ~sessionActive
    <3>1. UNCHANGED <<relay, writing, toDevice>>
      BY <2>3 DEF Exchange
    <3>2. ASSUME NEW kinds PROVE Load(kinds)' = Load(kinds)
      BY <2>1, <3>1 DEF Load
    <3> QED
      BY <1>1, <2>1, <3>1, <3>2 DEF TypeOK, Queued, InFlightExact, relay
  <2> QED
    BY <2>2, <2>3
<1>6. next' \in [Client -> 0 .. Requests]
  <2>1. next \in [Client -> 0 .. Requests] /\ next[c] + 1 \in 0 .. Requests
    BY <1>1, <1>2, BridgeAssumption DEF TypeOK
  <2> QED
    BY <1>2, <2>1
<1>7. TypeOK'
  BY <1>1, <1>2, <1>5, <1>6 DEF TypeOK, server, usb
<1>8. Begun'
  BY <1>1, <1>2, <1>5 DEF Begun, usb
<1> QED
  BY <1>5, <1>7, <1>8 DEF IInv

\* The commands whose handler goes on, by their kind.
LEMMA RunLoads ==
  ASSUME TypeOK, jobs # <<>>, jobs' = Tail(jobs), waiters' = waiters, writing' \in Seq(Command),
         NEW m \in Nat, NEW n \in Nat,
         Many(writing', {"exchange"}) = Many(writing, {"exchange"}) + m,
         Many(writing', {"enter", "query"}) = Many(writing, {"enter", "query"}) + n
  PROVE  LET x == IF Head(jobs).of.what = "exchange" THEN 1 ELSE 0
             s == IF Head(jobs).of.what \in {"enter", "query"} THEN 1 ELSE 0
         IN  /\ Load({"exchange"})' + x = Load({"exchange"}) + m
             /\ x <= Load({"exchange"})
             /\ Load({"enter", "query"})' + s = Load({"enter", "query"}) + n
             /\ s <= Load({"enter", "query"})
             /\ Load({"exchange"})' \in Nat /\ Load({"enter", "query"})' \in Nat
<1>1. /\ One(Head(jobs).of, {"exchange"}) = IF Head(jobs).of.what = "exchange" THEN 1 ELSE 0
      /\ One(Head(jobs).of, {"enter", "query"}) = IF Head(jobs).of.what \in {"enter", "query"} THEN 1 ELSE 0
  BY DEF One
<1>2. jobs' \in Seq(Job)
  BY OfTail DEF TypeOK
<1>3. /\ Load({"exchange"})' + One(Head(jobs).of, {"exchange"}) = Load({"exchange"}) + m
      /\ One(Head(jobs).of, {"exchange"}) <= Load({"exchange"}) /\ Load({"exchange"})' \in Nat
  BY <1>2, LoadStep
<1>4. /\ Load({"enter", "query"})' + One(Head(jobs).of, {"enter", "query"}) = Load({"enter", "query"}) + n
      /\ One(Head(jobs).of, {"enter", "query"}) <= Load({"enter", "query"})
      /\ Load({"enter", "query"})' \in Nat
  BY <1>2, LoadStep
<1> QED
  BY <1>1, <1>3, <1>4

\* The arithmetic of a step that turns a start into a session, or into a query.
LEMMA StepSums ==
  ASSUME NEW x \in Nat, NEW y \in Nat, NEW x1 \in Nat, NEW y1 \in Nat, NEW s \in Nat,
         NEW p \in Nat, NEW m \in Nat, NEW o \in Nat, NEW e \in Nat, NEW limit \in Nat,
         NEW max \in Nat,
         x1 + 0 = x + 0, y1 + s = y + m, m + o <= s, p + e + y <= limit, limit <= max
  PROVE  x1 = x /\ p + (e + o) + y1 <= limit /\ e + o \in 0 .. max
<1>1. o + y1 <= y
  OBVIOUS
<1>2. p + (e + o) + y1 <= limit
  BY <1>1
<1> QED
  BY <1>2

\* The promise settled first goes on.
LEMMA RunSafe == IInv /\ Run => IInv'
<1> SUFFICES ASSUME IInv, Run PROVE IInv'
  OBVIOUS
<1> DEFINE job == Head(jobs)
           x == Load({"exchange"})
           y == Load({"enter", "query"})
           x1 == Load({"exchange"})'
           y1 == Load({"enter", "query"})'
<1>1. TypeOK /\ InFlightExact /\ Queued /\ Begun
  BY DEF IInv
<1>2. /\ jobs # <<>> /\ jobs' = Tail(jobs)
      /\ UNCHANGED <<waiters, line, device, lost, starts, overlapped>>
      /\ Relayed(job) \/ Entered(job) \/ Started(job) \/ Stopped(job)
  BY DEF Run
<1>3. /\ job.of \in Command /\ job.reply \in Reply /\ jobs' \in Seq(Job)
      /\ job.of.owner \in Client /\ job.reply.of \in Command
  <2>1. job.of \in Command /\ job.reply \in Reply /\ Tail(jobs) \in Seq(Job)
    BY <1>1, <1>2, OfTail DEF TypeOK
  <2> HIDE DEF job
  <2> QED
    BY <1>2, <2>1 DEF Command, Reply
<1> HIDE DEF job
<1>4. /\ writing \in Seq(Command) /\ toDevice \in Seq(Command) /\ buffer \in Seq(Reply)
      /\ relayQueue \in Seq(Command) /\ Len(relayQueue) <= QueueLimit
      /\ usbInFlight \in 0 .. Depth /\ usbInFlight = x
      /\ epoch \in 0 .. Sessions /\ starts \in 0 .. Sessions /\ opening \in Client \cup {None}
      /\ (IF opening = None THEN 0 ELSE 1) + epoch + y <= starts
      /\ x \in Nat /\ y \in Nat /\ 0 \in Nat /\ 1 \in Nat
      /\ Sessions \in Nat /\ Depth \in Nat
  BY <1>1, Facts, BridgeAssumption DEF TypeOK, InFlightExact, Begun
<1>5. CASE Relayed(job)
  <2>1. /\ job.of.what = "exchange" /\ Drain(relayQueue, usbInFlight - 1)
        /\ UNCHANGED <<client, server, usb, buffer, epoch>>
    BY <1>5 DEF Relayed
  <2>2. x # 0 /\ usbInFlight - 1 \in 0 .. Depth
    <3>1. Many(Of(jobs), {"exchange"}) = One(job.of, {"exchange"}) + Many(Of(Tail(jobs)), {"exchange"})
          /\ Tail(jobs) \in Seq(Job)
      BY <1>1, <1>2, OfTail DEF TypeOK, job
    <3>2. One(job.of, {"exchange"}) = 1
      BY <2>1 DEF One
    <3>3. /\ Many(Of(Tail(jobs)), {"exchange"}) \in Nat /\ Many(writing, {"exchange"}) \in Nat
          /\ Many(waiters, {"exchange"}) \in Nat
      BY <1>1, <3>1, Facts, OfFacts, PlacesFinite
    <3>4. x # 0
      BY <3>1, <3>2, <3>3 DEF Load
    <3> HIDE DEF x
    <3> QED
      BY <1>4, <3>4
  <2>3. /\ relayQueue' \in Seq(Command) /\ Len(relayQueue') <= QueueLimit /\ Queued'
        /\ usbInFlight' \in 0 .. Depth
        /\ writing' \in Seq(Command) /\ toDevice' \in Seq(Command)
        /\ Many(writing', {"enter", "query"}) = Many(writing, {"enter", "query"}) + 0
    BY <1>1, <1>4, <2>1, <2>2, DrainSafe DEF Queued
  <2>4. PICK n \in Nat : /\ usbInFlight' = (usbInFlight - 1) + n
                         /\ Many(writing', {"exchange"}) = Many(writing, {"exchange"}) + n
    BY <1>1, <1>4, <2>1, <2>2, DrainSafe DEF Queued
  <2>5. x1 + 1 = x + n /\ y1 + 0 = y + 0 /\ x1 \in Nat /\ y1 \in Nat
    BY <1>1, <1>2, <1>4, <2>1, <2>3, <2>4, RunLoads DEF job
  <2>6. usbInFlight' = x1 /\ y1 = y
    <3> HIDE DEF x, y, x1, y1
    <3> QED
      BY <1>4, <2>4, <2>5
  <2>7. answered' \in [Client -> Number \cup {-1}]
    <3>1. IsAnswer(job.reply) => job.reply.of.number \in Number \cup {-1}
      BY <1>3 DEF Command
    <3>2. answered \in [Client -> Number \cup {-1}]
      BY <1>1 DEF TypeOK
    <3> QED
      BY <1>5, <3>1, <3>2 DEF Relayed
  <2>8. TypeOK'
    BY <1>1, <1>2, <1>3, <1>4, <2>1, <2>3, <2>7 DEF TypeOK, client, server, usb
  <2>9. InFlightExact' /\ Begun'
    BY <1>1, <1>2, <2>1, <2>6 DEF InFlightExact, Begun, usb
  <2> QED
    BY <2>3, <2>8, <2>9 DEF IInv
<1>6. ASSUME ~Relayed(job), UNCHANGED <<conn, activeClient, relay, usb>>,
             NEW m \in Nat, NEW o \in Nat, writing' \in Seq(Command), toDevice' \in Seq(Command),
             buffer' \in Seq(Reply), epoch' = epoch + o,
             job.of.what # "exchange",
             Many(writing', {"exchange"}) = Many(writing, {"exchange"}) + 0,
             Many(writing', {"enter", "query"}) = Many(writing, {"enter", "query"}) + m,
             m + o <= IF job.of.what \in {"enter", "query"} THEN 1 ELSE 0,
             view' \in [Client -> {"idle", "starting", "active"}],
             next' \in [Client -> 0 .. Requests], answered' \in [Client -> Number \cup {-1}],
             sessionActive' \in BOOLEAN, lastModuleKind' \in BOOLEAN
      PROVE  IInv'
  <2> DEFINE s == IF job.of.what \in {"enter", "query"} THEN 1 ELSE 0
             p == IF opening = None THEN 0 ELSE 1
  <2>1. x1 + 0 = x + 0 /\ x1 \in Nat /\ y1 + s = y + m /\ s <= y /\ y1 \in Nat /\ s \in Nat
    BY <1>1, <1>2, <1>4, <1>6, RunLoads DEF job
  <2>2. m + o <= s /\ p \in Nat /\ p + epoch + y <= starts /\ epoch \in Nat /\ starts \in Nat
        /\ starts <= Sessions
    BY <1>4, <1>6
  <2>3. x1 = x /\ p + (epoch + o) + y1 <= starts /\ epoch + o \in 0 .. Sessions
    <3>1. /\ x \in Nat /\ y \in Nat /\ x1 \in Nat /\ y1 \in Nat /\ s \in Nat /\ p \in Nat
          /\ epoch \in Nat /\ starts \in Nat /\ Sessions \in Nat
      BY <1>4, <2>1, <2>2
    <3> HIDE DEF x, y, x1, y1, s, p
    <3>2. /\ x1 + 0 = x + 0 /\ y1 + s = y + m
          /\ m + o <= s /\ p + epoch + y <= starts /\ starts <= Sessions
      BY <2>1, <2>2
    <3>3. x1 = x /\ p + (epoch + o) + y1 <= starts /\ epoch + o \in 0 .. Sessions
      BY <3>1, <3>2, StepSums
    <3> QED
      BY <3>3
  <2>4. TypeOK'
    BY <1>1, <1>2, <1>3, <1>4, <1>6, <2>3 DEF TypeOK, relay, usb
  <2>5. InFlightExact' /\ Queued' /\ Begun'
    BY <1>1, <1>2, <1>6, <2>3 DEF InFlightExact, Queued, Begun, relay, usb
  <2> QED
    BY <2>4, <2>5 DEF IInv
<1>7. ASSUME NoWrite
      PROVE  /\ writing' \in Seq(Command) /\ toDevice' \in Seq(Command)
             /\ Many(writing', {"exchange"}) = Many(writing, {"exchange"}) + 0
             /\ Many(writing', {"enter", "query"}) = Many(writing, {"enter", "query"}) + 0
  <2>1. writing' = writing /\ toDevice' = toDevice
    BY <1>7 DEF NoWrite
  <2>2. Many(writing, {"exchange"}) \in Nat /\ Many(writing, {"enter", "query"}) \in Nat
    BY <1>1, Facts
  <2> QED
    BY <1>4, <2>1, <2>2
<1>8. CASE Entered(job)
  <2>1. /\ job.of.what = "enter" /\ UNCHANGED <<client, server, relay, usb, buffer, epoch, answered>>
        /\ NoWrite \/ Write(<<[job.of EXCEPT !.what = "query"]>>)
    BY <1>8 DEF Entered
  <2>2. PICK m \in {0, 1} :
          /\ writing' \in Seq(Command) /\ toDevice' \in Seq(Command)
          /\ Many(writing', {"exchange"}) = Many(writing, {"exchange"}) + 0
          /\ Many(writing', {"enter", "query"}) = Many(writing, {"enter", "query"}) + m
    <3>1. CASE NoWrite
      BY <1>7, <3>1
    <3>2. CASE Write(<<[job.of EXCEPT !.what = "query"]>>)
      <4> DEFINE q == [job.of EXCEPT !.what = "query"]
      <4>1. q \in Command /\ q.what = "query"
        BY <1>3 DEF Command
      <4> HIDE DEF q
      <4>2. <<q>> \in Seq(Command) /\ \A kinds : Many(<<q>>, kinds) = One(q, kinds)
        BY <4>1, ManyOne
      <4>3. One(q, {"exchange"}) = 0 /\ One(q, {"enter", "query"}) = 1
        BY <4>1 DEF One
      <4>4. /\ writing' \in Seq(Command) /\ toDevice' \in Seq(Command)
            /\ \A kinds : Many(writing', kinds) = Many(writing, kinds) + Many(<<q>>, kinds)
        BY <1>1, <3>2, <4>2, WriteSafe DEF q
      <4>5. /\ Many(writing', {"exchange"}) = Many(writing, {"exchange"}) + 0
            /\ Many(writing', {"enter", "query"}) = Many(writing, {"enter", "query"}) + 1
        BY <4>2, <4>3, <4>4
      <4> QED
        BY <4>4, <4>5
    <3> QED
      BY <2>1, <3>1, <3>2
  <2>3. /\ ~Relayed(job) /\ m \in Nat /\ epoch' = epoch + 0 /\ buffer' \in Seq(Reply)
        /\ m + 0 <= IF job.of.what \in {"enter", "query"} THEN 1 ELSE 0
    BY <1>4, <2>1 DEF Relayed
  <2>4. /\ view' \in [Client -> {"idle", "starting", "active"}] /\ next' \in [Client -> 0 .. Requests]
        /\ answered' \in [Client -> Number \cup {-1}] /\ sessionActive' \in BOOLEAN /\ lastModuleKind' \in BOOLEAN
        /\ UNCHANGED <<conn, activeClient, relay, usb>>
    BY <1>1, <2>1 DEF TypeOK, client, server
  <2> QED
    BY <1>4, <1>6, <2>1, <2>2, <2>3, <2>4
<1>9. CASE Started(job)
  <2>1. /\ job.of.what = "query" /\ NoWrite /\ sessionActive' = TRUE
        /\ UNCHANGED <<conn, activeClient, relay, usb, buffer>>
    BY <1>9 DEF Started
  <2>2. lastModuleKind' \in BOOLEAN
    BY <1>1, <1>9 DEF Started, TypeOK
  <2>3. /\ view' \in [Client -> {"idle", "starting", "active"}] /\ next' \in [Client -> 0 .. Requests]
        /\ answered' \in [Client -> Number \cup {-1}]
    <3>1. 0 \in 0 .. Requests
      BY BridgeAssumption
    <3>2. /\ view \in [Client -> {"idle", "starting", "active"}] /\ next \in [Client -> 0 .. Requests]
          /\ answered \in [Client -> Number \cup {-1}]
      BY <1>1 DEF TypeOK
    <3> QED
      BY <1>9, <3>1, <3>2 DEF Started
  <2>4. PICK o \in {0, 1} : epoch' = epoch + o
    BY <1>4, <1>9 DEF Started
  <2>5. /\ ~Relayed(job) /\ o \in Nat /\ buffer' \in Seq(Reply)
        /\ 0 + o <= IF job.of.what \in {"enter", "query"} THEN 1 ELSE 0
    BY <1>4, <2>1 DEF Relayed
  <2> QED
    BY <1>4, <1>6, <1>7, <2>1, <2>2, <2>3, <2>4, <2>5
<1>10. CASE Stopped(job)
  <2>1. /\ job.of.what = "exit" /\ NoWrite /\ sessionActive' \in BOOLEAN /\ lastModuleKind' \in BOOLEAN
        /\ UNCHANGED <<conn, next, activeClient, relay, usb, epoch, answered>>
        /\ view' = [view EXCEPT ![job.of.owner] = "idle"]
        /\ buffer' \in {<<>>, buffer}
    BY <1>10 DEF Stopped
  <2>2. /\ view' \in [Client -> {"idle", "starting", "active"}] /\ next' \in [Client -> 0 .. Requests]
        /\ answered' \in [Client -> Number \cup {-1}] /\ buffer' \in Seq(Reply)
    <3>1. /\ view \in [Client -> {"idle", "starting", "active"}] /\ next \in [Client -> 0 .. Requests]
          /\ answered \in [Client -> Number \cup {-1}] /\ buffer \in Seq(Reply) /\ <<>> \in Seq(Reply)
      BY <1>1 DEF TypeOK
    <3> QED
      BY <2>1, <3>1
  <2>3. /\ ~Relayed(job) /\ epoch' = epoch + 0
        /\ 0 + 0 <= IF job.of.what \in {"enter", "query"} THEN 1 ELSE 0
    BY <1>4, <2>1 DEF Relayed
  <2> QED
    BY <1>4, <1>6, <1>7, <2>1, <2>2, <2>3
<1> QED
  BY <1>2, <1>5, <1>8, <1>9, <1>10

-----------------------------------------------------------------------------
(***************************************************************************)
(* The theorems.                                                           *)
(***************************************************************************)
\* Every step keeps the invariant.
LEMMA NextSafe == IInv /\ [Next]_vars => IInv'
<1> SUFFICES ASSUME IInv, [Next]_vars PROVE IInv'
  OBVIOUS
<1>1. CASE Next
  <2>1. CASE Drained \/ Arrive \/ Expire \/ Opened \/ Run
    BY <2>1, DrainedSafe, ArriveSafe, ExpireSafe, OpenedSafe, RunSafe
  <2>2. CASE Device \/ Lose \/ \E c \in Client : Connect(c)
    BY <2>2, OthersSafe
  <2>3. ASSUME NEW c \in Client, Start(c) \/ Exchange(c) \/ Stop(c) \/ Close(c) PROVE IInv'
    BY <2>3, StartSafe, ExchangeSafe, EndSafe
  <2> QED
    BY <1>1, <2>1, <2>2, <2>3 DEF Next
<1>2. CASE UNCHANGED vars
  <2>1. UNCHANGED <<client, server, relay, usb, writing, toDevice, device, lost,
                    starts, overlapped, epoch, answered, jobs, waiters, buffer, line>>
    BY <1>2 DEF vars, wire
  <2>2. jobs' \in Seq(Job) /\ waiters' \in Seq(Command) /\ buffer' \in Seq(Reply) /\ line' \in Seq(Reply)
    BY <2>1 DEF IInv, TypeOK
  <2>3. ASSUME NEW kinds
        PROVE  Many(waiters', kinds) + Many(Of(jobs'), kinds) = Many(waiters, kinds) + Many(Of(jobs), kinds)
    BY <2>1
  <2> QED
    BY <2>1, <2>2, <2>3, Moved
<1> QED
  BY <1>1, <1>2

\* The invariant holds in every state.
LEMMA Inductive == Spec => []IInv
<1> QED
  BY InitSafe, NextSafe, PTL DEF Spec

\* The server's variables keep their types and limits: the pipeline and the relay queue
\* never grow over theirs, and no session begins that nobody asked for.
THEOREM TypeCorrect == Spec => []TypeOK
<1>1. IInv => TypeOK
  BY DEF IInv
<1> QED
  BY <1>1, Inductive, PTL

\* usbInFlight is exact: no place in the pipeline is lost or gained, whatever is lost, late,
\* given to the wrong waiter or left over from an ended session.
THEOREM CountIsExact == Spec => []InFlightExact
<1>1. IInv => InFlightExact
  BY DEF IInv
<1> QED
  BY <1>1, Inductive, PTL

-----------------------------------------------------------------------------
(***************************************************************************)
(* The sessions: when no two starts overlap, the relay queue never keeps a *)
(* request that nobody sends, and what is sent belongs to the session of   *)
(* its client.                                                             *)
(***************************************************************************)

(***************************************************************************)
(* Sequences of commands.                                                  *)
(***************************************************************************)
Begins == {"enter", "query"}
Without(s, kinds) == \A i \in 1 .. Len(s) : s[i].what \notin kinds
\* The command of a start comes at the very end.
OnlyLast(s) == \A i \in 1 .. Len(s) : s[i].what \in Begins => i = Len(s)

Regrouped(a, b, c) == (a \o b) \o c = a \o (b \o c)

\* Three parts, put together in either order.
LEMMA Regroup == \A a, b, c \in Seq(Command) : Regrouped(a, b, c)
BY ConcatAssociative DEF Regrouped

\* The same, with the types.
LEMMA Three ==
  ASSUME NEW a \in Seq(Command), NEW b \in Seq(Command), NEW c \in Seq(Command)
  PROVE  /\ (a \o b) \o c = a \o (b \o c)
         /\ a \o b \in Seq(Command) /\ b \o c \in Seq(Command) /\ a \o (b \o c) \in Seq(Command)
<1>1. (a \o b) \o c = a \o (b \o c)
  BY ConcatAssociative
<1>2. a \o b \in Seq(Command) /\ b \o c \in Seq(Command)
  BY ConcatProperties
<1>3. a \o (b \o c) \in Seq(Command)
  BY <1>2, ConcatProperties
<1> QED
  BY <1>1, <1>2, <1>3

\* The places of a concatenation.
LEMMA Split ==
  ASSUME NEW s \in Seq(Command), NEW t \in Seq(Command)
  PROVE  /\ s \o t \in Seq(Command) /\ Len(s \o t) = Len(s) + Len(t)
         /\ Len(s) \in Nat /\ Len(t) \in Nat
         /\ \A i \in 1 .. Len(s) : i \in 1 .. Len(s \o t) /\ (s \o t)[i] = s[i]
         /\ \A i \in 1 .. Len(t) : Len(s) + i \in 1 .. Len(s \o t) /\ (s \o t)[Len(s) + i] = t[i]
         /\ \A i \in 1 .. Len(s \o t) : i \in 1 .. Len(s) \/ \E j \in 1 .. Len(t) : i = Len(s) + j
<1>1. Len(s) \in Nat /\ Len(t) \in Nat
  BY LenProperties
<1>2. /\ s \o t \in Seq(Command) /\ Len(s \o t) = Len(s) + Len(t)
      /\ \A i \in 1 .. Len(s) + Len(t) : (s \o t)[i] = IF i <= Len(s) THEN s[i] ELSE t[i - Len(s)]
  BY ConcatProperties
<1>3. ASSUME NEW i \in 1 .. Len(s) PROVE i \in 1 .. Len(s \o t) /\ (s \o t)[i] = s[i]
  BY <1>1, <1>2
<1>4. ASSUME NEW i \in 1 .. Len(t)
      PROVE  Len(s) + i \in 1 .. Len(s \o t) /\ (s \o t)[Len(s) + i] = t[i]
  <2>1. Len(s) + i \in 1 .. Len(s) + Len(t) /\ ~(Len(s) + i <= Len(s)) /\ Len(s) + i - Len(s) = i
    BY <1>1
  <2> QED
    BY <1>2, <2>1
<1>5. ASSUME NEW i \in 1 .. Len(s \o t), i \notin 1 .. Len(s)
      PROVE  \E j \in 1 .. Len(t) : i = Len(s) + j
  <2>1. i - Len(s) \in 1 .. Len(t) /\ i = Len(s) + (i - Len(s))
    BY <1>1, <1>2, <1>5
  <2> QED
    BY <2>1
<1> QED
  BY <1>1, <1>2, <1>3, <1>4, <1>5

\* A concatenation is without some kinds if both of its parts are.
LEMMA WithoutConcat ==
  ASSUME NEW s \in Seq(Command), NEW t \in Seq(Command), NEW kinds
  PROVE  Without(s \o t, kinds) <=> Without(s, kinds) /\ Without(t, kinds)
<1>1. ASSUME Without(s \o t, kinds) PROVE Without(s, kinds) /\ Without(t, kinds)
  BY <1>1, Split DEF Without
<1>2. ASSUME Without(s, kinds), Without(t, kinds), NEW i \in 1 .. Len(s \o t)
      PROVE  (s \o t)[i].what \notin kinds
  <2>1. CASE i \in 1 .. Len(s)
    BY <1>2, <2>1, Split DEF Without
  <2>2. CASE \E j \in 1 .. Len(t) : i = Len(s) + j
    BY <1>2, <2>2, Split DEF Without
  <2> QED
    BY <2>1, <2>2, Split
<1> QED
  BY <1>1, <1>2 DEF Without

\* One command, and none.
LEMMA WithoutOne ==
  ASSUME NEW c \in Command, NEW kinds
  PROVE  /\ <<c>> \in Seq(Command) /\ <<>> \in Seq(Command)
         /\ Without(<<c>>, kinds) <=> c.what \notin kinds
         /\ Without(<<>>, kinds) /\ OnlyLast(<<c>>) /\ OnlyLast(<<>>)
<1>1. /\ <<c>> \in Seq(Command) /\ <<>> \in Seq(Command)
      /\ Len(<<c>>) = 1 /\ <<c>>[1] = c /\ Len(<<>>) = 0
  OBVIOUS
<1> QED
  BY <1>1 DEF Without, OnlyLast

\* A start may come behind commands that are none.
LEMMA LastConcat ==
  ASSUME NEW s \in Seq(Command), NEW t \in Seq(Command), Without(s, Begins), OnlyLast(t)
  PROVE  OnlyLast(s \o t)
<1> SUFFICES ASSUME NEW i \in 1 .. Len(s \o t), (s \o t)[i].what \in Begins
             PROVE  i = Len(s \o t)
  BY DEF OnlyLast
<1>1. i \notin 1 .. Len(s)
  BY Split DEF Without
<1>2. PICK j \in 1 .. Len(t) : i = Len(s) + j
  BY <1>1, Split
<1>3. t[j].what \in Begins
  BY <1>2, Split
<1>4. j = Len(t)
  BY <1>3 DEF OnlyLast
<1>5. Len(s \o t) = Len(s) + Len(t)
  BY Split
<1> QED
  BY <1>2, <1>4, <1>5

\* What comes behind the first command, and what follows when that is a start.
LEMMA LastTail ==
  ASSUME NEW c \in Command, NEW t \in Seq(Command), OnlyLast(<<c>> \o t)
  PROVE  OnlyLast(t) /\ (c.what \in Begins => t = <<>>)
<1>1. /\ <<c>> \in Seq(Command) /\ Len(<<c>>) = 1 /\ <<c>>[1] = c
      /\ Len(t) \in Nat
  BY LenProperties
<1>2. /\ Len(<<c>> \o t) = 1 + Len(t) /\ (<<c>> \o t)[1] = c /\ 1 \in 1 .. Len(<<c>> \o t)
      /\ \A i \in 1 .. Len(t) : 1 + i \in 1 .. Len(<<c>> \o t) /\ (<<c>> \o t)[1 + i] = t[i]
  BY <1>1, Split
<1>3. ASSUME NEW i \in 1 .. Len(t), t[i].what \in Begins PROVE i = Len(t)
  <2>1. 1 + i = Len(<<c>> \o t)
    BY <1>2, <1>3 DEF OnlyLast
  <2> QED
    BY <1>1, <1>2, <2>1
<1>4. ASSUME c.what \in Begins PROVE t = <<>>
  <2>1. 1 = Len(<<c>> \o t)
    BY <1>2, <1>4 DEF OnlyLast
  <2>2. Len(t) = 0
    BY <1>1, <1>2, <2>1
  <2> QED
    BY <2>2, EmptySeq
<1> QED
  BY <1>3, <1>4 DEF OnlyLast

\* A sequence is its head and its tail.
LEMMA HeadAndTail ==
  ASSUME NEW s \in Seq(Command), s # <<>>
  PROVE  Head(s) \in Command /\ Tail(s) \in Seq(Command) /\ s = <<Head(s)>> \o Tail(s)
<1>1. /\ Head(s) \in Command /\ Tail(s) \in Seq(Command) /\ Len(Tail(s)) = Len(s) - 1
      /\ \A i \in 1 .. Len(Tail(s)) : Tail(s)[i] = s[i + 1]
      /\ Len(s) \in Nat \ {0} /\ Head(s) = s[1]
  BY HeadTailProperties, EmptySeq
<1> DEFINE h == <<Head(s)>>
           t == Tail(s)
<1>2. h \in Seq(Command) /\ Len(h) = 1 /\ h[1] = s[1]
  BY <1>1
<1>3. t \in Seq(Command) /\ Len(t) = Len(s) - 1 /\ \A i \in 1 .. Len(t) : t[i] = s[i + 1]
  BY <1>1
<1> HIDE DEF h, t
<1>4. /\ h \o t \in Seq(Command) /\ Len(h \o t) = 1 + Len(t)
      /\ \A i \in 1 .. 1 : (h \o t)[i] = h[i]
      /\ \A i \in 1 .. Len(t) : (h \o t)[1 + i] = t[i]
      /\ \A i \in 1 .. Len(h \o t) : i \in 1 .. 1 \/ \E j \in 1 .. Len(t) : i = 1 + j
  <2>1. h \in Seq(Command) /\ t \in Seq(Command)
    BY <1>2, <1>3
  <2>2. /\ h \o t \in Seq(Command) /\ Len(h \o t) = Len(h) + Len(t)
        /\ \A i \in 1 .. Len(h) : (h \o t)[i] = h[i]
        /\ \A i \in 1 .. Len(t) : (h \o t)[Len(h) + i] = t[i]
        /\ \A i \in 1 .. Len(h \o t) : i \in 1 .. Len(h) \/ \E j \in 1 .. Len(t) : i = Len(h) + j
    BY <2>1, Split
  <2> QED
    BY <1>2, <2>2
<1>5. ASSUME NEW i \in 1 .. Len(s) PROVE (h \o t)[i] = s[i]
  <2>1. CASE i \in 1 .. 1
    BY <1>2, <1>4, <2>1
  <2>2. CASE \E j \in 1 .. Len(t) : i = 1 + j
    <3>1. PICK j \in 1 .. Len(t) : i = 1 + j
      BY <2>2
    <3>2. (h \o t)[1 + j] = s[j + 1] /\ 1 + j = j + 1
      BY <1>1, <1>3, <1>4, <3>1
    <3> QED
      BY <3>1, <3>2
  <2> QED
    BY <1>1, <1>3, <1>4, <2>1, <2>2
<1>6. Len(h \o t) = Len(s)
  BY <1>1, <1>3, <1>4
<1>7. h \o t = s
  BY <1>4, <1>5, <1>6, SeqEqual
<1> QED
  BY <1>1, <1>7 DEF h, t

-----------------------------------------------------------------------------
(***************************************************************************)
(* The commands that handlers wait for, in the order they will go on: those *)
(* of the jobs, of the waiters and of the writes.  The line moves commands *)
(* from one to the next and leaves the whole as it is.                     *)
(***************************************************************************)
Join(js, ws, wr) == Of(js) \o ws \o wr
Awaited == Join(jobs, waiters, writing)

\* What is awaited is a sequence of commands.
LEMMA JoinType ==
  ASSUME NEW js \in Seq(Job), NEW ws \in Seq(Command), NEW wr \in Seq(Command)
  PROVE  Join(js, ws, wr) \in Seq(Command)
BY OfFacts, ConcatProperties DEF Join

\* No job.
LEMMA OfNone == Of(<<>>) = <<>>
BY DEF Of

\* A write adds its commands at the end.
LEMMA JoinWrite ==
  ASSUME NEW js \in Seq(Job), NEW ws \in Seq(Command), NEW wr \in Seq(Command),
         NEW commands \in Seq(Command)
  PROVE  Join(js, ws, wr \o commands) = Join(js, ws, wr) \o commands
<1> DEFINE front == Of(js) \o ws
<1>1. front \in Seq(Command)
  BY OfFacts, ConcatProperties
<1> HIDE DEF front
<1>2. front \in Seq(Command) /\ wr \in Seq(Command) /\ commands \in Seq(Command)
  BY <1>1
<1>3. (front \o wr) \o commands = front \o (wr \o commands)
  BY <1>2, Three
<1> QED
  BY <1>3 DEF Join, front

\* The first job takes the first command.
LEMMA JoinTail ==
  ASSUME NEW js \in Seq(Job), NEW ws \in Seq(Command), NEW wr \in Seq(Command), js # <<>>
  PROVE  /\ Head(js).of \in Command /\ Tail(js) \in Seq(Job)
         /\ Join(js, ws, wr) = <<Head(js).of>> \o Join(Tail(js), ws, wr)
<1> DEFINE h == Head(js).of
           a == Of(Tail(js))
<1>1. h \in Command /\ Tail(js) \in Seq(Job)
  BY OfTail
<1>2. a \in Seq(Command) /\ <<h>> \in Seq(Command)
  BY <1>1, OfFacts, WithoutOne
<1>3. Of(js) = <<h>> \o a
  <2>1. /\ Tail(js) \in Seq(Job) /\ Len(Tail(js)) = Len(js) - 1
        /\ \A i \in 1 .. Len(Tail(js)) : Tail(js)[i] = js[i + 1]
        /\ Len(js) \in Nat \ {0} /\ Head(js) = js[1]
    BY HeadTailProperties, EmptySeq
  <2>2. /\ Of(js) \in Seq(Command) /\ Len(Of(js)) = Len(js)
        /\ \A i \in 1 .. Len(js) : Of(js)[i] = js[i].of
    BY OfFacts
  <2>3. /\ a \in Seq(Command) /\ Len(a) = Len(js) - 1
        /\ \A i \in 1 .. Len(js) - 1 : a[i] = js[i + 1].of
    <3> DEFINE rest == Tail(js)
    <3>1. /\ rest \in Seq(Job) /\ Len(rest) = Len(js) - 1 /\ Len(js) \in Nat
          /\ \A i \in 1 .. Len(rest) : rest[i] = js[i + 1]
      BY <2>1
    <3> HIDE DEF rest
    <3>2. /\ Of(rest) \in Seq(Command) /\ Len(Of(rest)) = Len(rest)
          /\ \A i \in 1 .. Len(rest) : Of(rest)[i] = rest[i].of
      BY <3>1, OfFacts
    <3>3. /\ Of(rest) \in Seq(Command) /\ Len(Of(rest)) = Len(js) - 1
          /\ \A i \in 1 .. Len(js) - 1 : Of(rest)[i] = js[i + 1].of
      BY <3>1, <3>2
    <3> QED
      BY <3>3 DEF rest, a
  <2>4. Of(js) # <<>> /\ Head(Of(js)) = h
    BY <2>1, <2>2
  <2>5. /\ Tail(Of(js)) \in Seq(Command) /\ Len(Tail(Of(js))) = Len(js) - 1
        /\ \A i \in 1 .. Len(js) - 1 : Tail(Of(js))[i] = Of(js)[i + 1]
    BY <2>2, <2>4, HeadTailProperties
  <2>6. \A i \in 1 .. Len(js) - 1 : i + 1 \in 1 .. Len(js)
    BY <2>1
  <2>7. \A i \in 1 .. Len(js) - 1 : Tail(Of(js))[i] = a[i]
    BY <2>2, <2>3, <2>5, <2>6
  <2>8. Tail(Of(js)) = a
    BY <2>3, <2>5, <2>7, SeqEqual
  <2> HIDE DEF h, a
  <2> QED
    BY <2>2, <2>4, <2>8, HeadAndTail
<1> HIDE DEF h, a
<1>4. (<<h>> \o a) \o ws = <<h>> \o (a \o ws) /\ a \o ws \in Seq(Command)
  BY <1>2, Three
<1>5. (<<h>> \o (a \o ws)) \o wr = <<h>> \o ((a \o ws) \o wr)
  <2> DEFINE b == a \o ws
  <2>1. b \in Seq(Command) /\ <<h>> \in Seq(Command)
    BY <1>2, <1>4
  <2> HIDE DEF b
  <2>2. (<<h>> \o b) \o wr = <<h>> \o (b \o wr)
    BY <2>1, Three
  <2> QED
    BY <2>2 DEF b
<1>6. Join(js, ws, wr) = <<h>> \o Join(Tail(js), ws, wr)
  BY <1>3, <1>4, <1>5 DEF Join, a
<1> QED
  BY <1>1, <1>6 DEF h

\* One job whose command was the first waiter.
LEMMA JoinExpired ==
  ASSUME NEW job \in Job, NEW ws \in Seq(Command), NEW wr \in Seq(Command), ws # <<>>,
         job.of = Head(ws)
  PROVE  Join(<<job>>, Tail(ws), wr) = Join(<<>>, ws, wr)
<1>1. Of(<<job>>) = <<Head(ws)>>
  <2>1. Len(<<job>>) = 1 /\ <<job>>[1] = job
    OBVIOUS
  <2> HIDE DEF Job
  <2> QED
    BY <2>1 DEF Of
<1>2. <<Head(ws)>> \o Tail(ws) = ws
  BY HeadAndTail
<1>3. <<>> \o ws = ws
  BY ConcatEmptySeq
<1> QED
  BY <1>1, <1>2, <1>3, OfNone DEF Join

\* One job whose command was the first write, with nobody waiting.
LEMMA JoinServed ==
  ASSUME NEW job \in Job, NEW wr \in Seq(Command), wr # <<>>, job.of = Head(wr)
  PROVE  Join(<<job>>, <<>>, Tail(wr)) = Join(<<>>, <<>>, wr)
<1>1. Of(<<job>>) = <<Head(wr)>>
  <2>1. Len(<<job>>) = 1 /\ <<job>>[1] = job
    OBVIOUS
  <2> HIDE DEF Job
  <2> QED
    BY <2>1 DEF Of
<1>2. wr = <<Head(wr)>> \o Tail(wr) /\ Head(wr) \in Command
  BY HeadAndTail
<1>3. <<Head(wr)>> \in Seq(Command) /\ <<>> \in Seq(Command)
  BY <1>2, WithoutOne
<1>4. <<Head(wr)>> \o <<>> = <<Head(wr)>> /\ <<>> \o <<>> = <<>> /\ <<>> \o wr = wr
  BY <1>3, ConcatEmptySeq
<1> QED
  BY <1>1, <1>2, <1>4, OfNone DEF Join

\* The first write waits behind the others.
LEMMA JoinDrained ==
  ASSUME NEW ws \in Seq(Command), NEW wr \in Seq(Command), wr # <<>>
  PROVE  Join(<<>>, Append(ws, Head(wr)), Tail(wr)) = Join(<<>>, ws, wr)
<1> DEFINE h == Head(wr)
           t == Tail(wr)
<1>1. wr = <<h>> \o t /\ h \in Command /\ t \in Seq(Command)
  BY HeadAndTail
<1> HIDE DEF h, t
<1>2. <<h>> \in Seq(Command)
  BY <1>1, WithoutOne
<1>3. Append(ws, h) = ws \o <<h>> /\ Append(ws, h) \in Seq(Command)
  BY <1>1, AppendIsConcat, AppendProperties
<1>4. (ws \o <<h>>) \o t = ws \o (<<h>> \o t)
  <2>1. t \in Seq(Command) /\ <<h>> \in Seq(Command)
    BY <1>1, <1>2
  <2> QED
    BY <2>1, Three
<1>5. <<>> \o Append(ws, h) = Append(ws, h) /\ <<>> \o ws = ws
  BY <1>3, ConcatEmptySeq
<1> QED
  BY <1>1, <1>3, <1>4, <1>5, OfNone DEF Join, h, t

\* The first waiters become jobs.
LEMMA JoinServedAll ==
  ASSUME NEW ws \in Seq(Command), NEW wr \in Seq(Command), NEW n \in 0 .. Len(ws), NEW js,
         Of(js) = SubSeq(ws, 1, n)
  PROVE  Join(js, SubSeq(ws, n + 1, Len(ws)), wr) = Join(<<>>, ws, wr)
<1>1. Len(ws) \in Nat /\ 1 \in 1 .. Len(ws) + 1 /\ n \in 1 - 1 .. Len(ws) /\ Len(ws) \in n .. Len(ws)
  BY LenProperties
<1>2. SubSeq(ws, 1, n) \o SubSeq(ws, n + 1, Len(ws)) = SubSeq(ws, 1, Len(ws))
  BY <1>1, ConcatAdjacentSubSeq
<1>3. SubSeq(ws, 1, Len(ws)) = ws /\ <<>> \o ws = ws
  BY SubSeqFull, ConcatEmptySeq
<1> QED
  BY <1>2, <1>3, OfNone DEF Join

-----------------------------------------------------------------------------
(***************************************************************************)
(* The inductive invariant.                                                *)
(***************************************************************************)
Idling == \A c \in Client : view[c] # "active"

\* Frames wait in the buffer only when nobody waits for them, so that commands are served
\* in the order of Awaited.
Turn == waiters # <<>> => buffer = <<>>

OneClient == \A c \in Client : /\ conn[c] = "open" => activeClient = c
                               /\ view[c] = "active" => conn[c] = "open"

\* While a start is on its way, nothing else is begun.
Starting ==
  /\ OnlyLast(Awaited)
  /\ Without(Awaited, Begins) \/ (opening = None /\ ~sessionActive)
  /\ opening # None => ~sessionActive

\* From the moment a session is told to end, nobody relays in it.
Leaving == Without(Awaited, {"exit"}) \/ (relayQueue = <<>> /\ Idling)

Relaying ==
  /\ Idling \/ sessionActive
  /\ NoStuckJob
  /\ \A i \in 1 .. Len(relayQueue) : relayQueue[i].epoch = epoch

SInv == Turn /\ OneClient /\ (~overlapped => Starting /\ Leaving /\ Relaying)

\* What the types say of the sequences.
LEMMA Sequences ==
  ASSUME TypeOK
  PROVE  /\ jobs \in Seq(Job) /\ waiters \in Seq(Command) /\ writing \in Seq(Command)
         /\ relayQueue \in Seq(Command) /\ buffer \in Seq(Reply) /\ toDevice \in Seq(Command)
         /\ Awaited \in Seq(Command)
BY JoinType DEF TypeOK, Awaited

\* At first nobody has a session.
LEMMA InitSession == Init => SInv
<1> SUFFICES ASSUME Init PROVE SInv
  OBVIOUS
<1>1. /\ jobs = <<>> /\ waiters = <<>> /\ writing = <<>> /\ relayQueue = <<>> /\ opening = None
      /\ \A c \in Client : conn[c] = "new" /\ view[c] = "idle"
      /\ sessionActive = FALSE
  BY DEF Init
<1>2. Awaited = <<>>
  BY <1>1, OfNone DEF Awaited, Join
<1>3. Len(<<>>) = 0
  OBVIOUS
<1>4. Without(Awaited, Begins) /\ Without(Awaited, {"exit"}) /\ OnlyLast(Awaited)
  BY <1>2, <1>3 DEF Without, OnlyLast
<1> QED
  BY <1>1, <1>3, <1>4 DEF SInv, Turn, OneClient, Idling, Starting, Leaving, Relaying, NoStuckJob

\* A step that only moves commands along.
LEMMA MovedSession ==
  ASSUME SInv, Awaited' = Awaited, Turn', OneClient',
         UNCHANGED <<view, sessionActive, opening, relayQueue, usbInFlight, epoch, overlapped>>
  PROVE  SInv'
<1>1. Idling' = Idling
  BY DEF Idling
<1>2. NoStuckJob' = NoStuckJob
  BY DEF NoStuckJob
<1> QED
  BY <1>1, <1>2 DEF SInv, Starting, Leaving, Relaying

\* A handler begins to wait, or takes what is in the buffer.
LEMMA DrainedSession == ASSUME TypeOK, SInv, Drained PROVE SInv' /\ Awaited' = Awaited
<1>1. /\ jobs = <<>> /\ writing # <<>> /\ writing' = Tail(writing)
      /\ UNCHANGED <<client, server, relay, usb, overlapped, epoch>>
  BY DEF Drained, Ready
<1>2. /\ waiters \in Seq(Command) /\ writing \in Seq(Command) /\ buffer \in Seq(Reply)
  BY Sequences
<1>3. CASE buffer # <<>> /\ jobs' = <<[of |-> Head(writing), reply |-> Head(buffer)]>>
           /\ buffer' = Tail(buffer) /\ waiters' = waiters
  <2> DEFINE job == [of |-> Head(writing), reply |-> Head(buffer)]
  <2>1. Head(writing) \in Command /\ Head(buffer) \in Reply
    BY <1>1, <1>2, <1>3, HeadTailProperties
  <2>2. job \in Job /\ job.of = Head(writing)
    BY <2>1 DEF Job
  <2> HIDE DEF job
  <2>3. waiters = <<>>
    BY <1>3 DEF SInv, Turn
  <2>4. Join(<<job>>, <<>>, Tail(writing)) = Join(<<>>, <<>>, writing)
    BY <1>1, <1>2, <2>2, JoinServed
  <2>5. Awaited' = Awaited
    BY <1>1, <1>3, <2>3, <2>4 DEF Awaited, job
  <2> QED
    BY <1>1, <1>3, <2>3, <2>5, MovedSession DEF SInv, Turn, OneClient, client, server, relay, usb
<1>4. CASE buffer = <<>> /\ waiters' = Append(waiters, Head(writing)) /\ UNCHANGED <<buffer, jobs>>
  <2>1. Join(<<>>, Append(waiters, Head(writing)), Tail(writing)) = Join(<<>>, waiters, writing)
    BY <1>1, <1>2, JoinDrained
  <2>2. Awaited' = Awaited
    BY <1>1, <1>4, <2>1 DEF Awaited
  <2> QED
    BY <1>1, <1>4, <2>2, MovedSession DEF SInv, Turn, OneClient, client, server, relay, usb
<1> QED
  BY <1>3, <1>4 DEF Drained

\* Frames arrive for those who wait.
LEMMA ArriveSession == ASSUME TypeOK, SInv, Arrive PROVE SInv' /\ Awaited' = Awaited
<1>1. /\ jobs = <<>> /\ UNCHANGED <<client, server, relay, usb, writing, overlapped, epoch>>
  BY DEF Arrive, Ready
<1>2. PICK k \in 1 .. Len(line) :
        LET frames == buffer \o SubSeq(line, 1, k)
            n == IF Len(frames) < Len(waiters) THEN Len(frames) ELSE Len(waiters)
        IN  /\ jobs' = [i \in 1 .. n |-> [of |-> waiters[i], reply |-> frames[i]]]
            /\ waiters' = SubSeq(waiters, n + 1, Len(waiters))
            /\ buffer' = IF waiters = <<>> THEN frames ELSE SubSeq(frames, n + 2, Len(frames))
  BY DEF Arrive
<1> DEFINE frames == buffer \o SubSeq(line, 1, k)
           n == IF Len(frames) < Len(waiters) THEN Len(frames) ELSE Len(waiters)
<1>3. frames \in Seq(Reply) /\ Len(frames) \in Nat
  <2>1. /\ buffer \in Seq(Reply) /\ line \in Seq(Reply) /\ Len(line) \in Nat
        /\ \A i \in 1 .. k : i \in 1 .. Len(line)
    BY LenProperties DEF TypeOK
  <2>2. \A i \in 1 .. k : line[i] \in Reply
    BY <2>1, ElementOfSeq
  <2>3. SubSeq(line, 1, k) \in Seq(Reply)
    BY <2>2, SubSeqProperties
  <2> QED
    BY <2>1, <2>3, ConcatProperties, LenProperties
<1>4. /\ jobs' = [i \in 1 .. n |-> [of |-> waiters[i], reply |-> frames[i]]]
      /\ waiters' = SubSeq(waiters, n + 1, Len(waiters))
      /\ buffer' = IF waiters = <<>> THEN frames ELSE SubSeq(frames, n + 2, Len(frames))
  BY <1>2
<1> HIDE DEF frames
<1>5. /\ waiters \in Seq(Command) /\ writing \in Seq(Command) /\ Len(waiters) \in Nat
      /\ n \in 0 .. Len(waiters) /\ n <= Len(frames)
      /\ n = Len(waiters) \/ n = Len(frames)
  BY <1>3, Sequences, LenProperties
<1> HIDE DEF n
<1>6. Of(jobs') = SubSeq(waiters, 1, n)
  BY <1>1, <1>3, <1>4, <1>5, HandOut
<1>7. Awaited' = Awaited
  <2>1. Join(jobs', SubSeq(waiters, n + 1, Len(waiters)), writing) = Join(<<>>, waiters, writing)
    BY <1>5, <1>6, JoinServedAll
  <2> QED
    BY <1>1, <1>4, <2>1 DEF Awaited
<1>8. Turn'
  <2>1. ASSUME n = Len(waiters) PROVE waiters' = <<>>
    BY <1>4, <1>5, <2>1, SubSeqEmpty
  <2>2. ASSUME n = Len(frames), waiters # <<>> PROVE buffer' = <<>>
    BY <1>3, <1>4, <2>2, SubSeqEmpty
  <2>3. ASSUME waiters = <<>> PROVE n = Len(waiters)
    BY <1>5, <2>3
  <2> QED
    BY <1>5, <2>1, <2>2, <2>3 DEF Turn
<1> QED
  BY <1>1, <1>7, <1>8, MovedSession DEF SInv, OneClient, client, server, relay, usb

\* The one who waits longest gives up.
LEMMA ExpireSession == ASSUME TypeOK, SInv, Expire PROVE SInv' /\ Awaited' = Awaited
<1>1. /\ jobs = <<>> /\ waiters # <<>> /\ waiters' = Tail(waiters) /\ buffer' = <<>>
      /\ jobs' = <<[of |-> Head(waiters), reply |-> [of |-> Head(waiters), status |-> "timeout"]]>>
      /\ UNCHANGED <<client, server, relay, usb, writing, overlapped, epoch>>
  BY DEF Expire, Ready
<1> DEFINE job == [of |-> Head(waiters), reply |-> [of |-> Head(waiters), status |-> "timeout"]]
<1>2. waiters \in Seq(Command) /\ writing \in Seq(Command)
  BY Sequences
<1>3. Head(waiters) \in Command
  BY <1>1, <1>2, HeadTailProperties
<1>4. job \in Job /\ job.of = Head(waiters)
  BY <1>3 DEF Job, Reply
<1> HIDE DEF job
<1>5. Join(<<job>>, Tail(waiters), writing) = Join(<<>>, waiters, writing)
  BY <1>1, <1>2, <1>4, JoinExpired
<1>6. Awaited' = Awaited
  BY <1>1, <1>5 DEF Awaited, job
<1> QED
  BY <1>1, <1>6, MovedSession DEF SInv, Turn, OneClient, client, server, relay, usb

\* The device, a loss and a new connection leave what is awaited as it is.
LEMMA OthersSession ==
  ASSUME TypeOK, SInv, Device \/ Lose \/ \E c \in Client : Connect(c) PROVE SInv' /\ Awaited' = Awaited
<1>1. UNCHANGED <<view, sessionActive, opening, relay, writing, waiters, buffer, jobs, epoch, overlapped>>
  BY DEF Device, Lose, Connect, client, server, usb
<1>2. Awaited' = Awaited /\ Turn'
  BY <1>1 DEF Awaited, SInv, Turn
<1>3. OneClient'
  <2>1. CASE Device \/ Lose
    BY <2>1 DEF Device, Lose, client, server, SInv, OneClient
  <2>2. ASSUME NEW c \in Client, Connect(c) PROVE OneClient'
    <3>1. conn[c] = "new" /\ view' = view /\ OneClient /\ conn \in [Client -> {"new", "open", "closed"}]
      BY <2>2 DEF Connect, SInv, TypeOK
    <3>2. CASE activeClient # None /\ conn' = [conn EXCEPT ![c] = "closed"] /\ activeClient' = activeClient
      BY <3>1, <3>2 DEF OneClient
    <3>3. CASE activeClient = None /\ conn' = [conn EXCEPT ![c] = "open"] /\ activeClient' = c
      <4>1. \A d \in Client : d # None /\ (conn[d] = "open" => d = None)
        BY <3>1, <3>3 DEF OneClient, Client, None
      <4> QED
        BY <3>1, <3>3, <4>1 DEF OneClient
    <3> QED
      BY <2>2, <3>2, <3>3 DEF Connect
  <2> QED
    BY <2>1, <2>2
<1> QED
  BY <1>1, <1>2, <1>3, MovedSession DEF relay

-----------------------------------------------------------------------------
(***************************************************************************)
(* Starts and ends of sessions.                                            *)
(***************************************************************************)
\* What a write does to Awaited.
LEMMA Written ==
  ASSUME TypeOK, NEW commands \in Seq(Command), Write(commands), jobs' = jobs, waiters' = waiters
  PROVE  Awaited' = Awaited \o commands
<1>1. jobs \in Seq(Job) /\ waiters \in Seq(Command) /\ writing \in Seq(Command)
  BY Sequences
<1>2. Join(jobs, waiters, writing \o commands) = Join(jobs, waiters, writing) \o commands
  BY <1>1, JoinWrite
<1>3. writing' = writing \o commands
  BY DEF Write
<1> QED
  BY <1>2, <1>3 DEF Awaited

\* A write of one command.
LEMMA WrittenOne ==
  ASSUME TypeOK, NEW c \in Command, Write(<<c>>), jobs' = jobs, waiters' = waiters
  PROVE  /\ \A kinds : Without(Awaited', kinds) <=> Without(Awaited, kinds) /\ c.what \notin kinds
         /\ Without(Awaited, Begins) => OnlyLast(Awaited')
<1>1. /\ <<c>> \in Seq(Command) /\ OnlyLast(<<c>>)
      /\ \A kinds : Without(<<c>>, kinds) <=> c.what \notin kinds
  BY WithoutOne
<1>2. Awaited' = Awaited \o <<c>> /\ Awaited \in Seq(Command)
  BY <1>1, Written, Sequences
<1>3. \A kinds : Without(Awaited \o <<c>>, kinds) <=> Without(Awaited, kinds) /\ Without(<<c>>, kinds)
  BY <1>1, <1>2, WithoutConcat
<1>4. Without(Awaited, Begins) => OnlyLast(Awaited \o <<c>>)
  BY <1>1, <1>2, LastConcat
<1> QED
  BY <1>1, <1>2, <1>3, <1>4

\* Nothing is written.
LEMMA NotWritten ==
  ASSUME NoWrite, jobs' = jobs, waiters' = waiters
  PROVE  Awaited' = Awaited
BY DEF NoWrite, Awaited

\* No start is pending: none is awaited.
LEMMA NotPending ==
  ASSUME TypeOK, jobs = <<>>, ~StartPending
  PROVE  opening = None /\ Without(Awaited, Begins)
<1>1. waiters \in Seq(Command) /\ writing \in Seq(Command) /\ opening = None
  BY Sequences DEF StartPending
<1>2. Without(writing \o waiters, Begins)
  BY DEF StartPending, Without, Begins
<1>3. Without(writing, Begins) /\ Without(waiters, Begins)
  BY <1>1, <1>2, WithoutConcat
<1>4. Awaited = waiters \o writing
  BY <1>1, OfNone, ConcatEmptySeq DEF Awaited, Join
<1> QED
  BY <1>1, <1>3, <1>4, WithoutConcat

\* A start is asked for.
LEMMA StartSession == ASSUME TypeOK, SInv, NEW c \in Client, Start(c) PROVE SInv'
<1>1. /\ jobs = <<>> /\ conn[c] = "open" /\ view[c] = "idle"
      /\ view' = [view EXCEPT ![c] = "starting"]
      /\ overlapped' = (overlapped \/ StartPending)
      /\ UNCHANGED <<conn, activeClient, sessionActive, relayQueue, usbInFlight, waiters, jobs, epoch>>
  BY DEF Start, Ready, server, relay
<1>2. \/ NoWrite /\ opening' = opening /\ buffer' = buffer
      \/ Enter(c) /\ ~sessionActive /\ opening' = opening
      \/ NoWrite /\ opening' = c /\ ~sessionActive /\ buffer' = buffer
  BY DEF Start
<1>3. Turn' /\ OneClient'
  <2>1. view \in [Client -> {"idle", "starting", "active"}]
    BY DEF TypeOK
  <2> QED
    BY <1>1, <1>2, <2>1 DEF SInv, Turn, OneClient, Enter
<1>4. Idling' <=> Idling
  <2>1. view \in [Client -> {"idle", "starting", "active"}]
    BY DEF TypeOK
  <2> QED
    BY <1>1, <2>1 DEF Idling
<1>5. ASSUME ~overlapped' PROVE Starting' /\ Leaving' /\ Relaying'
  <2>1. /\ ~overlapped /\ Starting /\ Leaving /\ Relaying
        /\ opening = None /\ Without(Awaited, Begins)
    BY <1>1, <1>5, NotPending DEF SInv
  <2>2. Relaying'
    BY <1>1, <1>4, <1>5, <2>1 DEF Relaying, NoStuckJob
  <2>3. CASE NoWrite
    <3>1. Awaited' = Awaited
      BY <1>1, <2>3, NotWritten
    <3> QED
      BY <1>1, <1>2, <1>4, <2>1, <2>2, <3>1 DEF Starting, Leaving, Enter
  <2>4. CASE Enter(c) /\ ~sessionActive /\ opening' = opening
    <3>1. Control("enter", c) \in Command /\ Control("enter", c).what = "enter"
      BY ControlSafe
    <3>2. Write(<<Control("enter", c)>>)
      BY <2>4 DEF Enter
    <3>3. /\ Without(Awaited', {"exit"}) <=> Without(Awaited, {"exit"})
          /\ OnlyLast(Awaited')
      BY <1>1, <2>1, <3>1, <3>2, WrittenOne
    <3> QED
      BY <1>1, <1>4, <2>1, <2>2, <2>4, <3>3 DEF Starting, Leaving
  <2> QED
    BY <1>2, <2>3, <2>4
<1> QED
  BY <1>3, <1>5 DEF SInv

\* The port is open, or could not be opened.
LEMMA OpenedSession == ASSUME TypeOK, SInv, Opened PROVE SInv'
<1>1. /\ jobs = <<>> /\ opening # None /\ opening' = None /\ opening \in Client
      /\ UNCHANGED <<conn, view, activeClient, sessionActive, relayQueue, usbInFlight, waiters, jobs,
                     epoch, overlapped>>
  BY DEF Opened, Ready, client, server, relay, TypeOK
<1>2. \/ NoWrite /\ buffer' = buffer
      \/ Enter(opening)
  BY DEF Opened
<1>3. Turn' /\ OneClient' /\ (Idling' <=> Idling)
  BY <1>1, <1>2 DEF SInv, Turn, OneClient, Enter, Idling
<1>4. ASSUME ~overlapped' PROVE Starting' /\ Leaving' /\ Relaying'
  <2>1. Starting /\ Leaving /\ Relaying /\ ~sessionActive /\ Without(Awaited, Begins)
    BY <1>1, <1>4 DEF SInv, Starting
  <2>2. Relaying'
    BY <1>1, <1>3, <1>4, <2>1 DEF Relaying, NoStuckJob
  <2>3. CASE NoWrite
    <3>1. Awaited' = Awaited
      BY <1>1, <2>3, NotWritten
    <3> QED
      BY <1>1, <1>3, <2>1, <2>2, <3>1 DEF Starting, Leaving
  <2>4. CASE Enter(opening)
    <3>1. Control("enter", opening) \in Command /\ Control("enter", opening).what = "enter"
      BY <1>1, ControlSafe
    <3>2. Write(<<Control("enter", opening)>>)
      BY <2>4 DEF Enter
    <3>3. /\ Without(Awaited', {"exit"}) <=> Without(Awaited, {"exit"})
          /\ OnlyLast(Awaited')
      BY <1>1, <2>1, <3>1, <3>2, WrittenOne
    <3> QED
      BY <1>1, <1>3, <2>1, <2>2, <3>3 DEF Starting, Leaving
  <2> QED
    BY <1>2, <2>3, <2>4
<1> QED
  BY <1>3, <1>4 DEF SInv

\* The client that stops or goes is the only one that can relay.
LEMMA EndSession == ASSUME TypeOK, SInv, NEW c \in Client, Stop(c) \/ Close(c) PROVE SInv'
<1>1. /\ conn[c] = "open" /\ view' = [view EXCEPT ![c] = "idle"]
      /\ UNCHANGED <<sessionActive, usbInFlight, opening, waiters, buffer, jobs, epoch, overlapped>>
  BY DEF Stop, Close, server, usb
<1>2. \/ sessionActive /\ relayQueue' = <<>> /\ Write(<<Control("exit", c)>>)
      \/ ~sessionActive /\ relayQueue' \in {<<>>, relayQueue} /\ NoWrite
  BY DEF Stop, Close, StopSession
<1>3. /\ view \in [Client -> {"idle", "starting", "active"}]
      /\ conn \in [Client -> {"new", "open", "closed"}]
  BY DEF TypeOK
<1>4. \A d \in Client : d # c => conn[d] # "open" /\ view[d] # "active"
  BY <1>1 DEF SInv, OneClient
<1>5. Idling'
  BY <1>1, <1>3, <1>4 DEF Idling
<1>6. OneClient' /\ Turn'
  <2>1. CASE Stop(c)
    BY <1>1, <1>3, <2>1 DEF Stop, SInv, OneClient, Turn, server
  <2>2. CASE Close(c)
    BY <1>1, <1>3, <1>4, <2>2 DEF Close, SInv, OneClient, Turn
  <2> QED
    BY <2>1, <2>2
<1>7. ASSUME ~overlapped' PROVE Starting' /\ Leaving' /\ Relaying'
  <2>1. Starting /\ Leaving /\ Relaying
    BY <1>1, <1>7 DEF SInv
  <2>2. relayQueue' = <<>>
    BY <1>1, <1>2, <1>7, <2>1 DEF Relaying, NoStuckJob
  <2>3. Len(<<>>) = 0
    OBVIOUS
  <2>4. Relaying' /\ Leaving'
    BY <1>5, <2>2, <2>3 DEF Relaying, NoStuckJob, Leaving
  <2>5. CASE NoWrite
    <3>1. Awaited' = Awaited
      BY <1>1, <2>5, NotWritten
    <3> QED
      BY <1>1, <2>1, <2>4, <3>1 DEF Starting
  <2>6. CASE sessionActive /\ Write(<<Control("exit", c)>>)
    <3>1. Control("exit", c) \in Command /\ Control("exit", c).what \notin Begins
      BY ControlSafe DEF Begins
    <3>2. Without(Awaited, Begins)
      BY <2>1, <2>6 DEF Starting
    <3>3. Without(Awaited', Begins) /\ OnlyLast(Awaited')
      BY <1>1, <2>6, <3>1, <3>2, WrittenOne
    <3> QED
      BY <1>1, <2>1, <2>4, <3>3 DEF Starting
  <2> QED
    BY <1>2, <2>5, <2>6
<1> QED
  BY <1>6, <1>7 DEF SInv

-----------------------------------------------------------------------------
(***************************************************************************)
(* Exchanges.                                                              *)
(***************************************************************************)
\* Requests of the session e.
Ours(s, e) == \A i \in 1 .. Len(s) : s[i].what = "exchange" /\ s[i].epoch = e

\* Requests begin and end nothing.
LEMMA OursAlone ==
  ASSUME NEW s, NEW e, Ours(s, e)
  PROVE  Without(s, Begins) /\ Without(s, {"exit"}) /\ OnlyLast(s)
BY DEF Ours, Without, OnlyLast, Begins

\* Neither has what starts nothing a start in the wrong place.
LEMMA LastWithout == ASSUME NEW s, Without(s, Begins) PROVE OnlyLast(s)
BY DEF Without, OnlyLast

\* What drainRelayQueue writes and what it leaves.
LEMMA DrainStep ==
  ASSUME NEW queue \in Seq(Command), Ours(queue, epoch), NEW inFlight \in 0 .. Depth,
         Drain(queue, inFlight)
  PROVE  /\ \E commands \in Seq(Command) :
              /\ Write(commands) /\ Ours(commands, epoch)
              /\ queue = <<>> => commands = <<>>
         /\ Ours(relayQueue', epoch)
         /\ relayQueue' # <<>> => ~sessionActive \/ usbInFlight' = Depth
         /\ queue = <<>> => relayQueue' = <<>>
<1> DEFINE room == Depth - inFlight
           n == IF ~sessionActive THEN 0 ELSE IF Len(queue) < room THEN Len(queue) ELSE room
           front == SubSeq(queue, 1, n)
           rest == SubSeq(queue, n + 1, Len(queue))
<1>1. Len(queue) \in Nat /\ Depth \in Nat /\ inFlight \in Nat /\ inFlight <= Depth
  BY BridgeAssumption, LenProperties
<1>2. /\ n \in 0 .. Len(queue)
      /\ ~sessionActive \/ n = Len(queue) \/ inFlight + n = Depth
  BY <1>1
<1>3. relayQueue' = rest /\ usbInFlight' = inFlight + n /\ Write(front)
  BY DEF Drain
<1> HIDE DEF n
<1>4. /\ front \in Seq(Command) /\ Len(front) = n /\ \A i \in 1 .. n : front[i] = queue[i]
      /\ rest \in Seq(Command) /\ Len(rest) = Len(queue) - n
      /\ \A i \in 1 .. Len(queue) - n : rest[i] = queue[n + i]
  BY <1>2, ManyCut
<1> HIDE DEF front, rest
<1>5. Ours(front, epoch)
  <2>1. \A i \in 1 .. n : i \in 1 .. Len(queue)
    BY <1>1, <1>2
  <2> QED
    BY <1>4, <2>1 DEF Ours
<1>6. Ours(rest, epoch)
  <2>1. \A i \in 1 .. Len(queue) - n : n + i \in 1 .. Len(queue)
    BY <1>1, <1>2
  <2>2. ASSUME NEW i \in 1 .. Len(rest) PROVE rest[i].what = "exchange" /\ rest[i].epoch = epoch
    <3>1. i \in 1 .. Len(queue) - n
      BY <1>4
    <3>2. rest[i] = queue[n + i] /\ n + i \in 1 .. Len(queue)
      BY <1>4, <2>1, <3>1
    <3> QED
      BY <3>2 DEF Ours
  <2> QED
    BY <2>2 DEF Ours
<1>7. ASSUME n = Len(queue) PROVE rest = <<>>
  BY <1>1, <1>4, <1>7, EmptySeq
<1>8. ASSUME queue = <<>> PROVE front = <<>> /\ rest = <<>>
  <2>1. n = 0 /\ n = Len(queue)
    BY <1>1, <1>2, <1>8
  <2> QED
    BY <1>4, <1>7, <2>1, EmptySeq
<1> QED
  BY <1>2, <1>3, <1>4, <1>5, <1>6, <1>7, <1>8

\* enqueueRelay leaves requests of one session.
LEMMA NewestOurs ==
  ASSUME NEW q \in Seq(Command), NEW e, Ours(q, e), NEW r \in Command, Ours(<<r>>, e)
  PROVE  Newest(Append(q, r)) \in Seq(Command) /\ Ours(Newest(Append(q, r)), e)
<1> DEFINE more == Append(q, r)
<1>1. /\ more \in Seq(Command) /\ Len(more) = Len(q) + 1 /\ Len(q) \in Nat
      /\ \A i \in 1 .. Len(q) : more[i] = q[i]
      /\ more[Len(q) + 1] = r
  BY AppendProperties, LenProperties
<1>2. r.what = "exchange" /\ r.epoch = e
  <2>1. Len(<<r>>) = 1 /\ <<r>>[1] = r
    OBVIOUS
  <2> QED
    BY <2>1 DEF Ours
<1> HIDE DEF more
<1>3. Ours(more, e)
  <2>1. ASSUME NEW i \in 1 .. Len(more) PROVE i \in 1 .. Len(q) \/ i = Len(q) + 1
    BY <1>1
  <2> QED
    BY <1>1, <1>2, <2>1 DEF Ours
<1>4. more # <<>>
  BY <1>1, EmptySeq
<1>5. Tail(more) \in Seq(Command) /\ Ours(Tail(more), e)
  <2>1. /\ Tail(more) \in Seq(Command) /\ Len(Tail(more)) = Len(more) - 1
        /\ \A i \in 1 .. Len(Tail(more)) : Tail(more)[i] = more[i + 1]
    BY <1>1, <1>4, HeadTailProperties
  <2>2. \A i \in 1 .. Len(Tail(more)) : i + 1 \in 1 .. Len(more)
    BY <1>1, <2>1
  <2> QED
    BY <1>3, <2>1, <2>2 DEF Ours
<1>6. Newest(more) \in {more, Tail(more)}
  BY DEF Newest
<1> QED
  BY <1>1, <1>3, <1>5, <1>6 DEF more

\* Nothing is begun or told to end when requests join what is awaited.
LEMMA RequestsJoin ==
  ASSUME NEW s \in Seq(Command), NEW commands \in Seq(Command), NEW e, Ours(commands, e),
         Without(s, Begins), Without(s, {"exit"})
  PROVE  /\ Without(s \o commands, Begins) /\ Without(s \o commands, {"exit"})
         /\ OnlyLast(s \o commands)
<1>1. Without(commands, Begins) /\ Without(commands, {"exit"})
  BY OursAlone
<1>2. Without(s \o commands, Begins) /\ Without(s \o commands, {"exit"})
  BY <1>1, WithoutConcat
<1> QED
  BY <1>2, LastWithout

\* The queue that an exchange leaves to drainRelayQueue.
LEMMA ExchangeQueue ==
  ASSUME IInv, SInv, ~overlapped, NEW c \in Client, Exchange(c)
  PROVE  /\ sessionActive /\ opening = None
         /\ Without(Awaited, Begins) /\ Without(Awaited, {"exit"})
         /\ \E queue \in Seq(Command) :
              Ours(queue, epoch) /\ usbInFlight \in 0 .. Depth /\ Drain(queue, usbInFlight)
<1> DEFINE request == [what |-> "exchange", owner |-> c, number |-> next[c], epoch |-> epoch]
<1>1. TypeOK /\ Queued /\ Starting /\ Leaving /\ Relaying
  BY DEF IInv, SInv
<1>2. ~Idling /\ sessionActive
  BY <1>1 DEF Exchange, Relaying, Idling
<1>3. opening = None /\ Without(Awaited, Begins) /\ Without(Awaited, {"exit"})
  BY <1>1, <1>2 DEF Starting, Leaving
<1>4. Drain(Newest(Append(relayQueue, request)), usbInFlight)
  BY <1>2 DEF Exchange
<1>5. request \in Command /\ Ours(<<request>>, epoch)
  <2>1. next[c] \in Number /\ epoch \in 0 .. Sessions
    BY <1>1, BridgeAssumption DEF Exchange, Number, TypeOK
  <2>2. request \in Command /\ request.what = "exchange" /\ request.epoch = epoch
    BY <2>1 DEF Command
  <2> HIDE DEF request
  <2>3. Len(<<request>>) = 1 /\ <<request>>[1] = request
    OBVIOUS
  <2> QED
    BY <2>2, <2>3 DEF Ours
<1> HIDE DEF request
<1>6. relayQueue \in Seq(Command) /\ usbInFlight \in 0 .. Depth /\ Ours(relayQueue, epoch)
  BY <1>1 DEF TypeOK, Ours, Queued, Relaying
<1>7. /\ Newest(Append(relayQueue, request)) \in Seq(Command)
      /\ Ours(Newest(Append(relayQueue, request)), epoch)
  BY <1>5, <1>6, NewestOurs
<1> QED
  BY <1>2, <1>3, <1>4, <1>6, <1>7

\* A request is taken while its session is active.
LEMMA ExchangeSession == ASSUME IInv, SInv, NEW c \in Client, Exchange(c) PROVE SInv'
<1>1. /\ TypeOK /\ Turn /\ OneClient
      /\ UNCHANGED <<conn, view, server, usb, waiters, buffer, jobs, overlapped, epoch>>
  BY DEF Exchange, IInv, SInv
<1>2. Turn' /\ OneClient' /\ (Idling' <=> Idling)
  BY <1>1 DEF Turn, OneClient, Idling, server
<1>3. ASSUME ~overlapped' PROVE Starting' /\ Leaving' /\ Relaying'
  <2>1. ~overlapped
    BY <1>1, <1>3
  <2>2. /\ sessionActive /\ opening = None
        /\ Without(Awaited, Begins) /\ Without(Awaited, {"exit"})
    BY <2>1, ExchangeQueue
  <2>3. PICK queue \in Seq(Command) :
          Ours(queue, epoch) /\ usbInFlight \in 0 .. Depth /\ Drain(queue, usbInFlight)
    BY <2>1, ExchangeQueue
  <2>4. PICK commands \in Seq(Command) : Write(commands) /\ Ours(commands, epoch)
    BY <2>3, DrainStep
  <2>5. Ours(relayQueue', epoch) /\ (relayQueue' # <<>> => ~sessionActive \/ usbInFlight' = Depth)
    BY <2>3, DrainStep
  <2>6. Awaited' = Awaited \o commands /\ Awaited \in Seq(Command)
    BY <1>1, <2>4, Written, Sequences
  <2>7. Without(Awaited', Begins) /\ Without(Awaited', {"exit"}) /\ OnlyLast(Awaited')
    BY <2>2, <2>4, <2>6, RequestsJoin
  <2>8. Starting' /\ Leaving'
    BY <1>1, <2>2, <2>7 DEF Starting, Leaving, usb
  <2>9. Relaying'
    BY <1>1, <2>2, <2>5 DEF Relaying, NoStuckJob, Ours, server
  <2> QED
    BY <2>8, <2>9
<1> QED
  BY <1>2, <1>3 DEF SInv

-----------------------------------------------------------------------------
(***************************************************************************)
(* What goes on when a promise is settled.                                 *)
(***************************************************************************)
\* The command of the first job is the first of Awaited.
LEMMA FirstAwaited ==
  ASSUME TypeOK, jobs # <<>>
  PROVE  \E q \in Seq(Command) :
           /\ q = Join(Tail(jobs), waiters, writing)
           /\ Head(jobs).of \in Command /\ Tail(jobs) \in Seq(Job)
           /\ Awaited = <<Head(jobs).of>> \o q
           /\ \A kinds : Without(Awaited, kinds) <=> Head(jobs).of.what \notin kinds /\ Without(q, kinds)
           /\ OnlyLast(Awaited) => OnlyLast(q) /\ (Head(jobs).of.what \in Begins => q = <<>>)
<1> DEFINE of == Head(jobs).of
           q == Join(Tail(jobs), waiters, writing)
<1>1. jobs \in Seq(Job) /\ waiters \in Seq(Command) /\ writing \in Seq(Command)
  BY Sequences
<1>2. of \in Command /\ Tail(jobs) \in Seq(Job) /\ Awaited = <<of>> \o q
  BY <1>1, JoinTail DEF Awaited
<1>3. q \in Seq(Command)
  BY <1>1, <1>2, JoinType
<1>4. /\ <<of>> \in Seq(Command)
      /\ \A kinds : Without(<<of>>, kinds) <=> of.what \notin kinds
  BY <1>2, WithoutOne
<1> HIDE DEF of, q
<1>5. \A kinds : Without(<<of>> \o q, kinds) <=> Without(<<of>>, kinds) /\ Without(q, kinds)
  BY <1>3, <1>4, WithoutConcat
<1>6. OnlyLast(<<of>> \o q) => OnlyLast(q) /\ (of.what \in Begins => q = <<>>)
  BY <1>2, <1>3, LastTail
<1> QED
  BY <1>2, <1>3, <1>4, <1>5, <1>6 DEF of, q

\* What is awaited when the first job has gone on and written some commands, or none.
LEMMA AwaitedNext ==
  ASSUME TypeOK, jobs # <<>>, jobs' = Tail(jobs), waiters' = waiters
  PROVE  /\ \A commands \in Seq(Command) :
              Write(commands) => Awaited' = Join(Tail(jobs), waiters, writing) \o commands
         /\ NoWrite => Awaited' = Join(Tail(jobs), waiters, writing)
<1>1. waiters \in Seq(Command) /\ writing \in Seq(Command) /\ Tail(jobs) \in Seq(Job)
  BY Sequences, FirstAwaited
<1>2. ASSUME NEW commands \in Seq(Command), Write(commands)
      PROVE  Awaited' = Join(Tail(jobs), waiters, writing) \o commands
  <2>1. Join(Tail(jobs), waiters, writing \o commands)
          = Join(Tail(jobs), waiters, writing) \o commands
    BY <1>1, JoinWrite
  <2>2. writing' = writing \o commands
    BY <1>2 DEF Write
  <2> QED
    BY <2>1, <2>2 DEF Awaited
<1>3. ASSUME NoWrite PROVE Awaited' = Join(Tail(jobs), waiters, writing)
  BY <1>3 DEF NoWrite, Awaited
<1> QED
  BY <1>2, <1>3

\* An exchange that is over has been counted.
LEMMA OneLess ==
  ASSUME IInv, jobs # <<>>, Head(jobs).of.what = "exchange"
  PROVE  usbInFlight - 1 \in 0 .. Depth
<1> DEFINE of == Head(jobs).of
           k == {"exchange"}
<1>1. TypeOK /\ usbInFlight = Load(k) /\ usbInFlight \in 0 .. Depth /\ Depth \in Nat
  BY BridgeAssumption DEF IInv, InFlightExact, TypeOK
<1>2. jobs \in Seq(Job)
  BY <1>1, Sequences
<1>3. Many(Of(jobs), k) = One(of, k) + Many(Of(Tail(jobs)), k) /\ Tail(jobs) \in Seq(Job)
  BY <1>2, OfTail
<1>4. One(of, k) = 1
  BY DEF One
<1>5. /\ Many(Of(Tail(jobs)), k) \in Nat /\ Many(writing, k) \in Nat /\ Many(waiters, k) \in Nat
  BY <1>1, <1>3, Facts, OfFacts, PlacesFinite
<1>6. Load(k) # 0
  BY <1>3, <1>4, <1>5 DEF Load
<1> HIDE DEF k
<1> QED
  BY <1>1, <1>6

\* relayExchange drains the queue again only while nobody has told the session to end:
\* by then the queue is empty.
LEMMA RelayedQueue ==
  ASSUME IInv, SInv, ~overlapped, jobs # <<>>, Relayed(Head(jobs))
  PROVE  /\ Ours(relayQueue, epoch) /\ relayQueue \in Seq(Command)
         /\ usbInFlight - 1 \in 0 .. Depth /\ Drain(relayQueue, usbInFlight - 1)
         /\ relayQueue # <<>> => /\ sessionActive
                                 /\ Without(Awaited, Begins) /\ Without(Awaited, {"exit"})
<1>1. TypeOK /\ Queued /\ Starting /\ Leaving /\ Relaying
  BY DEF IInv, SInv
<1>2. usbInFlight - 1 \in 0 .. Depth /\ Drain(relayQueue, usbInFlight - 1)
  BY OneLess DEF Relayed
<1>3. relayQueue \in Seq(Command) /\ Ours(relayQueue, epoch)
  BY <1>1 DEF TypeOK, Ours, Queued, Relaying
<1> QED
  BY <1>1, <1>2, <1>3 DEF Starting, Leaving, Relaying, NoStuckJob

\* An exchange is over.
LEMMA RelayedSession == ASSUME IInv, SInv, Run, Relayed(Head(jobs)) PROVE SInv'
<1>1. /\ TypeOK /\ Turn /\ OneClient
      /\ jobs # <<>> /\ jobs' = Tail(jobs) /\ Head(jobs).of.what = "exchange"
      /\ UNCHANGED <<conn, view, server, usb, waiters, buffer, overlapped, epoch>>
  BY DEF Run, Relayed, IInv, SInv, client
<1>2. Turn' /\ OneClient' /\ (Idling' <=> Idling)
  BY <1>1 DEF Turn, OneClient, Idling, server
<1>3. ASSUME ~overlapped' PROVE Starting' /\ Leaving' /\ Relaying'
  <2>1. ~overlapped /\ Starting /\ Leaving /\ Relaying
    BY <1>1, <1>3 DEF SInv
  <2>2. /\ Ours(relayQueue, epoch) /\ relayQueue \in Seq(Command)
        /\ usbInFlight - 1 \in 0 .. Depth /\ Drain(relayQueue, usbInFlight - 1)
        /\ relayQueue # <<>> => /\ sessionActive
                                /\ Without(Awaited, Begins) /\ Without(Awaited, {"exit"})
    BY <1>1, <2>1, RelayedQueue
  <2>3. PICK commands \in Seq(Command) :
          /\ Write(commands) /\ Ours(commands, epoch)
          /\ relayQueue = <<>> => commands = <<>>
    BY <2>2, DrainStep
  <2>4. /\ Ours(relayQueue', epoch) /\ (relayQueue' # <<>> => ~sessionActive \/ usbInFlight' = Depth)
        /\ relayQueue = <<>> => relayQueue' = <<>>
    BY <2>2, DrainStep
  <2>5. PICK q \in Seq(Command) :
          /\ q = Join(Tail(jobs), waiters, writing)
          /\ \A kinds : Without(Awaited, kinds) <=> Head(jobs).of.what \notin kinds /\ Without(q, kinds)
          /\ OnlyLast(Awaited) => OnlyLast(q)
    BY <1>1, FirstAwaited
  <2>6. Awaited' = q \o commands
    BY <1>1, <2>3, <2>5, AwaitedNext
  <2>7. /\ Without(Awaited, Begins) <=> Without(q, Begins)
        /\ Without(Awaited, {"exit"}) <=> Without(q, {"exit"})
    BY <1>1, <2>5 DEF Begins
  <2>8. Relaying'
    BY <1>1, <1>2, <2>1, <2>2, <2>4 DEF Relaying, NoStuckJob, Ours, server
  <2>9. CASE relayQueue = <<>>
    <3>1. commands = <<>> /\ relayQueue' = <<>>
      BY <2>3, <2>4, <2>9
    <3>2. Awaited' = q
      BY <2>6, <3>1, ConcatEmptySeq
    <3> QED
      BY <1>1, <1>2, <2>1, <2>5, <2>7, <2>8, <3>1, <3>2 DEF Starting, Leaving, server, usb
  <2>10. CASE relayQueue # <<>>
    <3>1. Without(Awaited', Begins) /\ Without(Awaited', {"exit"}) /\ OnlyLast(Awaited')
      BY <2>2, <2>3, <2>6, <2>7, <2>10, RequestsJoin
    <3> QED
      BY <1>1, <2>1, <2>2, <2>8, <2>10, <3>1 DEF Starting, Leaving, server, usb
  <2> QED
    BY <2>9, <2>10
<1> QED
  BY <1>2, <1>3 DEF SInv

\* startSession goes on with QUERY, or gives up.
LEMMA EnteredSession == ASSUME IInv, SInv, Run, Entered(Head(jobs)) PROVE SInv'
<1> DEFINE query == [Head(jobs).of EXCEPT !.what = "query"]
<1>1. /\ TypeOK /\ Turn /\ OneClient
      /\ jobs # <<>> /\ jobs' = Tail(jobs) /\ Head(jobs).of.what = "enter"
      /\ UNCHANGED <<conn, view, server, relay, usb, waiters, buffer, overlapped, epoch>>
      /\ NoWrite \/ Write(<<query>>)
  BY DEF Run, Entered, IInv, SInv, client
<1>2. Turn' /\ OneClient' /\ (Idling' <=> Idling)
  BY <1>1 DEF Turn, OneClient, Idling, server
<1>3. ASSUME ~overlapped' PROVE Starting' /\ Leaving' /\ Relaying'
  <2>1. ~overlapped /\ Starting /\ Leaving /\ Relaying
    BY <1>1, <1>3 DEF SInv
  <2>2. PICK q \in Seq(Command) :
          /\ q = Join(Tail(jobs), waiters, writing) /\ Head(jobs).of \in Command
          /\ \A kinds : Without(Awaited, kinds) <=> Head(jobs).of.what \notin kinds /\ Without(q, kinds)
          /\ OnlyLast(Awaited) => (Head(jobs).of.what \in Begins => q = <<>>)
    BY <1>1, FirstAwaited
  <2>3. q = <<>> /\ opening = None /\ ~sessionActive
    BY <1>1, <2>1, <2>2 DEF Starting, Begins
  <2>4. query \in Command /\ query.what = "query"
    BY <2>2 DEF Command
  <2> HIDE DEF query
  <2>5. /\ <<query>> \in Seq(Command) /\ <<>> \in Seq(Command)
        /\ Without(<<query>>, {"exit"}) <=> query.what \notin {"exit"}
        /\ Without(<<>>, {"exit"}) /\ OnlyLast(<<query>>) /\ OnlyLast(<<>>)
    BY <2>4, WithoutOne
  <2>6. Awaited' \in {<<>>, <<query>>}
    <3>1. CASE NoWrite
      BY <1>1, <2>2, <2>3, <3>1, AwaitedNext
    <3>2. CASE Write(<<query>>)
      <4>1. Awaited' = <<>> \o <<query>>
        BY <1>1, <2>2, <2>3, <2>5, <3>2, AwaitedNext
      <4> QED
        BY <2>5, <4>1, ConcatEmptySeq
    <3> QED
      BY <1>1, <3>1, <3>2
  <2>7. OnlyLast(Awaited') /\ Without(Awaited', {"exit"})
    BY <2>4, <2>5, <2>6
  <2>8. Starting' /\ Leaving'
    BY <1>1, <2>3, <2>7 DEF Starting, Leaving, server, usb
  <2>9. Relaying'
    BY <1>1, <1>2, <2>1 DEF Relaying, NoStuckJob, server, relay
  <2> QED
    BY <2>8, <2>9
<1> QED
  BY <1>2, <1>3 DEF SInv

\* The session is active, and nobody else has begun or ended one meanwhile.
LEMMA StartedSession == ASSUME IInv, SInv, Run, Started(Head(jobs)) PROVE SInv'
<1> DEFINE c == Head(jobs).of.owner
<1>1. /\ TypeOK /\ Turn /\ OneClient
      /\ jobs # <<>> /\ jobs' = Tail(jobs) /\ Head(jobs).of.what = "query" /\ NoWrite
      /\ UNCHANGED <<conn, activeClient, relay, usb, waiters, buffer, overlapped>>
      /\ sessionActive' = TRUE
      /\ \/ conn[c] = "open" /\ view' = [view EXCEPT ![c] = "active"]
         \/ view' = view
  BY DEF Run, Started, IInv, SInv
<1>2. Turn' /\ OneClient'
  <2>1. view \in [Client -> {"idle", "starting", "active"}]
    BY <1>1 DEF TypeOK
  <2> HIDE DEF c
  <2> QED
    BY <1>1, <2>1 DEF Turn, OneClient
<1>3. ASSUME ~overlapped' PROVE Starting' /\ Leaving' /\ Relaying'
  <2>1. Starting /\ Leaving /\ Relaying
    BY <1>1, <1>3 DEF SInv
  <2>2. PICK q \in Seq(Command) :
          /\ q = Join(Tail(jobs), waiters, writing)
          /\ \A kinds : Without(Awaited, kinds) <=> Head(jobs).of.what \notin kinds /\ Without(q, kinds)
          /\ OnlyLast(Awaited) => (Head(jobs).of.what \in Begins => q = <<>>)
    BY <1>1, FirstAwaited
  <2>3. q = <<>> /\ opening = None /\ ~sessionActive
    BY <1>1, <2>1, <2>2 DEF Starting, Begins
  <2>4. Awaited' = <<>>
    BY <1>1, <2>2, <2>3, AwaitedNext
  <2>5. Len(<<>>) = 0
    OBVIOUS
  <2>6. OnlyLast(Awaited') /\ Without(Awaited', {"exit"}) /\ Without(Awaited', Begins)
    BY <2>4, <2>5 DEF OnlyLast, Without
  <2>7. Starting' /\ Leaving'
    BY <1>1, <2>3, <2>6 DEF Starting, Leaving, usb
  <2>8. relayQueue' = <<>>
    BY <1>1, <1>3, <2>1, <2>3 DEF Relaying, NoStuckJob, relay
  <2>9. Relaying'
    BY <1>1, <2>5, <2>8 DEF Relaying, NoStuckJob
  <2> QED
    BY <2>7, <2>9
<1> QED
  BY <1>2, <1>3 DEF SInv

\* The session is over, and nobody relays in it.
LEMMA StoppedSession == ASSUME IInv, SInv, Run, Stopped(Head(jobs)) PROVE SInv'
<1> DEFINE c == Head(jobs).of.owner
<1>1. /\ TypeOK /\ Turn /\ OneClient
      /\ jobs # <<>> /\ jobs' = Tail(jobs) /\ Head(jobs).of.what = "exit" /\ NoWrite
      /\ UNCHANGED <<conn, activeClient, relay, usb, waiters, overlapped>>
      /\ buffer' \in {<<>>, buffer} /\ sessionActive' = FALSE
      /\ view' = [view EXCEPT ![c] = "idle"]
  BY DEF Run, Stopped, IInv, SInv
<1>2. \A d \in Client : view'[d] = "active" => view[d] = "active"
  <2>1. view \in [Client -> {"idle", "starting", "active"}]
    BY <1>1 DEF TypeOK
  <2> HIDE DEF c
  <2> QED
    BY <1>1, <2>1
<1>3. Turn' /\ OneClient'
  BY <1>1, <1>2 DEF Turn, OneClient
<1>4. ASSUME ~overlapped' PROVE Starting' /\ Leaving' /\ Relaying'
  <2>1. Starting /\ Leaving /\ Relaying
    BY <1>1, <1>4 DEF SInv
  <2>2. PICK q \in Seq(Command) :
          /\ q = Join(Tail(jobs), waiters, writing)
          /\ \A kinds : Without(Awaited, kinds) <=> Head(jobs).of.what \notin kinds /\ Without(q, kinds)
          /\ OnlyLast(Awaited) => OnlyLast(q)
    BY <1>1, FirstAwaited
  <2>3. relayQueue = <<>> /\ Idling
    BY <1>1, <2>1, <2>2 DEF Leaving
  <2>4. Awaited' = q
    BY <1>1, <2>2, AwaitedNext
  <2>5. relayQueue' = <<>> /\ Idling'
    BY <1>1, <1>2, <2>3 DEF Idling, relay
  <2>6. Starting'
    BY <1>1, <2>1, <2>2, <2>4 DEF Starting, usb
  <2>7. Len(<<>>) = 0
    OBVIOUS
  <2>8. Leaving' /\ Relaying'
    BY <2>5, <2>7 DEF Leaving, Relaying, NoStuckJob
  <2> QED
    BY <2>6, <2>8
<1> QED
  BY <1>3, <1>4 DEF SInv

\* The promise settled first goes on.
LEMMA RunSession == ASSUME IInv, SInv, Run PROVE SInv'
BY RelayedSession, EnteredSession, StartedSession, StoppedSession DEF Run

-----------------------------------------------------------------------------
\* Every step keeps the session.
LEMMA NextSession == IInv /\ SInv /\ [Next]_vars => SInv'
<1> SUFFICES ASSUME IInv, SInv, [Next]_vars PROVE SInv'
  OBVIOUS
<1>1. TypeOK
  BY DEF IInv
<1>2. CASE Drained
  BY <1>1, <1>2, DrainedSession
<1>3. CASE Arrive
  BY <1>1, <1>3, ArriveSession
<1>4. CASE Expire
  BY <1>1, <1>4, ExpireSession
<1>5. CASE Opened
  BY <1>1, <1>5, OpenedSession
<1>6. CASE Run
  BY <1>6, RunSession
<1>7. CASE Device \/ Lose \/ \E c \in Client : Connect(c)
  BY <1>1, <1>7, OthersSession
<1>8. CASE \E c \in Client : Start(c)
  BY <1>1, <1>8, StartSession
<1>9. CASE \E c \in Client : Exchange(c)
  BY <1>9, ExchangeSession
<1>10. CASE \E c \in Client : Stop(c) \/ Close(c)
  BY <1>1, <1>10, EndSession
<1>11. CASE UNCHANGED vars
  <2>1. Awaited' = Awaited
    BY <1>11 DEF vars, Awaited
  <2> QED
    BY <1>11, <2>1, MovedSession DEF vars, client, server, relay, usb, SInv, Turn, OneClient
<1> QED
  BY <1>2, <1>3, <1>4, <1>5, <1>6, <1>7, <1>8, <1>9, <1>10, <1>11 DEF Next

\* In every state reached.
LEMMA SessionInductive == Spec => [](IInv /\ SInv)
<1>1. Init => IInv /\ SInv
  BY InitSafe, InitSession
<1>2. IInv /\ SInv /\ [Next]_vars => (IInv /\ SInv)'
  BY NextSafe, NextSession
<1> QED
  BY <1>1, <1>2, PTL DEF Spec

\* No request is left waiting in the relay queue (drainRelayQueue, the finally of
\* relayExchange and stopSession): when starts do not overlap, a request waits only for a
\* full pipeline in an active session.
THEOREM NoJobStuck == Spec => []NoStuckJob
<1>1. SInv => NoStuckJob
  BY DEF SInv, Relaying, NoStuckJob
<1> QED
  BY <1>1, SessionInductive, PTL

-----------------------------------------------------------------------------
(***************************************************************************)
(* What is written to the device.                                          *)
(***************************************************************************)
\* The commands of a write are the new ones.
LEMMA NewCommands ==
  ASSUME toDevice \in Seq(Command), NEW commands \in Seq(Command), Write(commands),
         NEW i \in Len(toDevice) + 1 .. Len(toDevice')
  PROVE  \E j \in 1 .. Len(commands) : toDevice'[i] = commands[j]
<1>1. toDevice' = toDevice \o commands
  BY DEF Write
<1>2. i \in 1 .. Len(toDevice \o commands) /\ i \notin 1 .. Len(toDevice)
  BY <1>1, LenProperties
<1>3. PICK j \in 1 .. Len(commands) : i = Len(toDevice) + j
  BY <1>2, Split
<1>4. (toDevice \o commands)[Len(toDevice) + j] = commands[j]
  BY Split
<1> QED
  BY <1>1, <1>3, <1>4

\* A write of one command that is no request, and a step that writes nothing.
LEMMA NothingRelayed ==
  ASSUME toDevice \in Seq(Command),
         \/ NoWrite
         \/ \E c \in Command : c.what # "exchange" /\ Write(<<c>>)
         \/ toDevice # <<>> /\ toDevice' = Tail(toDevice),
         NEW i \in Len(toDevice) + 1 .. Len(toDevice')
  PROVE  toDevice'[i].what # "exchange"
<1>1. Len(toDevice) \in Nat
  BY LenProperties
<1>2. CASE NoWrite
  BY <1>1, <1>2 DEF NoWrite
<1>3. ASSUME NEW c \in Command, c.what # "exchange", Write(<<c>>)
      PROVE  toDevice'[i].what # "exchange"
  <2>1. <<c>> \in Seq(Command) /\ \A j \in 1 .. Len(<<c>>) : <<c>>[j] = c
    OBVIOUS
  <2>2. \E j \in 1 .. Len(<<c>>) : toDevice'[i] = <<c>>[j]
    BY <1>3, <2>1, NewCommands
  <2> QED
    BY <1>3, <2>1, <2>2
<1>4. CASE toDevice # <<>> /\ toDevice' = Tail(toDevice)
  <2>1. Len(toDevice') = Len(toDevice) - 1
    BY <1>4, HeadTailProperties
  <2> QED
    BY <1>1, <2>1
<1> QED
  BY <1>2, <1>3, <1>4

\* What handlers wait for has the places of Awaited.
LEMMA PendingAwaited ==
  ASSUME TypeOK, Without(Awaited, {"exit"})
  PROVE  \A c \in Pending : c.what # "exit"
<1>1. /\ jobs \in Seq(Job) /\ waiters \in Seq(Command) /\ writing \in Seq(Command)
      /\ Of(jobs) \in Seq(Command) /\ Len(Of(jobs)) = Len(jobs)
      /\ \A i \in 1 .. Len(jobs) : Of(jobs)[i] = jobs[i].of
  BY Sequences, OfFacts
<1>2. Of(jobs) \o waiters \in Seq(Command)
  BY <1>1, ConcatProperties
<1>3. Without(Of(jobs) \o waiters, {"exit"}) /\ Without(writing, {"exit"})
  BY <1>1, <1>2, WithoutConcat DEF Awaited, Join
<1>4. Without(Of(jobs), {"exit"}) /\ Without(waiters, {"exit"})
  BY <1>1, <1>3, WithoutConcat
<1>5. ASSUME NEW s \in Seq(Command), Without(s, {"exit"}), NEW c \in ToSet(s)
      PROVE  c.what # "exit"
  <2>1. PICK i \in DOMAIN s : c = s[i]
    BY DEF ToSet
  <2>2. i \in 1 .. Len(s)
    BY <2>1, LenProperties
  <2> QED
    BY <1>5, <2>1, <2>2 DEF Without
<1>6. ASSUME NEW job \in ToSet(jobs) PROVE job.of.what # "exit"
  <2>1. PICK i \in DOMAIN jobs : job = jobs[i]
    BY DEF ToSet
  <2>2. i \in 1 .. Len(jobs)
    BY <1>1, <2>1, LenProperties
  <2> QED
    BY <1>1, <1>4, <2>1, <2>2 DEF Without
<1> QED
  BY <1>1, <1>3, <1>4, <1>5, <1>6 DEF Pending

\* The steps that drain the relay queue.
LEMMA DrainRelays ==
  ASSUME TypeOK, NEW queue \in Seq(Command), Ours(queue, epoch), NEW inFlight \in 0 .. Depth,
         Drain(queue, inFlight), queue # <<>> => Without(Awaited, {"exit"}),
         NEW i \in Len(toDevice) + 1 .. Len(toDevice')
  PROVE  toDevice'[i].epoch = epoch /\ \A c \in Pending : c.what # "exit"
<1>1. PICK commands \in Seq(Command) :
        /\ Write(commands) /\ Ours(commands, epoch)
        /\ queue = <<>> => commands = <<>>
  BY DrainStep
<1>2. toDevice \in Seq(Command)
  BY Sequences
<1>3. PICK j \in 1 .. Len(commands) : toDevice'[i] = commands[j]
  BY <1>1, <1>2, NewCommands
<1>4. Len(<<>>) = 0
  OBVIOUS
<1>5. queue # <<>>
  BY <1>1, <1>3, <1>4
<1> QED
  BY <1>1, <1>3, <1>5, PendingAwaited DEF Ours

\* Every exchange that the server writes (drainRelayQueue) belongs to the session that its
\* client is in, and is written before the EXIT of that session, when starts do not overlap.
THEOREM RelayedWithin == Spec => RelayedInSession
<1> DEFINE A == ~overlapped => \A i \in Len(toDevice) + 1 .. Len(toDevice') :
                  toDevice'[i].what = "exchange" =>
                    toDevice'[i].epoch = epoch /\ \A c \in Pending : c.what # "exit"
<1>1. ASSUME IInv, SInv, [Next]_vars, ~overlapped,
             NEW i \in Len(toDevice) + 1 .. Len(toDevice'), toDevice'[i].what = "exchange"
      PROVE  toDevice'[i].epoch = epoch /\ \A c \in Pending : c.what # "exit"
  <2>1. TypeOK /\ toDevice \in Seq(Command)
    BY <1>1, Sequences DEF IInv
  <2>2. CASE Drained \/ Arrive \/ Expire \/ (\E c \in Client : Connect(c)) \/ UNCHANGED vars
    <3>1. toDevice' = toDevice
      BY <2>2 DEF Drained, Arrive, Expire, Connect, vars, wire
    <3> QED
      BY <1>1, <2>1, <3>1, LenProperties
  <2>3. CASE Device \/ Lose
    <3>1. toDevice # <<>> /\ toDevice' = Tail(toDevice)
      BY <2>3 DEF Device, Lose
    <3> QED
      BY <1>1, <2>1, <3>1, NothingRelayed
  <2>4. CASE Opened \/ \E c \in Client : Start(c) \/ Stop(c) \/ Close(c)
    <3>1. NoWrite \/ \E c \in Client : Write(<<Control("enter", c)>>) \/ Write(<<Control("exit", c)>>)
      BY <2>1, <2>4 DEF Opened, Start, Stop, Close, StopSession, Enter, TypeOK
    <3>2. \A c \in Client : /\ Control("enter", c) \in Command /\ Control("enter", c).what # "exchange"
                            /\ Control("exit", c) \in Command /\ Control("exit", c).what # "exchange"
      BY ControlSafe
    <3> QED
      BY <1>1, <2>1, <3>1, <3>2, NothingRelayed
  <2>5. ASSUME NEW c \in Client, Exchange(c)
        PROVE  toDevice'[i].epoch = epoch /\ \A d \in Pending : d.what # "exit"
    <3>1. /\ Without(Awaited, {"exit"})
          /\ \E queue \in Seq(Command) :
               Ours(queue, epoch) /\ usbInFlight \in 0 .. Depth /\ Drain(queue, usbInFlight)
      BY <1>1, <2>5, ExchangeQueue
    <3> QED
      BY <1>1, <2>1, <3>1, DrainRelays
  <2>6. CASE Run /\ Relayed(Head(jobs))
    <3>1. /\ Ours(relayQueue, epoch) /\ relayQueue \in Seq(Command)
          /\ usbInFlight - 1 \in 0 .. Depth /\ Drain(relayQueue, usbInFlight - 1)
          /\ relayQueue # <<>> => Without(Awaited, {"exit"})
      BY <1>1, <2>6, RelayedQueue DEF Run
    <3> QED
      BY <1>1, <2>1, <3>1, DrainRelays
  <2>7. CASE Run /\ ~Relayed(Head(jobs))
    <3> DEFINE query == [Head(jobs).of EXCEPT !.what = "query"]
    <3>1. NoWrite \/ Write(<<query>>)
      BY <2>7 DEF Run, Entered, Started, Stopped
    <3>2. query \in Command /\ query.what # "exchange"
      <4>1. Head(jobs).of \in Command
        BY <2>1, <2>7, FirstAwaited DEF Run
      <4> QED
        BY <4>1 DEF Command
    <3> HIDE DEF query
    <3> QED
      BY <1>1, <2>1, <3>1, <3>2, NothingRelayed
  <2> QED
    BY <1>1, <2>2, <2>3, <2>4, <2>5, <2>6, <2>7 DEF Next
<1>2. IInv /\ SInv /\ [Next]_vars => [A]_vars
  BY <1>1
<1>3. RelayedInSession <=> [][A]_vars
  BY DEF RelayedInSession
<1> HIDE DEF A
<1> QED
  BY <1>2, <1>3, SessionInductive, PTL DEF Spec

-----------------------------------------------------------------------------
(***************************************************************************)
(* What is left of a sequence when some of its commands are lost: it       *)
(* embeds in the whole.  A command never comes at an earlier place than    *)
(* before the loss, counted from the end.                                  *)
(***************************************************************************)
Places2(r, s) == [1 .. Len(r) -> 1 .. Len(s)]
Keeps(f, r, s) ==
  /\ \A i, j \in 1 .. Len(r) : i <= j => f[i] + (j - i) <= f[j]
  /\ \A i \in 1 .. Len(r) : i <= f[i] /\ r[i] = s[f[i]]
Embeds(r, s) == \E f \in Places2(r, s) : Keeps(f, r, s)

\* Everything is left, or nothing.
LEMMA EmbedsSame ==
  ASSUME NEW s \in Seq(Command)
  PROVE  Embeds(s, s) /\ Embeds(<<>>, s) /\ <<>> \in Seq(Command)
<1>1. Len(s) \in Nat /\ Len(<<>>) = 0 /\ <<>> \in Seq(Command)
  BY LenProperties
<1>2. Embeds(s, s)
  <2> DEFINE f == [i \in 1 .. Len(s) |-> i]
  <2>1. f \in Places2(s, s) /\ \A i \in 1 .. Len(s) : f[i] = i
    BY DEF Places2
  <2> HIDE DEF f
  <2>2. Keeps(f, s, s)
    BY <1>1, <2>1 DEF Keeps
  <2> QED
    BY <2>1, <2>2 DEF Embeds
<1>3. Embeds(<<>>, s)
  <2> DEFINE f == [i \in 1 .. Len(<<>>) |-> i]
  <2>1. f \in Places2(<<>>, s)
    BY <1>1 DEF Places2
  <2> HIDE DEF f
  <2>2. Keeps(f, <<>>, s)
    BY <1>1 DEF Keeps
  <2> QED
    BY <2>1, <2>2 DEF Embeds
<1> QED
  BY <1>1, <1>2, <1>3

\* What is left of what was left.
LEMMA EmbedsOver ==
  ASSUME NEW r \in Seq(Command), NEW s \in Seq(Command), NEW t \in Seq(Command),
         Embeds(r, s), Embeds(s, t)
  PROVE  Embeds(r, t)
<1>1. Len(r) \in Nat /\ Len(s) \in Nat /\ Len(t) \in Nat
  BY LenProperties
<1>2. PICK f \in Places2(r, s) : Keeps(f, r, s)
  BY DEF Embeds
<1>3. PICK g \in Places2(s, t) : Keeps(g, s, t)
  BY DEF Embeds
<1>4. /\ \A i \in 1 .. Len(r) : f[i] \in 1 .. Len(s)
      /\ \A i \in 1 .. Len(s) : g[i] \in 1 .. Len(t)
  BY <1>2, <1>3 DEF Places2
<1> DEFINE h == [i \in 1 .. Len(r) |-> g[f[i]]]
<1>5. h \in Places2(r, t) /\ \A i \in 1 .. Len(r) : h[i] = g[f[i]]
  BY <1>4 DEF Places2
<1> HIDE DEF h
<1>6. ASSUME NEW i \in 1 .. Len(r), NEW j \in 1 .. Len(r), i <= j
      PROVE  h[i] + (j - i) <= h[j]
  <2>1. f[i] \in 1 .. Len(s) /\ f[j] \in 1 .. Len(s) /\ f[i] + (j - i) <= f[j]
    BY <1>2, <1>4, <1>6 DEF Keeps
  <2> DEFINE x == f[i]
             y == f[j]
             v == g[x]
             w == g[y]
  <2>2. /\ x \in 1 .. Len(s) /\ y \in 1 .. Len(s) /\ x + (j - i) <= y
        /\ v \in 1 .. Len(t) /\ w \in 1 .. Len(t) /\ h[i] = v /\ h[j] = w
    BY <1>4, <1>5, <2>1
  <2>3. \A k, n \in 1 .. Len(s) : k <= n => g[k] + (n - k) <= g[n]
    BY <1>3 DEF Keeps
  <2> HIDE DEF x, y
  <2>4. x <= y
    BY <1>6, <2>2
  <2>5. v + (y - x) <= w
    BY <2>2, <2>3, <2>4
  <2> HIDE DEF v, w
  <2>6. v + (j - i) <= w
    BY <2>2, <2>5
  <2> QED
    BY <2>2, <2>6
<1>7. ASSUME NEW i \in 1 .. Len(r)
      PROVE  i <= h[i] /\ r[i] = t[h[i]]
  <2>1. f[i] \in 1 .. Len(s) /\ i <= f[i] /\ r[i] = s[f[i]]
    BY <1>2, <1>4 DEF Keeps
  <2>2. f[i] <= g[f[i]] /\ s[f[i]] = t[g[f[i]]] /\ g[f[i]] \in 1 .. Len(t)
    BY <1>3, <1>4, <2>1 DEF Keeps
  <2> QED
    BY <1>5, <2>1, <2>2
<1>8. Keeps(h, r, t)
  BY <1>6, <1>7 DEF Keeps
<1> QED
  BY <1>5, <1>8 DEF Embeds

\* What is left of two parts.
LEMMA EmbedsJoin ==
  ASSUME NEW a \in Seq(Command), NEW b \in Seq(Command), NEW c \in Seq(Command), NEW d \in Seq(Command),
         Embeds(a, c), Embeds(b, d)
  PROVE  a \o b \in Seq(Command) /\ c \o d \in Seq(Command) /\ Embeds(a \o b, c \o d)
<1> DEFINE l == Len(a)
           m == Len(c)
<1>1. l \in Nat /\ m \in Nat /\ Len(b) \in Nat /\ Len(d) \in Nat
  BY LenProperties
<1>2. PICK f \in Places2(a, c) : Keeps(f, a, c)
  BY DEF Embeds
<1>3. PICK g \in Places2(b, d) : Keeps(g, b, d)
  BY DEF Embeds
<1>4. /\ \A i \in 1 .. l : f[i] \in 1 .. m /\ i <= f[i] /\ a[i] = c[f[i]]
      /\ \A i \in 1 .. Len(b) : g[i] \in 1 .. Len(d) /\ i <= g[i] /\ b[i] = d[g[i]]
  BY <1>2, <1>3 DEF Places2, Keeps
<1>5. /\ \A i, j \in 1 .. l : i <= j => f[i] + (j - i) <= f[j]
      /\ \A i, j \in 1 .. Len(b) : i <= j => g[i] + (j - i) <= g[j]
  BY <1>2, <1>3 DEF Keeps
<1>6. /\ a \o b \in Seq(Command) /\ Len(a \o b) = l + Len(b)
      /\ \A i \in 1 .. l + Len(b) : (a \o b)[i] = IF i <= l THEN a[i] ELSE b[i - l]
      /\ c \o d \in Seq(Command) /\ Len(c \o d) = m + Len(d)
      /\ \A i \in 1 .. m + Len(d) : (c \o d)[i] = IF i <= m THEN c[i] ELSE d[i - m]
  BY ConcatProperties
<1> HIDE DEF l, m
<1>7. l <= m
  <2>1. CASE l = 0
    BY <1>1, <2>1
  <2>2. CASE l # 0
    <3>1. f[l] \in 1 .. m /\ l <= f[l]
      BY <1>1, <1>4, <2>2
    <3> QED
      BY <1>1, <3>1
  <2> QED
    BY <2>1, <2>2
<1> DEFINE h == [i \in 1 .. l + Len(b) |-> IF i <= l THEN f[i] ELSE m + g[i - l]]
<1>8. \A i \in 1 .. l + Len(b) : h[i] = IF i <= l THEN f[i] ELSE m + g[i - l]
  OBVIOUS
<1>9. \A i \in 1 .. l + Len(b) : \/ i \in 1 .. l /\ i <= l
                                 \/ i - l \in 1 .. Len(b) /\ ~(i <= l)
  BY <1>1
<1>10. ASSUME NEW i \in 1 .. l + Len(b)
       PROVE  h[i] \in 1 .. m + Len(d) /\ i <= h[i] /\ (a \o b)[i] = (c \o d)[h[i]]
  <2>1. CASE i \in 1 .. l /\ i <= l
    <3> DEFINE x == f[i]
    <3>1. h[i] = x /\ x \in 1 .. m /\ i <= x /\ a[i] = c[x]
      BY <1>4, <1>8, <2>1
    <3> HIDE DEF x, h
    <3>2. x \in 1 .. m + Len(d) /\ x <= m
      BY <1>1, <3>1
    <3>3. (c \o d)[x] = c[x] /\ (a \o b)[i] = a[i]
      BY <1>6, <2>1, <3>2
    <3> QED
      BY <3>1, <3>2, <3>3
  <2>2. CASE i - l \in 1 .. Len(b) /\ ~(i <= l)
    <3> DEFINE x == g[i - l]
               y == m + x
    <3>1. h[i] = y /\ x \in 1 .. Len(d) /\ i - l <= x /\ b[i - l] = d[x]
      BY <1>4, <1>8, <2>2
    <3> HIDE DEF x, h
    <3>2. y \in 1 .. m + Len(d) /\ ~(y <= m) /\ y - m = x /\ i <= y
      BY <1>1, <1>7, <3>1
    <3> HIDE DEF y
    <3>3. (c \o d)[y] = d[x] /\ (a \o b)[i] = b[i - l]
      BY <1>6, <2>2, <3>2
    <3> QED
      BY <3>1, <3>2, <3>3
  <2> QED
    BY <1>9, <2>1, <2>2
<1>11. h \in Places2(a \o b, c \o d)
  BY <1>6, <1>10 DEF Places2
<1> HIDE DEF h
<1>12. ASSUME NEW i \in 1 .. l + Len(b), NEW j \in 1 .. l + Len(b), i <= j
       PROVE  h[i] + (j - i) <= h[j]
  <2>1. CASE j \in 1 .. l /\ j <= l
    <3>1. i \in 1 .. l /\ i <= l
      BY <1>1, <1>12, <2>1
    <3> QED
      BY <1>5, <1>8, <1>12, <2>1, <3>1
  <2>2. CASE i \in 1 .. l /\ i <= l /\ j - l \in 1 .. Len(b) /\ ~(j <= l)
    <3>1. h[i] = f[i] /\ h[j] = m + g[j - l]
      BY <1>8, <2>2
    <3>2. l \in 1 .. l /\ f[i] + (l - i) <= f[l] /\ f[i] \in Int /\ f[l] \in Int /\ f[l] <= m
      BY <1>1, <1>4, <1>5, <2>2
    <3>3. j - l <= g[j - l] /\ g[j - l] \in Int
      BY <1>4, <2>2
    <3>4. i \in Int /\ j \in Int
      BY <2>2
    <3> DEFINE x == f[i]
               y == f[l]
               z == g[j - l]
    <3>5. x \in Int /\ y \in Int /\ z \in Int /\ x + (l - i) <= y /\ y <= m /\ j - l <= z
      BY <3>2, <3>3
    <3> HIDE DEF x, y, z
    <3>6. x + (j - i) <= m + z
      BY <1>1, <3>4, <3>5
    <3> QED
      BY <3>1, <3>6 DEF x, z
  <2>3. CASE i - l \in 1 .. Len(b) /\ ~(i <= l) /\ j - l \in 1 .. Len(b) /\ ~(j <= l)
    <3>1. h[i] = m + g[i - l] /\ h[j] = m + g[j - l]
      BY <1>8, <2>3
    <3>2. g[i - l] + ((j - l) - (i - l)) <= g[j - l] /\ g[i - l] \in Int /\ g[j - l] \in Int
      BY <1>1, <1>4, <1>5, <1>12, <2>3
    <3>3. (j - l) - (i - l) = j - i
      BY <1>1
    <3> DEFINE x == g[i - l]
               y == g[j - l]
    <3>4. x \in Int /\ y \in Int /\ x + (j - i) <= y
      BY <3>2, <3>3
    <3> HIDE DEF x, y
    <3>5. m + x + (j - i) <= m + y
      BY <1>1, <3>4
    <3> QED
      BY <3>1, <3>5 DEF x, y
  <2> QED
    BY <1>1, <1>9, <1>12, <2>1, <2>2, <2>3
<1>13. Keeps(h, a \o b, c \o d)
  BY <1>6, <1>10, <1>12 DEF Keeps
<1> QED
  BY <1>6, <1>11, <1>13 DEF Embeds

First(s, n) == SubSeq(s, 1, n)
Rest(s, n) == SubSeq(s, n + 1, Len(s))

\* A sequence cut in two is both parts together.
LEMMA CutFacts ==
  ASSUME NEW s \in Seq(Command), NEW n \in 0 .. Len(s)
  PROVE  /\ First(s, n) \in Seq(Command) /\ Rest(s, n) \in Seq(Command)
         /\ First(s, n) \o Rest(s, n) = s
         /\ Len(First(s, n)) = n /\ Len(Rest(s, n)) = Len(s) - n /\ Len(s) \in Nat /\ n \in Nat
         /\ \A i \in 1 .. n : First(s, n)[i] = s[i]
         /\ \A i \in 1 .. Len(s) - n : Rest(s, n)[i] = s[n + i]
<1>1. Len(s) \in Nat /\ 1 \in 1 .. Len(s) + 1 /\ n \in 1 - 1 .. Len(s) /\ Len(s) \in n .. Len(s) /\ n \in Nat
  BY LenProperties
<1>2. SubSeq(s, 1, n) \o SubSeq(s, n + 1, Len(s)) = SubSeq(s, 1, Len(s))
  BY <1>1, ConcatAdjacentSubSeq
<1>3. SubSeq(s, 1, Len(s)) = s
  BY SubSeqFull
<1>4. /\ SubSeq(s, 1, n) \in Seq(Command) /\ Len(SubSeq(s, 1, n)) = n
      /\ \A i \in 1 .. n : SubSeq(s, 1, n)[i] = s[i]
      /\ SubSeq(s, n + 1, Len(s)) \in Seq(Command)
      /\ Len(SubSeq(s, n + 1, Len(s))) = Len(s) - n
      /\ \A i \in 1 .. Len(s) - n : SubSeq(s, n + 1, Len(s))[i] = s[n + i]
  BY ManyCut
<1>5. /\ First(s, n) \in Seq(Command) /\ Len(First(s, n)) = n
      /\ \A i \in 1 .. n : First(s, n)[i] = s[i]
  BY <1>4 DEF First
<1>6. /\ Rest(s, n) \in Seq(Command) /\ Len(Rest(s, n)) = Len(s) - n
      /\ \A i \in 1 .. Len(s) - n : Rest(s, n)[i] = s[n + i]
  BY <1>4 DEF Rest
<1>7. First(s, n) \o Rest(s, n) = s
  BY <1>2, <1>3, Zenon DEF First, Rest
<1> QED
  BY <1>1, <1>5, <1>6, <1>7

\* Each part of a sequence embeds in it.
LEMMA EmbedsPart ==
  ASSUME NEW s \in Seq(Command), NEW n \in 0 .. Len(s)
  PROVE  Embeds(First(s, n), s) /\ Embeds(Rest(s, n), s)
<1> DEFINE a == First(s, n)
           b == Rest(s, n)
<1>1. a \in Seq(Command) /\ b \in Seq(Command) /\ a \o b = s
  BY CutFacts
<1> HIDE DEF a, b
<1>2. /\ Embeds(a, a) /\ Embeds(b, b) /\ Embeds(<<>>, a) /\ Embeds(<<>>, b)
      /\ <<>> \in Seq(Command) /\ a \o <<>> = a /\ <<>> \o b = b
  BY <1>1, EmbedsSame, ConcatEmptySeq
<1>3. Embeds(a \o <<>>, a \o b) /\ Embeds(<<>> \o b, a \o b)
  BY <1>1, <1>2, EmbedsJoin
<1> QED
  BY <1>1, <1>2, <1>3 DEF a, b

\* The tail is what the first command leaves.
LEMMA TailRest ==
  ASSUME NEW s \in Seq(Command), s # <<>>
  PROVE  /\ Tail(s) = Rest(s, 1) /\ 1 \in 0 .. Len(s) /\ Tail(s) \in Seq(Command)
         /\ Head(s) = s[1] /\ Head(s) \in Command /\ 1 \in 1 .. Len(s)
         /\ Embeds(Tail(s), s)
<1>1. /\ Len(s) \in Nat \ {0} /\ Len(Tail(s)) = Len(s) - 1 /\ Tail(s) \in Seq(Command)
      /\ \A i \in 1 .. Len(Tail(s)) : Tail(s)[i] = s[i + 1]
      /\ Head(s) = s[1] /\ Head(s) \in Command
  BY HeadTailProperties, EmptySeq
<1>2. 1 \in 0 .. Len(s) /\ 1 \in 1 .. Len(s)
  BY <1>1
<1>3. /\ Rest(s, 1) \in Seq(Command) /\ Len(Rest(s, 1)) = Len(s) - 1
      /\ \A i \in 1 .. Len(s) - 1 : Rest(s, 1)[i] = s[1 + i]
  BY <1>2, CutFacts
<1>4. \A i \in 1 .. Len(s) - 1 : Tail(s)[i] = Rest(s, 1)[i]
  <2>1. ASSUME NEW i \in 1 .. Len(s) - 1 PROVE Tail(s)[i] = Rest(s, 1)[i]
    <3>1. 1 + i = i + 1
      OBVIOUS
    <3> QED
      BY <1>1, <1>3, <3>1
  <2> QED
    BY <2>1
<1>5. Tail(s) = Rest(s, 1)
  BY <1>1, <1>3, <1>4, SeqEqual
<1> QED
  BY <1>1, <1>2, <1>5, EmbedsPart

\* As many commands less on both sides.
LEMMA EmbedsRest ==
  ASSUME NEW r \in Seq(Command), NEW s \in Seq(Command), Embeds(r, s),
         NEW n \in 0 .. Len(r), n <= Len(s)
  PROVE  Embeds(Rest(r, n), Rest(s, n))
<1>1. /\ Len(r) \in Nat /\ Len(s) \in Nat /\ n \in Nat /\ n \in 0 .. Len(s)
  BY LenProperties
<1>2. PICK f \in Places2(r, s) : Keeps(f, r, s)
  BY DEF Embeds
<1> DEFINE a == Rest(r, n)
           b == Rest(s, n)
<1>3. /\ Len(a) = Len(r) - n /\ \A i \in 1 .. Len(r) - n : a[i] = r[n + i]
      /\ Len(b) = Len(s) - n /\ \A i \in 1 .. Len(s) - n : b[i] = s[n + i]
  BY <1>1, CutFacts
<1> HIDE DEF a, b
<1>4. /\ \A i \in 1 .. Len(r) : f[i] \in 1 .. Len(s) /\ i <= f[i] /\ r[i] = s[f[i]]
      /\ \A i, j \in 1 .. Len(r) : i <= j => f[i] + (j - i) <= f[j]
  BY <1>2 DEF Places2, Keeps
<1> DEFINE g == [i \in 1 .. Len(a) |-> f[n + i] - n]
<1>5. \A i \in 1 .. Len(a) : g[i] = f[n + i] - n
  OBVIOUS
<1> HIDE DEF g
<1>6. \A i \in 1 .. Len(a) : n + i \in 1 .. Len(r)
  BY <1>1, <1>3
<1>7. ASSUME NEW i \in 1 .. Len(a)
      PROVE  g[i] \in 1 .. Len(b) /\ i <= g[i] /\ a[i] = b[g[i]]
  <2> DEFINE x == f[n + i]
             y == x - n
  <2>1. x \in 1 .. Len(s) /\ n + i <= x /\ r[n + i] = s[x] /\ g[i] = y
    BY <1>4, <1>5, <1>6
  <2> HIDE DEF x
  <2>2. y \in 1 .. Len(s) - n /\ i <= y /\ n + y = x
    BY <1>1, <1>3, <2>1
  <2> HIDE DEF y
  <2>3. b[y] = s[x] /\ a[i] = r[n + i]
    BY <1>3, <2>2
  <2> QED
    BY <1>3, <2>1, <2>2, <2>3
<1>8. ASSUME NEW i \in 1 .. Len(a), NEW j \in 1 .. Len(a), i <= j
      PROVE  g[i] + (j - i) <= g[j]
  <2> DEFINE x == f[n + i]
             y == f[n + j]
  <2>1. x \in 1 .. Len(s) /\ y \in 1 .. Len(s) /\ g[i] = x - n /\ g[j] = y - n
    BY <1>4, <1>5, <1>6
  <2>2. n + i <= n + j /\ (n + j) - (n + i) = j - i
    BY <1>1, <1>8
  <2>3. x + (j - i) <= y
    BY <1>4, <1>6, <2>2
  <2> HIDE DEF x, y
  <2>4. (x - n) + (j - i) <= y - n
    BY <1>1, <2>1, <2>3
  <2> QED
    BY <2>1, <2>4
<1>9. g \in Places2(a, b)
  BY <1>7 DEF Places2, g
<1>10. Keeps(g, a, b)
  BY <1>7, <1>8 DEF Keeps
<1> QED
  BY <1>9, <1>10 DEF Embeds, a, b

\* Nothing is left of the first command.
LEMMA EmbedsSkip ==
  ASSUME NEW r \in Seq(Command), NEW s \in Seq(Command), Embeds(r, s), s # <<>>,
         \A i \in 1 .. Len(r) : r[i] # Head(s)
  PROVE  Embeds(r, Tail(s))
<1> DEFINE b == Tail(s)
<1>1. /\ Len(r) \in Nat /\ Len(s) \in Nat \ {0} /\ Len(b) = Len(s) - 1 /\ Head(s) = s[1]
      /\ \A i \in 1 .. Len(b) : b[i] = s[i + 1]
  BY LenProperties, HeadTailProperties, EmptySeq
<1> HIDE DEF b
<1>2. PICK f \in Places2(r, s) : Keeps(f, r, s)
  BY DEF Embeds
<1>4. /\ \A i \in 1 .. Len(r) : f[i] \in 1 .. Len(s) /\ i <= f[i] /\ r[i] = s[f[i]]
      /\ \A i, j \in 1 .. Len(r) : i <= j => f[i] + (j - i) <= f[j]
  BY <1>2 DEF Places2, Keeps
<1> DEFINE g == [i \in 1 .. Len(r) |-> f[i] - 1]
<1>5. \A i \in 1 .. Len(r) : g[i] = f[i] - 1
  OBVIOUS
<1> HIDE DEF g
<1>7. ASSUME NEW i \in 1 .. Len(r)
      PROVE  g[i] \in 1 .. Len(b) /\ i <= g[i] /\ r[i] = b[g[i]]
  <2> DEFINE x == f[1]
             y == f[i]
             z == y - 1
  <2>1. 1 \in 1 .. Len(r) /\ 1 <= i
    BY <1>1
  <2>2. x \in 1 .. Len(s) /\ y \in 1 .. Len(s) /\ g[i] = z /\ r[i] = s[y] /\ x + (i - 1) <= y
    BY <1>4, <1>5, <2>1
  <2>3. x # 1
    BY <1>1, <1>4, <2>1
  <2> HIDE DEF x, y
  <2>4. z \in 1 .. Len(b) /\ i <= z /\ z + 1 = y
    BY <1>1, <2>2, <2>3
  <2> HIDE DEF z
  <2> QED
    BY <1>1, <2>2, <2>4
<1>8. ASSUME NEW i \in 1 .. Len(r), NEW j \in 1 .. Len(r), i <= j
      PROVE  g[i] + (j - i) <= g[j]
  <2> DEFINE x == f[i]
             y == f[j]
  <2>1. x \in 1 .. Len(s) /\ y \in 1 .. Len(s) /\ g[i] = x - 1 /\ g[j] = y - 1 /\ x + (j - i) <= y
    BY <1>4, <1>5, <1>8
  <2> HIDE DEF x, y
  <2>4. (x - 1) + (j - i) <= y - 1
    BY <2>1
  <2> QED
    BY <2>1, <2>4
<1>9. g \in Places2(r, b)
  BY <1>7 DEF Places2, g
<1>10. Keeps(g, r, b)
  BY <1>7, <1>8 DEF Keeps
<1> QED
  BY <1>9, <1>10 DEF Embeds, b

\* A cut in the first of two parts.
LEMMA RestJoin ==
  ASSUME NEW a \in Seq(Command), NEW b \in Seq(Command), NEW n \in 0 .. Len(a)
  PROVE  Rest(a \o b, n) = Rest(a, n) \o b /\ n \in 0 .. Len(a \o b) /\ a \o b \in Seq(Command)
<1> DEFINE s == a \o b
           c == First(a, n)
           d == Rest(a, n)
<1>1. /\ Len(a) \in Nat /\ Len(b) \in Nat /\ n \in Nat
      /\ c \in Seq(Command) /\ d \in Seq(Command) /\ c \o d = a
      /\ Len(c) = n /\ Len(d) = Len(a) - n
  BY CutFacts, LenProperties
<1> HIDE DEF c, d
<1>2. s \in Seq(Command) /\ Len(s) = Len(a) + Len(b) /\ s = c \o (d \o b)
  <2>1. (c \o d) \o b = c \o (d \o b)
    <3>1. c \in Seq(Command) /\ d \in Seq(Command)
      BY <1>1
    <3> QED
      <4>1. Regrouped(c, d, b)
        BY <3>1, Regroup
      <4> QED
        BY <4>1 DEF Regrouped
  <2>2. s \in Seq(Command) /\ Len(s) = Len(a) + Len(b)
    BY ConcatProperties
  <2> QED
    BY <1>1, <2>1, <2>2
<1>3. n \in 0 .. Len(s)
  BY <1>1, <1>2
<1> DEFINE t == d \o b
<1>4. t \in Seq(Command) /\ Len(t) = Len(d) + Len(b) /\ s = c \o t
  BY <1>1, <1>2, ConcatProperties
<1> HIDE DEF t, s
<1>5. \A i \in 1 .. Len(t) : s[Len(c) + i] = t[i]
  <2>1. \A i \in 1 .. Len(t) : (c \o t)[Len(c) + i] = t[i]
    <3>1. c \in Seq(Command) /\ t \in Seq(Command)
      BY <1>1, <1>4
    <3> QED
      BY <3>1, Split
  <2> QED
    BY <1>4, <2>1
<1>6. /\ Rest(s, n) \in Seq(Command) /\ Len(Rest(s, n)) = Len(s) - n
      /\ \A i \in 1 .. Len(s) - n : Rest(s, n)[i] = s[n + i]
  BY <1>2, <1>3, CutFacts
<1>7. Len(s) - n = Len(t)
  BY <1>1, <1>2, <1>4
<1>8. Rest(s, n) = t
  <2> DEFINE u == Rest(s, n)
  <2>1. u \in Seq(Command) /\ Len(u) = Len(t) /\ \A i \in 1 .. Len(t) : u[i] = s[n + i]
    BY <1>6, <1>7
  <2> HIDE DEF u
  <2>2. \A i \in 1 .. Len(u) : u[i] = t[i]
    BY <1>1, <1>5, <2>1
  <2>3. u = t
    BY <1>4, <2>1, <2>2, SeqEqual
  <2> QED
    BY <2>3 DEF u
<1> QED
  BY <1>2, <1>3, <1>8 DEF s, t, d

\* The exchanges of a sequence are of some kind, and come with growing numbers.
Fits(s, S) == \A i \in 1 .. Len(s) : s[i].what = "exchange" => s[i] \in S
Rising(s) ==
  \A i, j \in 1 .. Len(s) :
    i < j /\ s[i].what = "exchange" /\ s[j].what = "exchange" => s[i].number < s[j].number

\* What is left is as orderly as the whole.
LEMMA EmbedsHolds ==
  ASSUME NEW r \in Seq(Command), NEW s \in Seq(Command), Embeds(r, s)
  PROVE  /\ \A kinds : Without(s, kinds) => Without(r, kinds)
         /\ OnlyLast(s) => OnlyLast(r)
         /\ \A S : Fits(s, S) => Fits(r, S)
         /\ Rising(s) => Rising(r)
         /\ s = <<>> => r = <<>>
         /\ \A i \in 1 .. Len(r) : i = Len(s) => r[i] = s[i]
<1>1. /\ Len(r) \in Nat /\ Len(s) \in Nat
  BY LenProperties
<1>2. PICK f \in Places2(r, s) : Keeps(f, r, s)
  BY DEF Embeds
<1>3. /\ \A i \in 1 .. Len(r) : f[i] \in 1 .. Len(s) /\ i <= f[i] /\ r[i] = s[f[i]]
      /\ \A i, j \in 1 .. Len(r) : i <= j => f[i] + (j - i) <= f[j]
  BY <1>2 DEF Places2, Keeps
<1>4. ASSUME NEW kinds, Without(s, kinds) PROVE Without(r, kinds)
  BY <1>3, <1>4 DEF Without
<1>5. ASSUME NEW S, Fits(s, S) PROVE Fits(r, S)
  BY <1>3, <1>5 DEF Fits
<1>6. ASSUME NEW i \in 1 .. Len(r), NEW j \in 1 .. Len(r), i < j PROVE f[i] < f[j]
  <2> DEFINE x == f[i]
             y == f[j]
  <2>1. x \in 1 .. Len(s) /\ y \in 1 .. Len(s) /\ x + (j - i) <= y
    BY <1>3, <1>6
  <2> HIDE DEF x, y
  <2>2. x < y
    BY <1>6, <2>1
  <2> QED
    BY <2>2 DEF x, y
<1>7. ASSUME Rising(s) PROVE Rising(r)
  <2>1. SUFFICES ASSUME NEW i \in 1 .. Len(r), NEW j \in 1 .. Len(r), i < j,
                        r[i].what = "exchange", r[j].what = "exchange"
                 PROVE  r[i].number < r[j].number
    BY DEF Rising
  <2>2. f[i] \in 1 .. Len(s) /\ f[j] \in 1 .. Len(s) /\ r[i] = s[f[i]] /\ r[j] = s[f[j]]
    BY <1>3
  <2>3. f[i] < f[j]
    BY <1>6, <2>1
  <2> QED
    BY <1>7, <2>1, <2>2, <2>3 DEF Rising
<1>8. ASSUME OnlyLast(s), NEW i \in 1 .. Len(r), r[i].what \in Begins PROVE i = Len(r)
  <2>1. f[i] = Len(s)
    BY <1>3, <1>8 DEF OnlyLast
  <2>2. Len(r) \in 1 .. Len(r)
    BY <1>1
  <2>3. CASE i < Len(r)
    <3>1. f[i] < f[Len(r)] /\ f[Len(r)] \in 1 .. Len(s)
      BY <1>3, <1>6, <2>2, <2>3
    <3> QED
      BY <1>1, <2>1, <3>1
  <2> QED
    BY <1>1, <2>3
<1>9. ASSUME s = <<>> PROVE r = <<>>
  <2>1. Len(s) = 0
    BY <1>9
  <2>2. Len(r) = 0
    BY <1>1, <1>3, <2>1
  <2> QED
    BY <2>2, EmptySeq
<1>10. ASSUME NEW i \in 1 .. Len(r), i = Len(s) PROVE r[i] = s[i]
  <2>1. f[i] \in 1 .. Len(s) /\ i <= f[i] /\ r[i] = s[f[i]]
    BY <1>3
  <2>2. f[i] = i
    BY <1>1, <1>10, <2>1
  <2> QED
    BY <2>1, <2>2
<1> QED
  BY <1>4, <1>5, <1>7, <1>8, <1>9, <1>10 DEF OnlyLast

\* Two parts fit together if each does.
LEMMA FitsJoin ==
  ASSUME NEW s \in Seq(Command), NEW t \in Seq(Command), NEW S
  PROVE  Fits(s \o t, S) <=> Fits(s, S) /\ Fits(t, S)
<1>1. ASSUME Fits(s \o t, S) PROVE Fits(s, S) /\ Fits(t, S)
  <2>1. ASSUME NEW i \in 1 .. Len(s), s[i].what = "exchange" PROVE s[i] \in S
    <3>1. i \in 1 .. Len(s \o t) /\ (s \o t)[i] = s[i]
      BY Split
    <3> QED
      BY <1>1, <2>1, <3>1 DEF Fits
  <2>2. ASSUME NEW i \in 1 .. Len(t), t[i].what = "exchange" PROVE t[i] \in S
    <3>1. Len(s) + i \in 1 .. Len(s \o t) /\ (s \o t)[Len(s) + i] = t[i]
      BY Split
    <3> QED
      BY <1>1, <2>2, <3>1 DEF Fits
  <2> QED
    BY <2>1, <2>2 DEF Fits
<1>2. ASSUME Fits(s, S), Fits(t, S), NEW i \in 1 .. Len(s \o t), (s \o t)[i].what = "exchange"
      PROVE  (s \o t)[i] \in S
  <2>1. CASE i \in 1 .. Len(s)
    BY <1>2, <2>1, Split DEF Fits
  <2>2. CASE \E j \in 1 .. Len(t) : i = Len(s) + j
    BY <1>2, <2>2, Split DEF Fits
  <2> QED
    BY <2>1, <2>2, Split
<1> QED
  BY <1>1, <1>2 DEF Fits

\* A command at the end: no exchange, or one with a greater number.
LEMMA RisingEnd ==
  ASSUME NEW s \in Seq(Command), NEW c \in Command, Rising(s),
         c.what # "exchange" \/ Fits(s, {d \in Command : d.number < c.number})
  PROVE  Rising(s \o <<c>>)
<1>1. /\ <<c>> \in Seq(Command) /\ Len(<<c>>) = 1 /\ <<c>>[1] = c /\ Len(s) \in Nat
      /\ \A i \in 1 .. Len(<<c>>) : i = 1
  BY LenProperties
<1>2. /\ Len(s \o <<c>>) = Len(s) + 1
      /\ \A i \in 1 .. Len(s) : (s \o <<c>>)[i] = s[i]
      /\ (s \o <<c>>)[Len(s) + 1] = c
      /\ \A i \in 1 .. Len(s \o <<c>>) : i \in 1 .. Len(s) \/ i = Len(s) + 1
  BY <1>1, Split
<1> SUFFICES ASSUME NEW i \in 1 .. Len(s \o <<c>>), NEW j \in 1 .. Len(s \o <<c>>), i < j,
                    (s \o <<c>>)[i].what = "exchange", (s \o <<c>>)[j].what = "exchange"
             PROVE  (s \o <<c>>)[i].number < (s \o <<c>>)[j].number
  BY DEF Rising
<1>3. i \in 1 .. Len(s)
  BY <1>1, <1>2
<1>4. CASE j \in 1 .. Len(s)
  BY <1>2, <1>3, <1>4 DEF Rising
<1>5. CASE j = Len(s) + 1
  BY <1>2, <1>3, <1>5 DEF Fits
<1> QED
  BY <1>2, <1>4, <1>5

-----------------------------------------------------------------------------
(***************************************************************************)
(* What comes back: the commands of the replies that the jobs bring, that  *)
(* lie in the buffer, that are on the line, and that the device will send; *)
(* and the requests that will follow them.                                 *)
(***************************************************************************)
\* A timeout brings nothing.
Back(js) ==
  IF \E i \in 1 .. Len(js) : js[i].reply.status = "timeout" THEN <<>>
  ELSE [i \in 1 .. Len(js) |-> js[i].reply.of]
Flow(b, l, d) == Of(b) \o (Of(l) \o d)
Answers == Flow(buffer, line, toDevice)
Coming == Back(jobs) \o Answers \o relayQueue
Waiting == waiters \o writing

\* The commands of a sequence of replies.
LEMMA OfReplies ==
  ASSUME NEW rs \in Seq(Reply)
  PROVE  /\ Of(rs) \in Seq(Command) /\ Len(Of(rs)) = Len(rs) /\ Len(rs) \in Nat
         /\ \A i \in 1 .. Len(rs) : rs[i] \in Reply /\ Of(rs)[i] = rs[i].of
<1>1. Len(rs) \in Nat /\ \A i \in 1 .. Len(rs) : rs[i] \in Reply /\ rs[i].of \in Command
  <2>1. Len(rs) \in Nat /\ \A i \in 1 .. Len(rs) : rs[i] \in Reply
    BY LenProperties, ElementOfSeq
  <2>2. \A reply \in Reply : reply.of \in Command
    BY DEF Reply
  <2> QED
    BY <2>1, <2>2
<1>2. Of(rs) \in [1 .. Len(rs) -> Command] /\ \A i \in 1 .. Len(rs) : Of(rs)[i] = rs[i].of
  BY <1>1 DEF Of
<1>3. Of(rs) \in Seq(Command)
  BY <1>1, <1>2, SeqDef
<1>4. DOMAIN Of(rs) = 1 .. Len(Of(rs)) /\ Len(Of(rs)) \in Nat
  BY <1>3, LenProperties
<1>5. Len(Of(rs)) = Len(rs)
  <2>1. 1 .. Len(Of(rs)) = 1 .. Len(rs)
    BY <1>2, <1>4
  <2> QED
    BY <1>1, <1>4, <2>1
<1> QED
  BY <1>1, <1>2, <1>3, <1>5

\* What jobs bring back.
LEMMA BackFacts ==
  ASSUME NEW js \in Seq(Job)
  PROVE  /\ Back(js) \in Seq(Command)
         /\ \/ (\E i \in 1 .. Len(js) : js[i].reply.status = "timeout") /\ Back(js) = <<>>
            \/ /\ \A i \in 1 .. Len(js) : js[i].reply.status # "timeout"
               /\ Len(Back(js)) = Len(js) /\ \A i \in 1 .. Len(js) : Back(js)[i] = js[i].reply.of
         /\ Back(<<>>) = <<>>
<1>1. Len(js) \in Nat /\ \A i \in 1 .. Len(js) : js[i].reply.of \in Command
  <2>1. Len(js) \in Nat /\ \A i \in 1 .. Len(js) : js[i] \in Job
    BY LenProperties, ElementOfSeq
  <2>2. \A job \in Job : job.reply.of \in Command
    BY DEF Job, Reply
  <2> QED
    BY <2>1, <2>2
<1>2. Back(<<>>) = <<>>
  <2>1. Len(<<>>) = 0 /\ 1 .. 0 = {}
    OBVIOUS
  <2>2. [i \in 1 .. Len(<<>>) |-> <<>>[i].reply.of] = <<>>
    BY <2>1
  <2> QED
    BY <2>1, <2>2 DEF Back
<1>3. CASE \E i \in 1 .. Len(js) : js[i].reply.status = "timeout"
  <2>1. Back(js) = <<>> /\ <<>> \in Seq(Command)
    BY <1>3 DEF Back
  <2> QED
    BY <1>2, <1>3, <2>1
<1>4. CASE ~\E i \in 1 .. Len(js) : js[i].reply.status = "timeout"
  <2>1. Back(js) = [i \in 1 .. Len(js) |-> js[i].reply.of]
    BY <1>4 DEF Back
  <2>2. Back(js) \in [1 .. Len(js) -> Command] /\ \A i \in 1 .. Len(js) : Back(js)[i] = js[i].reply.of
    BY <1>1, <2>1
  <2>3. Back(js) \in Seq(Command)
    BY <1>1, <2>2, SeqDef
  <2>4. DOMAIN Back(js) = 1 .. Len(Back(js)) /\ Len(Back(js)) \in Nat
    BY <2>3, LenProperties
  <2>5. 1 .. Len(Back(js)) = 1 .. Len(js)
    BY <2>2, <2>4
  <2>6. Len(Back(js)) = Len(js)
    BY <1>1, <2>4, <2>5
  <2> QED
    BY <1>2, <1>4, <2>2, <2>3, <2>6
<1> QED
  BY <1>3, <1>4

\* What is on the way has the types of its parts.
LEMMA FlowType ==
  ASSUME NEW b \in Seq(Reply), NEW l \in Seq(Reply), NEW d \in Seq(Command)
  PROVE  /\ Of(b) \in Seq(Command) /\ Of(l) \in Seq(Command) /\ Of(l) \o d \in Seq(Command)
         /\ Flow(b, l, d) \in Seq(Command)
BY OfReplies, ConcatProperties DEF Flow

\* The types of all that is on the way.
LEMMA Streams ==
  ASSUME TypeOK
  PROVE  /\ Back(jobs) \in Seq(Command) /\ Of(buffer) \in Seq(Command) /\ Of(line) \in Seq(Command)
         /\ Answers \in Seq(Command) /\ Back(jobs) \o Answers \in Seq(Command)
         /\ Coming \in Seq(Command) /\ Waiting \in Seq(Command) /\ Awaited \in Seq(Command)
         /\ toDevice \in Seq(Command) /\ relayQueue \in Seq(Command) /\ writing \in Seq(Command)
         /\ waiters \in Seq(Command)
<1>1. /\ jobs \in Seq(Job) /\ buffer \in Seq(Reply) /\ line \in Seq(Reply) /\ toDevice \in Seq(Command)
      /\ waiters \in Seq(Command) /\ writing \in Seq(Command) /\ relayQueue \in Seq(Command)
  BY DEF TypeOK
<1>2. /\ Back(jobs) \in Seq(Command) /\ Of(buffer) \in Seq(Command) /\ Of(line) \in Seq(Command)
      /\ Answers \in Seq(Command)
  BY <1>1, BackFacts, FlowType DEF Answers
<1>3. Back(jobs) \o Answers \in Seq(Command) /\ Waiting \in Seq(Command)
  BY <1>1, <1>2, ConcatProperties DEF Waiting
<1>4. Coming \in Seq(Command)
  BY <1>1, <1>3, ConcatProperties DEF Coming
<1> QED
  BY <1>1, <1>2, <1>3, <1>4, Sequences

\* Of what comes back, and of what is awaited, some is lost.
LEMMA FlowLess ==
  ASSUME NEW b \in Seq(Reply), NEW l \in Seq(Reply), NEW d \in Seq(Command),
         NEW c \in Seq(Reply), NEW m \in Seq(Reply), NEW e \in Seq(Command),
         Embeds(Of(c), Of(b)), Embeds(Of(m), Of(l)), Embeds(e, d)
  PROVE  Embeds(Flow(c, m, e), Flow(b, l, d))
<1>1. /\ Of(b) \in Seq(Command) /\ Of(l) \in Seq(Command) /\ Of(c) \in Seq(Command) /\ Of(m) \in Seq(Command)
      /\ Of(l) \o d \in Seq(Command) /\ Of(m) \o e \in Seq(Command)
  BY FlowType
<1>2. Embeds(Of(m) \o e, Of(l) \o d)
  BY <1>1, EmbedsJoin
<1> QED
  BY <1>1, <1>2, EmbedsJoin DEF Flow

\* A step that only loses some of what comes.
LEMMA ComingLess ==
  ASSUME TypeOK, TypeOK', Embeds(Back(jobs'), Back(jobs)), Embeds(Answers', Answers),
         Embeds(relayQueue', relayQueue)
  PROVE  Embeds(Coming', Coming)
<1>1. /\ Back(jobs) \in Seq(Command) /\ Answers \in Seq(Command) /\ relayQueue \in Seq(Command)
      /\ Back(jobs) \o Answers \in Seq(Command)
  BY Streams
<1>2. /\ Back(jobs') \in Seq(Command) /\ Answers' \in Seq(Command) /\ relayQueue' \in Seq(Command)
  BY BackFacts, FlowType DEF TypeOK, Answers
<1> DEFINE a == Back(jobs)
           b == Answers
           q == relayQueue
           c == Back(jobs')
           d == Answers'
           r == relayQueue'
<1>3. /\ a \in Seq(Command) /\ b \in Seq(Command) /\ q \in Seq(Command)
      /\ c \in Seq(Command) /\ d \in Seq(Command) /\ r \in Seq(Command)
      /\ Embeds(c, a) /\ Embeds(d, b) /\ Embeds(r, q)
      /\ Coming = a \o b \o q /\ Coming' = c \o d \o r
  BY <1>1, <1>2 DEF Coming
<1> HIDE DEF a, b, q, c, d, r
<1>4. c \o d \in Seq(Command) /\ a \o b \in Seq(Command) /\ Embeds(c \o d, a \o b)
  BY <1>3, EmbedsJoin
<1>5. Embeds((c \o d) \o r, (a \o b) \o q)
  BY <1>3, <1>4, EmbedsJoin
<1> QED
  BY <1>3, <1>5

\* The same of jobs and answers together.
LEMMA ComingTaken ==
  ASSUME TypeOK, TypeOK', Embeds(Back(jobs') \o Answers', Back(jobs) \o Answers),
         relayQueue' = relayQueue
  PROVE  Embeds(Coming', Coming)
<1>1. relayQueue \in Seq(Command) /\ Back(jobs) \o Answers \in Seq(Command)
  BY Streams
<1>2. /\ Back(jobs') \in Seq(Command) /\ Answers' \in Seq(Command)
  BY BackFacts, FlowType DEF TypeOK, Answers
<1>3. Back(jobs') \o Answers' \in Seq(Command)
  BY <1>2, ConcatProperties
<1> DEFINE a == Back(jobs) \o Answers
           b == Back(jobs') \o Answers'
           q == relayQueue
<1>4. /\ a \in Seq(Command) /\ b \in Seq(Command) /\ q \in Seq(Command) /\ Embeds(b, a)
      /\ Coming = a \o q /\ Coming' = b \o q
  BY <1>1, <1>3 DEF Coming
<1> HIDE DEF a, b, q
<1>5. Embeds(b \o q, a \o q)
  BY <1>4, EmbedsSame, EmbedsJoin
<1> QED
  BY <1>4, <1>5

\* The first frame is the first command that comes.
LEMMA OfRest ==
  ASSUME NEW rs \in Seq(Reply), rs # <<>>
  PROVE  /\ Head(rs) \in Reply /\ Tail(rs) \in Seq(Reply) /\ Of(rs) # <<>> /\ 1 \in 1 .. Len(rs)
         /\ Head(rs) = rs[1] /\ Of(rs)[1] = Head(rs).of /\ Of(Tail(rs)) = Rest(Of(rs), 1)
         /\ \A i \in 1 .. Len(Tail(rs)) : i + 1 \in 1 .. Len(rs) /\ Tail(rs)[i] = rs[i + 1]
<1>1. /\ Head(rs) \in Reply /\ Tail(rs) \in Seq(Reply) /\ Len(Tail(rs)) = Len(rs) - 1
      /\ \A i \in 1 .. Len(Tail(rs)) : Tail(rs)[i] = rs[i + 1]
      /\ Len(rs) \in Nat \ {0} /\ Head(rs) = rs[1]
  BY HeadTailProperties, EmptySeq
<1> DEFINE s == Of(rs)
           t == Tail(rs)
           u == Of(t)
<1>2. s \in Seq(Command) /\ Len(s) = Len(rs) /\ \A i \in 1 .. Len(rs) : s[i] = rs[i].of
  BY OfReplies
<1>3. t \in Seq(Reply) /\ Len(t) = Len(rs) - 1 /\ \A i \in 1 .. Len(t) : t[i] = rs[i + 1]
  BY <1>1
<1> HIDE DEF s, t
<1>4. u \in Seq(Command) /\ Len(u) = Len(t) /\ \A i \in 1 .. Len(t) : u[i] = t[i].of
  BY <1>3, OfReplies
<1> HIDE DEF u
<1>5. /\ 1 \in 0 .. Len(s) /\ 1 \in 1 .. Len(rs) /\ s # <<>>
      /\ \A i \in 1 .. Len(t) : i + 1 \in 1 .. Len(rs) /\ 1 + i = i + 1 /\ i \in 1 .. Len(s) - 1
  BY <1>1, <1>2, <1>3
<1> DEFINE v == Rest(s, 1)
<1>6. v \in Seq(Command) /\ Len(v) = Len(s) - 1 /\ \A i \in 1 .. Len(s) - 1 : v[i] = s[1 + i]
  BY <1>2, <1>5, CutFacts
<1> HIDE DEF v
<1>7. ASSUME NEW i \in 1 .. Len(u) PROVE u[i] = v[i]
  <2>1. i \in 1 .. Len(t) /\ i + 1 \in 1 .. Len(rs) /\ 1 + i = i + 1 /\ i \in 1 .. Len(s) - 1
    BY <1>4, <1>5
  <2> QED
    BY <1>2, <1>3, <1>4, <1>6, <2>1
<1>8. Len(u) = Len(v)
  BY <1>2, <1>3, <1>4, <1>6
<1>9. u = v
  BY <1>4, <1>6, <1>7, <1>8, SeqEqual
<1> QED
  BY <1>1, <1>2, <1>5, <1>9 DEF s, t, u, v

\* The commands of a part of the frames, and of frames put together.
LEMMA OfCut ==
  ASSUME NEW rs \in Seq(Reply), NEW n \in 0 .. Len(rs)
  PROVE  /\ SubSeq(rs, n + 1, Len(rs)) \in Seq(Reply) /\ SubSeq(rs, 1, n) \in Seq(Reply)
         /\ Of(SubSeq(rs, n + 1, Len(rs))) = Rest(Of(rs), n)
         /\ Of(SubSeq(rs, 1, n)) = First(Of(rs), n)
         /\ \A i \in 1 .. Len(SubSeq(rs, n + 1, Len(rs))) :
              n + i \in 1 .. Len(rs) /\ SubSeq(rs, n + 1, Len(rs))[i] = rs[n + i]
         /\ \A i \in 1 .. Len(SubSeq(rs, 1, n)) :
              i \in 1 .. Len(rs) /\ SubSeq(rs, 1, n)[i] = rs[i]
<1>1. Len(rs) \in Nat /\ n \in Nat /\ n <= Len(rs) /\ \A i \in 1 .. Len(rs) : rs[i] \in Reply
  BY OfReplies
<1> DEFINE s == Of(rs)
           a == SubSeq(rs, 1, n)
           b == SubSeq(rs, n + 1, Len(rs))
<1>2. s \in Seq(Command) /\ Len(s) = Len(rs) /\ \A i \in 1 .. Len(rs) : s[i] = rs[i].of
  BY OfReplies
<1> HIDE DEF s
<1>3. a \in Seq(Reply) /\ Len(a) = n /\ \A i \in 1 .. n : a[i] = rs[i]
  <2>1. \A i \in 1 .. n : rs[i] \in Reply
    BY <1>1
  <2>2. /\ a \in Seq(Reply) /\ Len(a) = IF 1 <= n THEN n - 1 + 1 ELSE 0
        /\ \A i \in 1 .. n - 1 + 1 : a[i] = rs[1 + i - 1]
    BY <1>1, <2>1, SubSeqProperties
  <2> HIDE DEF a
  <2>3. n - 1 + 1 = n /\ \A i \in 1 .. n : 1 + i - 1 = i
    BY <1>1
  <2> QED
    BY <1>1, <2>2, <2>3
<1> HIDE DEF a
<1>4. b \in Seq(Reply) /\ Len(b) = Len(rs) - n /\ \A i \in 1 .. Len(rs) - n : b[i] = rs[n + i]
  <2>1. \A i \in n + 1 .. Len(rs) : rs[i] \in Reply
    BY <1>1
  <2>2. /\ b \in Seq(Reply) /\ Len(b) = IF n + 1 <= Len(rs) THEN Len(rs) - (n + 1) + 1 ELSE 0
        /\ \A i \in 1 .. Len(rs) - (n + 1) + 1 : b[i] = rs[(n + 1) + i - 1]
    BY <1>1, <2>1, SubSeqProperties
  <2> HIDE DEF b
  <2> DEFINE m == Len(rs) - (n + 1) + 1
             l == Len(rs) - n
             k == IF n + 1 <= Len(rs) THEN m ELSE 0
  <2>3. m = l /\ k = l /\ \A i \in 1 .. l : (n + 1) + i - 1 = n + i
    BY <1>1
  <2>4. b \in Seq(Reply) /\ Len(b) = k /\ \A i \in 1 .. m : b[i] = rs[(n + 1) + i - 1]
    BY <2>2
  <2> HIDE DEF m, k, l
  <2>5. b \in Seq(Reply) /\ Len(b) = l /\ \A i \in 1 .. l : b[i] = rs[n + i]
    BY <2>3, <2>4
  <2> QED
    BY <2>5 DEF l
<1> HIDE DEF b
<1>5. n \in 0 .. Len(s)
  BY <1>2
<1>6. /\ First(s, n) \in Seq(Command) /\ Rest(s, n) \in Seq(Command)
      /\ Len(First(s, n)) = n /\ Len(Rest(s, n)) = Len(s) - n
      /\ \A i \in 1 .. n : First(s, n)[i] = s[i]
      /\ \A i \in 1 .. Len(s) - n : Rest(s, n)[i] = s[n + i]
  BY <1>2, <1>5, CutFacts
<1>7. /\ Of(a) \in Seq(Command) /\ Len(Of(a)) = n /\ \A i \in 1 .. n : Of(a)[i] = a[i].of
      /\ Of(b) \in Seq(Command) /\ Len(Of(b)) = Len(rs) - n
      /\ \A i \in 1 .. Len(rs) - n : Of(b)[i] = b[i].of
  BY <1>3, <1>4, OfReplies
<1>8. \A i \in 1 .. n : i \in 1 .. Len(rs)
  BY <1>1
<1>9. \A i \in 1 .. Len(rs) - n : n + i \in 1 .. Len(rs)
  BY <1>1
<1>10. Of(a) = First(s, n)
  <2>1. \A i \in 1 .. n : Of(a)[i] = First(s, n)[i]
    BY <1>2, <1>3, <1>6, <1>7, <1>8
  <2> QED
    BY <1>6, <1>7, <2>1, SeqEqual
<1>11. Of(b) = Rest(s, n)
  <2>1. \A i \in 1 .. Len(rs) - n : Of(b)[i] = Rest(s, n)[i]
    BY <1>2, <1>4, <1>6, <1>7, <1>9
  <2> QED
    BY <1>2, <1>6, <1>7, <2>1, SeqEqual
<1> QED
  BY <1>3, <1>4, <1>8, <1>9, <1>10, <1>11 DEF s, a, b

\* The commands of two parts.
LEMMA OfConcat ==
  ASSUME NEW a \in Seq(Reply), NEW b \in Seq(Reply)
  PROVE  a \o b \in Seq(Reply) /\ Of(a \o b) = Of(a) \o Of(b)
<1> DEFINE s == a \o b
           u == Of(a)
           v == Of(b)
<1>1. /\ s \in Seq(Reply) /\ Len(s) = Len(a) + Len(b)
      /\ \A i \in 1 .. Len(a) + Len(b) : s[i] = IF i <= Len(a) THEN a[i] ELSE b[i - Len(a)]
  BY ConcatProperties
<1>2. /\ u \in Seq(Command) /\ Len(u) = Len(a) /\ Len(a) \in Nat /\ \A i \in 1 .. Len(a) : u[i] = a[i].of
      /\ v \in Seq(Command) /\ Len(v) = Len(b) /\ Len(b) \in Nat /\ \A i \in 1 .. Len(b) : v[i] = b[i].of
  BY OfReplies
<1> HIDE DEF s, u, v
<1>3. /\ Of(s) \in Seq(Command) /\ Len(Of(s)) = Len(s) /\ \A i \in 1 .. Len(s) : Of(s)[i] = s[i].of
  BY <1>1, OfReplies
<1>4. /\ u \o v \in Seq(Command) /\ Len(u \o v) = Len(a) + Len(b)
      /\ \A i \in 1 .. Len(a) + Len(b) : (u \o v)[i] = IF i <= Len(a) THEN u[i] ELSE v[i - Len(a)]
  <2>1. u \in Seq(Command) /\ v \in Seq(Command)
    BY <1>2
  <2>2. /\ u \o v \in Seq(Command) /\ Len(u \o v) = Len(u) + Len(v)
        /\ \A i \in 1 .. Len(u) + Len(v) : (u \o v)[i] = IF i <= Len(u) THEN u[i] ELSE v[i - Len(u)]
    BY <2>1, ConcatProperties
  <2>3. Len(u) = Len(a) /\ Len(v) = Len(b)
    BY <1>2
  <2> QED
    BY <2>2, <2>3
<1>5. ASSUME NEW i \in 1 .. Len(a) + Len(b) PROVE Of(s)[i] = (u \o v)[i]
  <2>1. CASE i <= Len(a)
    <3>1. i \in 1 .. Len(a)
      BY <1>2, <2>1
    <3> QED
      BY <1>1, <1>2, <1>3, <1>4, <2>1, <3>1
  <2>2. CASE ~(i <= Len(a))
    <3>1. i - Len(a) \in 1 .. Len(b)
      BY <1>2, <2>2
    <3> QED
      BY <1>1, <1>2, <1>3, <1>4, <2>2, <3>1
  <2> QED
    BY <2>1, <2>2
<1>6. Of(s) = u \o v
  BY <1>1, <1>3, <1>4, <1>5, SeqEqual
<1> QED
  BY <1>1, <1>6 DEF s, u, v

\* The deeper the cut, the less is left.
LEMMA EmbedsDeeper ==
  ASSUME NEW s \in Seq(Command), NEW m \in 0 .. Len(s), NEW n \in 0 .. Len(s), m <= n
  PROVE  Embeds(Rest(s, n), Rest(s, m))
<1> DEFINE a == Rest(s, n)
           b == Rest(s, m)
<1>1. /\ Len(s) \in Nat /\ n \in Nat /\ m \in Nat
      /\ Len(a) = Len(s) - n /\ \A i \in 1 .. Len(s) - n : a[i] = s[n + i]
      /\ Len(b) = Len(s) - m /\ \A i \in 1 .. Len(s) - m : b[i] = s[m + i]
  BY CutFacts
<1> HIDE DEF a, b
<1> DEFINE f == [i \in 1 .. Len(a) |-> (n - m) + i]
<1>2. \A i \in 1 .. Len(a) : f[i] = (n - m) + i
  OBVIOUS
<1> HIDE DEF f
<1>3. ASSUME NEW i \in 1 .. Len(a)
      PROVE  f[i] \in 1 .. Len(b) /\ i <= f[i] /\ a[i] = b[f[i]]
  <2>1. (n - m) + i \in 1 .. Len(s) - m /\ i <= (n - m) + i /\ m + ((n - m) + i) = n + i
    BY <1>1
  <2>2. b[(n - m) + i] = s[n + i] /\ a[i] = s[n + i]
    BY <1>1, <2>1
  <2> QED
    BY <1>1, <1>2, <2>1, <2>2
<1>4. ASSUME NEW i \in 1 .. Len(a), NEW j \in 1 .. Len(a), i <= j
      PROVE  f[i] + (j - i) <= f[j]
  <2>1. (n - m) + i + (j - i) <= (n - m) + j
    BY <1>1
  <2> QED
    BY <1>2, <2>1
<1>5. f \in Places2(a, b)
  BY <1>3 DEF Places2, f
<1>6. Keeps(f, a, b)
  BY <1>3, <1>4 DEF Keeps
<1> QED
  BY <1>5, <1>6 DEF Embeds, a, b

\* Nothing is cut off.
LEMMA RestNone ==
  ASSUME NEW s \in Seq(Command)
  PROVE  Rest(s, 0) = s /\ 0 \in 0 .. Len(s)
<1>1. Len(s) \in Nat /\ 0 + 1 = 1 /\ SubSeq(s, 1, Len(s)) = s
  BY LenProperties, SubSeqFull
<1> QED
  BY <1>1 DEF Rest

-----------------------------------------------------------------------------
(***************************************************************************)
(* The line serves commands in the order they are awaited.                 *)
(***************************************************************************)
Prompt(rs) == \A i \in 1 .. Len(rs) : rs[i].status # "timeout"
\* Only the timer of a waiter makes a timeout, and nothing else goes on with it.
Timely ==
  /\ Prompt(buffer) /\ Prompt(line)
  /\ \A i \in 1 .. Len(jobs) : jobs[i].reply.status = "timeout" => Len(jobs) = 1

\* What comes back is for those who wait, in their order: each of them gets its own reply or,
\* when some are lost, that of a later command.
Served == Embeds(Answers, Waiting)

\* Frames go to those who wait longest; what is forgotten comes before the others.
LEMMA Handed ==
  ASSUME NEW frames \in Seq(Reply), NEW n \in 0 .. Len(frames), NEW js \in Seq(Job), Len(js) = n,
         \A i \in 1 .. n : js[i].reply = frames[i], Prompt(frames),
         NEW b \in Seq(Reply), Embeds(Of(b), Rest(Of(frames), n)), NEW r \in Seq(Command)
  PROVE  /\ Embeds(Back(js) \o (Of(b) \o r), Of(frames) \o r)
         /\ \A w \in Seq(Command) :
              n <= Len(w) /\ Embeds(Of(frames) \o r, w) => Embeds(Of(b) \o r, Rest(w, n))
<1> DEFINE s == Of(frames)
           t == Of(b)
           k == Back(js)
<1>1. /\ s \in Seq(Command) /\ Len(s) = Len(frames) /\ \A i \in 1 .. Len(frames) : s[i] = frames[i].of
      /\ t \in Seq(Command) /\ n \in 0 .. Len(s) /\ Len(frames) \in Nat
  BY OfReplies
<1>2. k \in Seq(Command) /\ Len(k) = n /\ \A i \in 1 .. n : k[i] = s[i]
  <2>1. \A i \in 1 .. n : i \in 1 .. Len(frames)
    BY <1>1
  <2>2. \A i \in 1 .. n : js[i].reply.status # "timeout" /\ js[i].reply.of = s[i]
    BY <1>1, <2>1 DEF Prompt
  <2> QED
    BY <2>2, BackFacts
<1>3. Embeds(t, Rest(s, n))
  OBVIOUS
<1> HIDE DEF s, t, k
<1> DEFINE f == First(s, n)
           g == Rest(s, n)
<1>4. f \in Seq(Command) /\ g \in Seq(Command) /\ f \o g = s /\ Len(f) = n /\ \A i \in 1 .. n : f[i] = s[i]
  BY <1>1, CutFacts
<1>5. k = f
  BY <1>2, <1>4, SeqEqual
<1>6. /\ Rest(s \o r, n) = g \o r /\ n \in 0 .. Len(s \o r) /\ s \o r \in Seq(Command)
  BY <1>1, RestJoin
<1>7. Embeds(t, g)
  BY <1>3
<1> HIDE DEF f, g
<1>8. Embeds(t \o r, g \o r) /\ t \o r \in Seq(Command) /\ g \o r \in Seq(Command)
  BY <1>1, <1>4, <1>7, EmbedsSame, EmbedsJoin
<1>9. Embeds(k \o (t \o r), s \o r)
  <2> DEFINE u == t \o r
             v == g \o r
  <2>1. u \in Seq(Command) /\ v \in Seq(Command) /\ Embeds(u, v)
    BY <1>8
  <2>2. f \o v = s \o r
    <3>1. f \in Seq(Command) /\ g \in Seq(Command)
      BY <1>4
    <3>2. (f \o g) \o r = f \o (g \o r)
      <4>1. Regrouped(f, g, r)
        BY <3>1, Regroup
      <4> QED
        BY <4>1 DEF Regrouped
    <3> QED
      BY <1>4, <3>2
  <2> HIDE DEF u, v
  <2>3. Embeds(f \o u, f \o v)
    BY <1>4, <2>1, EmbedsSame, EmbedsJoin
  <2> QED
    BY <1>5, <2>2, <2>3 DEF u
<1>10. ASSUME NEW w \in Seq(Command), n <= Len(w), Embeds(s \o r, w)
       PROVE  Embeds(t \o r, Rest(w, n))
  <2> DEFINE u == s \o r
  <2>1. u \in Seq(Command) /\ n \in 0 .. Len(u) /\ Embeds(u, w) /\ Rest(u, n) = g \o r
    BY <1>6, <1>10
  <2> HIDE DEF u
  <2>2. Embeds(Rest(u, n), Rest(w, n))
    BY <1>10, <2>1, EmbedsRest
  <2>3. n \in 0 .. Len(w)
    BY <1>1, <1>10, LenProperties
  <2>4. Rest(w, n) \in Seq(Command)
    BY <2>3, CutFacts
  <2> QED
    BY <1>8, <2>1, <2>2, <2>4, EmbedsOver
<1> QED
  BY <1>9, <1>10 DEF s, t, k

\* A start that waits gets its own reply: it waits last, and no other comes so late.
LEMMA OwnReply ==
  ASSUME NEW s \in Seq(Command), NEW w \in Seq(Command), Embeds(s, w), OnlyLast(w),
         NEW i \in 1 .. Len(s), i \in 1 .. Len(w), w[i].what \in Begins
  PROVE  s[i] = w[i]
<1>1. i = Len(w)
  BY DEF OnlyLast
<1> QED
  BY <1>1, EmbedsHolds

\* While nobody has been answered, those who wait are all there is.
LEMMA WaitingAwaited ==
  ASSUME TypeOK, jobs = <<>>
  PROVE  Awaited = Waiting
<1>1. waiters \in Seq(Command) /\ writing \in Seq(Command)
  BY Sequences
<1>2. <<>> \o waiters = waiters
  BY <1>1, ConcatEmptySeq
<1> QED
  BY <1>2, OfNone DEF Awaited, Join, Waiting

\* Parts of what arrives in time arrive in time.
LEMMA PromptParts ==
  ASSUME NEW a \in Seq(Reply), NEW b \in Seq(Reply), Prompt(a), Prompt(b)
  PROVE  /\ Prompt(a \o b) /\ Prompt(<<>>)
         /\ \A n \in 0 .. Len(a) : Prompt(SubSeq(a, n + 1, Len(a))) /\ Prompt(SubSeq(a, 1, n))
         /\ a # <<>> => Prompt(Tail(a))
<1>1. /\ Len(a \o b) = Len(a) + Len(b) /\ Len(a) \in Nat /\ Len(b) \in Nat
      /\ \A i \in 1 .. Len(a) + Len(b) : (a \o b)[i] = IF i <= Len(a) THEN a[i] ELSE b[i - Len(a)]
  BY ConcatProperties, LenProperties
<1>2. Prompt(a \o b)
  <2>1. ASSUME NEW i \in 1 .. Len(a) + Len(b) PROVE (a \o b)[i].status # "timeout"
    <3>1. CASE i <= Len(a)
      BY <1>1, <3>1 DEF Prompt
    <3>2. CASE ~(i <= Len(a))
      <4>1. i - Len(a) \in 1 .. Len(b)
        BY <1>1, <3>2
      <4> QED
        BY <1>1, <3>2, <4>1 DEF Prompt
    <3> QED
      BY <3>1, <3>2
  <2> QED
    BY <1>1, <2>1 DEF Prompt
<1>3. Prompt(<<>>)
  <2>1. Len(<<>>) = 0
    OBVIOUS
  <2> QED
    BY <2>1 DEF Prompt
<1>4. ASSUME NEW n \in 0 .. Len(a) PROVE Prompt(SubSeq(a, n + 1, Len(a))) /\ Prompt(SubSeq(a, 1, n))
  <2>1. /\ \A i \in 1 .. Len(SubSeq(a, n + 1, Len(a))) :
             n + i \in 1 .. Len(a) /\ SubSeq(a, n + 1, Len(a))[i] = a[n + i]
        /\ \A i \in 1 .. Len(SubSeq(a, 1, n)) : i \in 1 .. Len(a) /\ SubSeq(a, 1, n)[i] = a[i]
    BY OfCut
  <2> QED
    BY <2>1 DEF Prompt
<1>5. ASSUME a # <<>> PROVE Prompt(Tail(a))
  BY <1>5, OfRest DEF Prompt
<1> QED
  BY <1>2, <1>3, <1>4, <1>5

-----------------------------------------------------------------------------
(***************************************************************************)
(* The mode of the device.                                                 *)
(***************************************************************************)
\* It relays, and will not be told to leave.
Kept == device.active /\ Without(toDevice, {"exit"})

NoneEntered == \A i \in 1 .. Len(jobs) : ~(jobs[i].of.what = "enter" /\ MayPass(jobs[i].reply))

\* Nobody takes it to relay: no ENTER is answered, and the session is over or told to end.
Apart ==
  /\ Without(Of(buffer), {"enter"}) /\ Without(Of(line), {"enter"}) /\ NoneEntered
  /\ Without(Awaited, {"query"})
  /\ ~sessionActive \/ ~Without(Awaited, {"exit"})
Following == Kept \/ Apart

\* A frame for a start is the answer to that start.
LEMMA OwnFrame ==
  ASSUME NEW frames \in Seq(Reply), NEW r \in Seq(Command), NEW w \in Seq(Command),
         Embeds(Of(frames) \o r, w), OnlyLast(w),
         NEW i \in 1 .. Len(frames), i \in 1 .. Len(w), w[i].what = "enter"
  PROVE  ~Without(Of(frames), {"enter"})
<1> DEFINE s == Of(frames)
<1>1. s \in Seq(Command) /\ i \in 1 .. Len(s) /\ Embeds(s \o r, w)
  BY OfReplies
<1> HIDE DEF s
<1>2. s \o r \in Seq(Command) /\ i \in 1 .. Len(s \o r) /\ (s \o r)[i] = s[i]
  BY <1>1, Split
<1>3. s[i] = w[i]
  BY <1>1, <1>2, OwnReply DEF Begins
<1>4. ~Without(s, {"enter"})
  BY <1>1, <1>3 DEF Without
<1> QED
  BY <1>4 DEF s

\* The line moves commands and loses some.
LEMMA FollowingMoved ==
  ASSUME Following, UNCHANGED <<device, toDevice, sessionActive>>, Awaited' = Awaited,
         Apart => Without(Of(buffer'), {"enter"}) /\ Without(Of(line'), {"enter"}) /\ NoneEntered'
  PROVE  Following'
<1>1. CASE Kept
  BY <1>1 DEF Following, Kept
<1>2. CASE Apart
  <2>1. Without(Of(buffer'), {"enter"}) /\ Without(Of(line'), {"enter"}) /\ NoneEntered'
    BY <1>2
  <2> QED
    BY <1>2, <2>1 DEF Following, Apart
<1> QED
  BY <1>1, <1>2 DEF Following

\* Nobody has been answered before.
LEMMA ComingServed ==
  ASSUME TypeOK, TypeOK', jobs = <<>>, Embeds(Back(jobs') \o Answers', Answers),
         relayQueue' = relayQueue
  PROVE  Embeds(Coming', Coming)
<1>1. Back(jobs) = <<>> /\ Answers \in Seq(Command)
  BY Streams, Sequences, BackFacts
<1>2. <<>> \o Answers = Answers
  BY <1>1, ConcatEmptySeq
<1> QED
  BY <1>1, <1>2, ComingTaken

\* A handler begins to wait, or takes the first of what comes.
LEMMA DrainedLine ==
  ASSUME TypeOK, TypeOK', SInv, Timely, Served, Drained
  PROVE  /\ Timely' /\ Served' /\ Embeds(Coming', Coming) /\ Awaited' = Awaited
         /\ ~overlapped /\ Following => Following'
<1>1. /\ jobs = <<>> /\ writing # <<>> /\ writing' = Tail(writing)
      /\ UNCHANGED <<line, toDevice, device, relayQueue, sessionActive>>
  BY DEF Drained, Ready, wire, relay, server
<1>2. /\ waiters \in Seq(Command) /\ writing \in Seq(Command) /\ buffer \in Seq(Reply)
      /\ line \in Seq(Reply) /\ toDevice \in Seq(Command)
  BY DEF TypeOK
<1>3. Awaited' = Awaited
  BY DrainedSession
<1>4. CASE buffer # <<>> /\ jobs' = <<[of |-> Head(writing), reply |-> Head(buffer)]>>
           /\ buffer' = Tail(buffer) /\ waiters' = waiters
  <2> DEFINE job == [of |-> Head(writing), reply |-> Head(buffer)]
             r == Of(line) \o toDevice
             js == <<job>>
  <2>1. /\ Head(buffer) \in Reply /\ Tail(buffer) \in Seq(Reply) /\ 1 \in 1 .. Len(buffer)
        /\ Head(buffer) = buffer[1] /\ Of(Tail(buffer)) = Rest(Of(buffer), 1)
        /\ Of(buffer)[1] = Head(buffer).of
    BY <1>2, <1>4, OfRest
  <2>2. /\ Tail(writing) = Rest(writing, 1) /\ Head(writing) = writing[1] /\ Head(writing) \in Command
        /\ 1 \in 1 .. Len(writing)
    BY <1>1, <1>2, TailRest
  <2>3. js \in Seq(Job) /\ Len(js) = 1 /\ js[1] = job /\ job.of = Head(writing) /\ job.reply = Head(buffer)
    <3>1. job \in Job
      BY <2>1, <2>2 DEF Job
    <3> QED
      BY <3>1
  <2>4. waiters = <<>>
    BY <1>4 DEF SInv, Turn
  <2>5. Waiting = writing /\ Waiting' = Rest(writing, 1)
    <3>1. <<>> \o writing = writing /\ <<>> \o Tail(writing) = Tail(writing)
      BY <1>1, <1>2, TailRest, ConcatEmptySeq
    <3> QED
      BY <1>1, <1>4, <2>2, <2>4, <3>1 DEF Waiting
  <2>6. r \in Seq(Command) /\ Answers = Of(buffer) \o r /\ Answers' = Of(Tail(buffer)) \o r
    BY <1>1, <1>2, <1>4, FlowType DEF Answers, Flow
  <2>7. Rest(Of(buffer), 1) \in Seq(Command) /\ Embeds(Of(Tail(buffer)), Rest(Of(buffer), 1))
    BY <2>1, OfReplies, EmbedsSame
  <2>8. 1 \in 0 .. Len(buffer) /\ 1 <= Len(writing) /\ \A i \in 1 .. 1 : i = 1
    BY <1>2, <2>1, <2>2, LenProperties
  <2>9. Prompt(buffer)
    BY DEF Timely
  <2>10. jobs' = js
    BY <1>4
  <2> HIDE DEF js, job, r
  <2>11. \A i \in 1 .. 1 : js[i].reply = buffer[i]
    BY <2>1, <2>3, <2>8
  <2>12. /\ Embeds(Back(js) \o Answers', Answers)
         /\ \A w \in Seq(Command) :
              1 <= Len(w) /\ Embeds(Answers, w) => Embeds(Answers', Rest(w, 1))
    <3>1. /\ buffer \in Seq(Reply) /\ Tail(buffer) \in Seq(Reply) /\ js \in Seq(Job) /\ Len(js) = 1
          /\ r \in Seq(Command) /\ 1 \in 0 .. Len(buffer)
      BY <1>2, <2>1, <2>3, <2>6, <2>8
    <3>2. /\ Embeds(Back(js) \o (Of(Tail(buffer)) \o r), Of(buffer) \o r)
          /\ \A w \in Seq(Command) :
               1 <= Len(w) /\ Embeds(Of(buffer) \o r, w) => Embeds(Of(Tail(buffer)) \o r, Rest(w, 1))
      BY <2>7, <2>9, <2>11, <3>1, Handed
    <3> QED
      BY <2>6, <3>2
  <2>13. Served'
    BY <1>2, <2>5, <2>8, <2>12 DEF Served
  <2>14. Embeds(Coming', Coming)
    BY <1>1, <2>10, <2>12, ComingServed
  <2>15. Timely'
    <3>1. Prompt(Tail(buffer)) /\ Prompt(line)
      BY <1>2, <1>4, PromptParts DEF Timely
    <3>2. Prompt(buffer') /\ Prompt(line')
      BY <1>1, <1>4, <3>1
    <3>3. Len(jobs') = 1
      BY <2>3, <2>10
    <3> QED
      BY <3>2, <3>3 DEF Timely
  <2>16. ASSUME ~overlapped, Following PROVE Following'
    <3>1. OnlyLast(writing)
      BY <1>1, <2>5, <2>16, WaitingAwaited DEF SInv, Starting
    <3>2. ASSUME Apart, NEW i \in 1 .. Len(jobs'), jobs'[i].of.what = "enter" PROVE FALSE
      <4>1. writing[1].what = "enter"
        BY <2>2, <2>3, <2>8, <2>10, <3>2
      <4>2. Embeds(Of(buffer) \o r, writing)
        BY <2>5, <2>6 DEF Served
      <4>3. ~Without(Of(buffer), {"enter"})
        BY <1>2, <2>1, <2>2, <2>6, <3>1, <4>1, <4>2, OwnFrame
      <4> QED
        BY <3>2, <4>3 DEF Apart
    <3>3. Apart => NoneEntered'
      BY <3>2 DEF NoneEntered
    <3>4. Apart => Without(Of(buffer'), {"enter"})
      <4>1. Of(buffer) \in Seq(Command) /\ 1 \in 0 .. Len(Of(buffer))
        BY <1>2, <2>8, OfReplies
      <4>2. Without(Of(buffer), {"enter"}) => Without(Rest(Of(buffer), 1), {"enter"})
        BY <2>7, <4>1, EmbedsPart, EmbedsHolds
      <4> QED
        BY <1>4, <2>1, <4>2 DEF Apart
    <3>5. Apart => Without(Of(line'), {"enter"})
      BY <1>1 DEF Apart
    <3> QED
      BY <1>1, <1>3, <2>16, <3>3, <3>4, <3>5, FollowingMoved
  <2> QED
    BY <1>3, <2>13, <2>14, <2>15, <2>16
<1>5. CASE buffer = <<>> /\ waiters' = Append(waiters, Head(writing)) /\ UNCHANGED <<buffer, jobs>>
  <2> DEFINE h == Head(writing)
             t == Tail(writing)
  <2>1. writing = <<h>> \o t /\ h \in Command /\ t \in Seq(Command)
    BY <1>1, <1>2, HeadAndTail
  <2>2. waiters' = Append(waiters, h) /\ writing' = t
    BY <1>1, <1>5
  <2> HIDE DEF h, t
  <2>3. Append(waiters, h) = waiters \o <<h>> /\ <<h>> \in Seq(Command)
    BY <1>2, <2>1, AppendIsConcat, WithoutOne
  <2>4. (waiters \o <<h>>) \o t = waiters \o (<<h>> \o t)
    <3>1. waiters \in Seq(Command) /\ <<h>> \in Seq(Command) /\ t \in Seq(Command)
      BY <1>2, <2>1, <2>3
    <3> QED
      BY <3>1, Three
  <2>5. Waiting' = Waiting
    BY <2>1, <2>2, <2>3, <2>4 DEF Waiting
  <2>6. Answers' = Answers /\ Coming' = Coming
    BY <1>1, <1>5 DEF Answers, Coming
  <2>7. Timely' /\ Served'
    BY <1>1, <1>5, <2>5, <2>6 DEF Timely, Served
  <2>8. Embeds(Coming', Coming)
    BY <2>6, Streams, EmbedsSame
  <2>9. Following => Following'
    BY <1>1, <1>3, <1>5, FollowingMoved DEF Apart, NoneEntered
  <2> QED
    BY <1>3, <2>7, <2>8, <2>9
<1> QED
  BY <1>4, <1>5 DEF Drained

\* What stays in the buffer when some frames have been taken, and perhaps one more.
LEMMA Forgotten ==
  ASSUME NEW frames \in Seq(Reply), NEW n \in 0 .. Len(frames), Prompt(frames), NEW b,
         b = SubSeq(frames, n + 2, Len(frames)) \/ (n = 0 /\ b = frames)
  PROVE  b \in Seq(Reply) /\ Prompt(b) /\ Embeds(Of(b), Rest(Of(frames), n))
<1>1. Len(frames) \in Nat /\ n \in Nat /\ n <= Len(frames) /\ (n + 1) + 1 = n + 2
  BY LenProperties
<1>2. Of(frames) \in Seq(Command) /\ Len(Of(frames)) = Len(frames)
  BY OfReplies
<1>3. CASE n = 0 /\ b = frames
  BY <1>2, <1>3, RestNone, EmbedsSame
<1>4. CASE b = SubSeq(frames, n + 2, Len(frames)) /\ n = Len(frames)
  <2>1. b = <<>> /\ <<>> \in Seq(Reply)
    <3>1. n + 2 \in Int /\ Len(frames) \in Int /\ n + 2 > Len(frames)
      BY <1>1, <1>4
    <3> QED
      BY <1>4, <3>1, SubSeqEmpty
  <2>2. Of(b) = <<>>
    BY <2>1 DEF Of
  <2>3. n \in 0 .. Len(Of(frames))
    BY <1>2
  <2>4. Rest(Of(frames), n) \in Seq(Command)
    BY <1>2, <2>3, CutFacts
  <2>5. Prompt(b)
    <3>1. Len(<<>>) = 0
      OBVIOUS
    <3> QED
      BY <2>1, <3>1 DEF Prompt
  <2> QED
    BY <2>1, <2>2, <2>4, <2>5, EmbedsSame
<1>5. CASE b = SubSeq(frames, n + 2, Len(frames)) /\ n # Len(frames)
  <2> DEFINE m == n + 1
  <2>1. m \in 0 .. Len(frames) /\ n <= m /\ m + 1 = n + 2
    BY <1>1, <1>5
  <2> HIDE DEF m
  <2>2. /\ SubSeq(frames, m + 1, Len(frames)) \in Seq(Reply)
        /\ Of(SubSeq(frames, m + 1, Len(frames))) = Rest(Of(frames), m)
        /\ Prompt(SubSeq(frames, m + 1, Len(frames)))
    BY <2>1, OfCut, PromptParts
  <2>3. b = SubSeq(frames, m + 1, Len(frames))
    BY <1>5, <2>1
  <2>4. m \in 0 .. Len(Of(frames)) /\ n \in 0 .. Len(Of(frames))
    BY <1>2, <2>1
  <2>5. Embeds(Rest(Of(frames), m), Rest(Of(frames), n))
    BY <1>2, <2>1, <2>4, EmbedsDeeper
  <2> QED
    BY <2>2, <2>3, <2>5
<1> QED
  BY <1>3, <1>4, <1>5

\* Frames arrive: the first go to those who wait, and at most one more is forgotten.
LEMMA ArriveLine ==
  ASSUME TypeOK, TypeOK', SInv, Timely, Served, Arrive
  PROVE  /\ Timely' /\ Served' /\ Embeds(Coming', Coming) /\ Awaited' = Awaited
         /\ ~overlapped /\ Following => Following'
<1>1. /\ jobs = <<>> /\ UNCHANGED <<writing, toDevice, device, relayQueue, sessionActive>>
  BY DEF Arrive, Ready, relay, server
<1>2. PICK k \in 1 .. Len(line) :
        LET frames == buffer \o SubSeq(line, 1, k)
            n == IF Len(frames) < Len(waiters) THEN Len(frames) ELSE Len(waiters)
        IN  /\ line' = SubSeq(line, k + 1, Len(line))
            /\ jobs' = [i \in 1 .. n |-> [of |-> waiters[i], reply |-> frames[i]]]
            /\ waiters' = SubSeq(waiters, n + 1, Len(waiters))
            /\ buffer' = IF waiters = <<>> THEN frames ELSE SubSeq(frames, n + 2, Len(frames))
  BY DEF Arrive
<1> DEFINE front == SubSeq(line, 1, k)
           rest == SubSeq(line, k + 1, Len(line))
           frames == buffer \o front
           n == IF Len(frames) < Len(waiters) THEN Len(frames) ELSE Len(waiters)
<1>3. /\ line' = rest
      /\ jobs' = [i \in 1 .. n |-> [of |-> waiters[i], reply |-> frames[i]]]
      /\ waiters' = SubSeq(waiters, n + 1, Len(waiters))
      /\ buffer' = IF waiters = <<>> THEN frames ELSE SubSeq(frames, n + 2, Len(frames))
  BY <1>2
<1>4. /\ waiters \in Seq(Command) /\ writing \in Seq(Command) /\ buffer \in Seq(Reply)
      /\ line \in Seq(Reply) /\ toDevice \in Seq(Command) /\ Len(waiters) \in Nat
      /\ Prompt(buffer) /\ Prompt(line) /\ k \in 0 .. Len(line)
  BY LenProperties DEF TypeOK, Timely
<1>5. /\ front \in Seq(Reply) /\ rest \in Seq(Reply) /\ Prompt(front) /\ Prompt(rest)
      /\ Of(front) = First(Of(line), k) /\ Of(rest) = Rest(Of(line), k)
  BY <1>4, OfCut, PromptParts
<1> HIDE DEF front, rest
<1>6. frames \in Seq(Reply) /\ Prompt(frames) /\ Of(frames) = Of(buffer) \o Of(front) /\ Len(frames) \in Nat
  BY <1>4, <1>5, OfConcat, PromptParts, LenProperties
<1> HIDE DEF frames
<1>7. n \in 0 .. Len(waiters) /\ n \in 0 .. Len(frames) /\ n <= Len(frames) /\ (waiters = <<>> => n = 0)
  <2>1. waiters = <<>> => Len(waiters) = 0
    BY <1>4, EmptySeq
  <2> QED
    BY <1>4, <1>6, <2>1
<1> HIDE DEF n
<1> DEFINE r == Of(rest) \o toDevice
<1>8. r \in Seq(Command) /\ Of(frames) \o r = Answers /\ Answers' = Of(buffer') \o r
  <2> DEFINE a == Of(buffer)
             f == Of(front)
             g == Of(rest)
             d == toDevice
  <2>1. a \in Seq(Command) /\ f \in Seq(Command) /\ g \in Seq(Command) /\ d \in Seq(Command)
    BY <1>4, <1>5, OfReplies
  <2>2. f \o g = Of(line)
    <3>1. Of(line) \in Seq(Command) /\ k \in 0 .. Len(Of(line))
      BY <1>4, OfReplies
    <3> QED
      BY <1>5, <3>1, CutFacts
  <2>3. Of(frames) = a \o f
    BY <1>6
  <2> HIDE DEF a, f, g, d
  <2>4. g \o d \in Seq(Command) /\ (f \o g) \o d = f \o (g \o d)
    <3>1. f \in Seq(Command) /\ g \in Seq(Command) /\ d \in Seq(Command)
      BY <2>1
    <3> QED
      <4>1. Regrouped(f, g, d)
        BY <3>1, Regroup
      <4>2. g \o d \in Seq(Command)
        BY <3>1, ConcatProperties
      <4> QED
        BY <4>1, <4>2 DEF Regrouped
  <2>5. (a \o f) \o (g \o d) = a \o (f \o (g \o d))
    <3>1. a \in Seq(Command) /\ f \in Seq(Command) /\ g \o d \in Seq(Command)
      BY <2>1, <2>4
    <3> DEFINE v == g \o d
    <3> HIDE DEF v
    <3>2. (a \o f) \o v = a \o (f \o v)
      <4>1. v \in Seq(Command)
        BY <3>1 DEF v
      <4> QED
        <5>1. Regrouped(a, f, v)
          BY <3>1, <4>1, Regroup
        <5> QED
          BY <5>1 DEF Regrouped
    <3> QED
      BY <3>2 DEF v
  <2>6. (a \o f) \o (g \o d) = a \o (Of(line) \o d)
    BY <2>2, <2>4, <2>5
  <2> QED
    BY <1>1, <1>3, <2>3, <2>4, <2>6 DEF Answers, Flow, a, d, g
<1> HIDE DEF r
<1>9. jobs' \in Seq(Job) /\ Len(jobs') = n /\ \A i \in 1 .. n : jobs'[i].of = waiters[i] /\ jobs'[i].reply = frames[i]
  <2>1. jobs' \in Seq(Job)
    BY <1>1, <1>3, <1>6, <1>7, HandOut
  <2>2. DOMAIN jobs' = 1 .. n /\ \A i \in 1 .. n : jobs'[i].of = waiters[i] /\ jobs'[i].reply = frames[i]
    BY <1>3
  <2>3. DOMAIN jobs' = 1 .. Len(jobs') /\ Len(jobs') \in Nat /\ n \in Nat
    BY <1>4, <1>7, <2>1, LenProperties
  <2>4. 1 .. Len(jobs') = 1 .. n
    BY <2>2, <2>3
  <2> DEFINE m == Len(jobs')
  <2>5. m \in Nat /\ n \in Nat /\ 1 .. m = 1 .. n
    BY <2>3, <2>4
  <2> HIDE DEF m
  <2>6. m = n
    BY <2>5
  <2> QED
    BY <2>1, <2>2, <2>6 DEF m
<1>10. buffer' \in Seq(Reply) /\ Prompt(buffer') /\ Embeds(Of(buffer'), Rest(Of(frames), n))
  <2>1. buffer' = SubSeq(frames, n + 2, Len(frames)) \/ (n = 0 /\ buffer' = frames)
    BY <1>3, <1>7
  <2> QED
    BY <1>6, <1>7, <2>1, Forgotten
<1>11. /\ Embeds(Back(jobs') \o Answers', Answers)
       /\ \A w \in Seq(Command) : n <= Len(w) /\ Embeds(Answers, w) => Embeds(Answers', Rest(w, n))
  <2>1. /\ Embeds(Back(jobs') \o (Of(buffer') \o r), Of(frames) \o r)
        /\ \A w \in Seq(Command) :
             n <= Len(w) /\ Embeds(Of(frames) \o r, w) => Embeds(Of(buffer') \o r, Rest(w, n))
    BY <1>6, <1>7, <1>8, <1>9, <1>10, Handed
  <2> QED
    BY <1>8, <2>1
<1>12. Embeds(Coming', Coming)
  BY <1>1, <1>11, ComingServed
<1>13. Waiting \in Seq(Command) /\ n \in 0 .. Len(Waiting) /\ n <= Len(Waiting) /\ Waiting' = Rest(Waiting, n)
  <2>1. /\ Rest(waiters \o writing, n) = Rest(waiters, n) \o writing /\ n \in 0 .. Len(waiters \o writing)
        /\ waiters \o writing \in Seq(Command)
    BY <1>4, <1>7, RestJoin
  <2>2. n <= Len(waiters \o writing)
    BY <1>4, <2>1, LenProperties
  <2> QED
    BY <1>1, <1>3, <2>1, <2>2 DEF Waiting, Rest
<1>14. Served'
  BY <1>11, <1>13 DEF Served
<1>15. Timely'
  <2>1. ASSUME NEW i \in 1 .. n PROVE jobs'[i].reply.status # "timeout"
    <3>1. i \in 1 .. Len(frames)
      BY <1>6, <1>7
    <3> QED
      BY <1>6, <1>9, <3>1 DEF Prompt
  <2>2. Prompt(line')
    BY <1>3, <1>5
  <2> QED
    BY <1>9, <1>10, <2>1, <2>2 DEF Timely
<1>16. Awaited' = Awaited
  BY ArriveSession
<1>17. ASSUME ~overlapped, Following PROVE Following'
  <2>1. OnlyLast(Waiting)
    BY <1>1, <1>17, WaitingAwaited DEF SInv, Starting
  <2>2. ASSUME Apart PROVE Without(Of(frames), {"enter"}) /\ Without(Of(rest), {"enter"})
    <3>1. Of(buffer) \in Seq(Command) /\ Of(line) \in Seq(Command) /\ k \in 0 .. Len(Of(line))
      BY <1>4, OfReplies
    <3>2. Without(Of(buffer), {"enter"}) /\ Without(Of(line), {"enter"})
      BY <2>2 DEF Apart
    <3>3. /\ First(Of(line), k) \in Seq(Command) /\ Rest(Of(line), k) \in Seq(Command)
          /\ Embeds(First(Of(line), k), Of(line)) /\ Embeds(Rest(Of(line), k), Of(line))
      BY <3>1, CutFacts, EmbedsPart
    <3>4. Without(First(Of(line), k), {"enter"}) /\ Without(Rest(Of(line), k), {"enter"})
      BY <3>1, <3>2, <3>3, EmbedsHolds
    <3> QED
      BY <1>5, <1>6, <3>1, <3>2, <3>3, <3>4, WithoutConcat
  <2>3. ASSUME Apart, NEW i \in 1 .. Len(jobs'), jobs'[i].of.what = "enter" PROVE FALSE
    <3>1. i \in 1 .. n /\ jobs'[i].of = waiters[i]
      BY <1>9
    <3>2. i \in 1 .. Len(frames) /\ i \in 1 .. Len(waiters)
      <4>1. Len(frames) \in Nat /\ Len(waiters) \in Nat /\ n \in 0 .. Len(waiters) /\ n <= Len(frames)
        BY <1>4, <1>6, <1>7
      <4> QED
        BY <3>1, <4>1
    <3>3. i \in 1 .. Len(Waiting) /\ Waiting[i] = waiters[i]
      BY <1>4, <3>2, Split DEF Waiting
    <3>4. Waiting[i].what = "enter"
      BY <2>3, <3>1, <3>3
    <3>5. Embeds(Of(frames) \o r, Waiting)
      BY <1>8 DEF Served
    <3>6. ~Without(Of(frames), {"enter"})
      BY <1>6, <1>8, <1>13, <2>1, <3>2, <3>3, <3>4, <3>5, OwnFrame
    <3> QED
      BY <2>2, <2>3, <3>6
  <2>4. Apart => NoneEntered'
    BY <2>3 DEF NoneEntered
  <2>5. Apart => Without(Of(buffer'), {"enter"}) /\ Without(Of(line'), {"enter"})
    <3>1. /\ Of(frames) \in Seq(Command) /\ n \in 0 .. Len(Of(frames)) /\ Of(buffer') \in Seq(Command)
      BY <1>6, <1>7, <1>10, OfReplies
    <3>2. Rest(Of(frames), n) \in Seq(Command) /\ Embeds(Rest(Of(frames), n), Of(frames))
      BY <3>1, CutFacts, EmbedsPart
    <3>3. Without(Of(frames), {"enter"}) => Without(Rest(Of(frames), n), {"enter"})
      BY <3>1, <3>2, EmbedsHolds
    <3>4. Without(Rest(Of(frames), n), {"enter"}) => Without(Of(buffer'), {"enter"})
      BY <1>10, <3>1, <3>2, EmbedsHolds
    <3> QED
      BY <1>3, <2>2, <3>3, <3>4
  <2> QED
    BY <1>1, <1>16, <1>17, <2>4, <2>5, FollowingMoved
<1> QED
  BY <1>12, <1>14, <1>15, <1>16, <1>17

\* What a timeout leaves on the line: all of it, all but the first frame, or the first frame as
\* garbage that has swallowed some of the next ones.
LEMMA Garbled ==
  ASSUME NEW l \in Seq(Reply), NEW m \in Seq(Reply), Prompt(l),
         \/ m = l
         \/ l # <<>> /\ m = Tail(l)
         \/ l # <<>> /\ \E k \in 2 .. Len(l) + 1, g \in Reply :
              /\ g.of = Head(l).of /\ g.status # "timeout"
              /\ m = <<g>> \o SubSeq(l, k, Len(l))
  PROVE  Prompt(m) /\ Embeds(Of(m), Of(l))
<1>1. Of(l) \in Seq(Command) /\ Len(Of(l)) = Len(l) /\ Len(l) \in Nat
  BY OfReplies
<1>2. CASE m = l
  BY <1>1, <1>2, EmbedsSame
<1>3. ASSUME l # <<>>
      PROVE  /\ Prompt(Tail(l)) /\ Of(Tail(l)) = Rest(Of(l), 1) /\ 1 \in 0 .. Len(Of(l))
             /\ Of(l) # <<>> /\ Of(l)[1] = Head(l).of
             /\ Embeds(Rest(Of(l), 1), Of(l)) /\ Rest(Of(l), 1) \in Seq(Command)
  <2>1. /\ Of(Tail(l)) = Rest(Of(l), 1) /\ Of(l) # <<>> /\ Of(l)[1] = Head(l).of /\ 1 \in 1 .. Len(l)
    BY <1>3, OfRest
  <2>2. 1 \in 0 .. Len(Of(l))
    BY <1>1, <2>1
  <2> QED
    BY <1>1, <1>3, <2>1, <2>2, PromptParts, EmbedsPart, CutFacts
<1>4. CASE l # <<>> /\ m = Tail(l)
  BY <1>3, <1>4
<1>5. ASSUME l # <<>>, NEW k \in 2 .. Len(l) + 1, NEW g \in Reply, g.of = Head(l).of,
             g.status # "timeout", m = <<g>> \o SubSeq(l, k, Len(l))
      PROVE  Prompt(m) /\ Embeds(Of(m), Of(l))
  <2> DEFINE j == k - 1
             b == SubSeq(l, k, Len(l))
             h == g.of
  <2>1. j \in 0 .. Len(l) /\ 1 <= j /\ k = j + 1
    BY <1>1, <1>5
  <2>2. b = SubSeq(l, j + 1, Len(l))
    BY <2>1
  <2> HIDE DEF j, b
  <2>3. b \in Seq(Reply) /\ Of(b) = Rest(Of(l), j) /\ Prompt(b)
    BY <2>1, <2>2, OfCut, PromptParts
  <2>4. <<g>> \in Seq(Reply) /\ Prompt(<<g>>)
    <3>1. Len(<<g>>) = 1 /\ <<g>>[1] = g /\ <<g>> \in Seq(Reply) /\ \A i \in 1 .. 1 : i = 1
      OBVIOUS
    <3> QED
      BY <1>5, <3>1 DEF Prompt
  <2>5. h \in Command /\ <<h>> \in Seq(Command) /\ Of(<<g>>) = <<h>>
    <3>1. h \in Command
      BY DEF Reply
    <3>2. Len(<<g>>) = 1 /\ <<g>>[1] = g
      OBVIOUS
    <3> HIDE DEF h
    <3>3. Of(<<g>>) = <<g.of>>
      BY <3>2 DEF Of
    <3> QED
      BY <3>1, <3>3, WithoutOne DEF h
  <2>6. m = <<g>> \o b
    BY <1>5 DEF b
  <2> DEFINE s == Of(l)
             t == Rest(s, j)
             u == Rest(s, 1)
  <2>7. Of(m) = <<h>> \o t
    <3>1. Of(<<g>> \o b) = Of(<<g>>) \o Of(b)
      <4>1. <<g>> \in Seq(Reply) /\ b \in Seq(Reply)
        BY <2>3, <2>4
      <4> DEFINE a == <<g>>
      <4> HIDE DEF a
      <4>2. Of(a \o b) = Of(a) \o Of(b)
        BY <4>1, OfConcat DEF a
      <4> QED
        BY <4>2 DEF a
    <3>2. Of(<<g>>) = <<h>> /\ Of(b) = t
      BY <2>3, <2>5
    <3> QED
      BY <2>6, <3>1, <3>2, Zenon
  <2>8. s = <<h>> \o u
    <3>1. s # <<>> /\ Head(s) = s[1] /\ Tail(s) = u /\ s[1] = h
      BY <1>1, <1>3, <1>5, TailRest
    <3>2. s = <<Head(s)>> \o Tail(s)
      BY <1>1, <3>1, HeadAndTail
    <3> QED
      BY <3>1, <3>2
  <2>9. t \in Seq(Command) /\ u \in Seq(Command) /\ Embeds(t, u)
    <3>1. j \in 0 .. Len(s) /\ 1 \in 0 .. Len(s) /\ s \in Seq(Command)
      BY <1>1, <1>3, <1>5, <2>1
    <3> QED
      BY <2>1, <3>1, EmbedsDeeper, CutFacts
  <2> HIDE DEF t, u, h
  <2>10. Embeds(<<h>> \o t, <<h>> \o u)
    BY <2>5, <2>9, EmbedsSame, EmbedsJoin
  <2> HIDE DEF s
  <2>11. Embeds(Of(m), s)
    BY <2>7, <2>8, <2>10
  <2> QED
    BY <2>3, <2>4, <2>6, <2>11, PromptParts DEF s
<1> QED
  BY <1>2, <1>4, <1>5

\* The one who waits longest gives up; the buffer is lost, and some of the line.
LEMMA ExpireLine ==
  ASSUME TypeOK, TypeOK', SInv, Timely, Served, Expire
  PROVE  /\ Timely' /\ Served' /\ Embeds(Coming', Coming) /\ Awaited' = Awaited
         /\ ~overlapped /\ Following => Following'
<1> DEFINE job == [of |-> Head(waiters), reply |-> [of |-> Head(waiters), status |-> "timeout"]]
<1>1. /\ jobs = <<>> /\ toDevice = <<>> /\ waiters # <<>> /\ waiters' = Tail(waiters) /\ buffer' = <<>>
      /\ jobs' = <<job>>
      /\ \A i \in 1 .. Len(line) : line[i].of # Head(waiters)
      /\ UNCHANGED <<writing, toDevice, device, relayQueue, sessionActive>>
  BY DEF Expire, Ready, relay, server
<1>2. /\ waiters \in Seq(Command) /\ writing \in Seq(Command) /\ buffer \in Seq(Reply)
      /\ line \in Seq(Reply) /\ line' \in Seq(Reply) /\ toDevice \in Seq(Command) /\ Prompt(line)
      /\ <<>> \in Seq(Reply)
  BY DEF TypeOK, Timely
<1>3. buffer = <<>>
  BY <1>1 DEF SInv, Turn
<1>4. Prompt(line') /\ Embeds(Of(line'), Of(line))
  <2>1. CASE line' = line
    BY <1>2, <2>1, Garbled
  <2>2. CASE line # <<>> /\ line' = Tail(line)
    BY <1>2, <2>2, Garbled
  <2>3. ASSUME line # <<>>, NEW k \in 2 .. Len(line) + 1,
               line' = <<[Head(line) EXCEPT !.status = "garbage"]>> \o SubSeq(line, k, Len(line))
        PROVE  Prompt(line') /\ Embeds(Of(line'), Of(line))
    <3> DEFINE g == [Head(line) EXCEPT !.status = "garbage"]
    <3>1. Head(line) \in Reply
      BY <1>2, <2>3, OfRest
    <3>2. g \in Reply /\ g.of = Head(line).of /\ g.status # "timeout"
      BY <3>1 DEF Reply
    <3>3. line' = <<g>> \o SubSeq(line, k, Len(line))
      BY <2>3
    <3> HIDE DEF g
    <3> QED
      BY <1>2, <2>3, <3>2, <3>3, Garbled
  <2>4. \/ line' = line
        \/ line # <<>> /\ line' = Tail(line)
        \/ line # <<>> /\ \E k \in 2 .. Len(line) + 1 :
             line' = <<[Head(line) EXCEPT !.status = "garbage"]>> \o SubSeq(line, k, Len(line))
    BY DEF Expire
  <2> QED
    BY <2>1, <2>2, <2>3, <2>4
<1>5. job.reply.status = "timeout" /\ Len(<<job>>) = 1 /\ <<job>>[1] = job /\ 1 \in 1 .. Len(<<job>>)
  OBVIOUS
<1> HIDE DEF job
<1>6. Timely'
  <2>1. Prompt(buffer')
    BY <1>1, <1>2, PromptParts DEF Timely
  <2> QED
    BY <1>1, <1>4, <1>5, <2>1 DEF Timely
<1>7. Answers = Of(line) /\ Of(line) \in Seq(Command) /\ Answers' \in Seq(Command) /\ Embeds(Answers', Of(line))
  <2>1. Of(line) \in Seq(Command) /\ Of(line') \in Seq(Command) /\ Of(<<>>) = <<>>
    BY <1>2, OfReplies, OfNone
  <2>2. /\ Of(line) \o <<>> = Of(line) /\ <<>> \o Of(line) = Of(line)
        /\ Of(line') \o <<>> = Of(line') /\ <<>> \o Of(line') = Of(line')
    BY <2>1, ConcatEmptySeq
  <2>3. Answers = Of(line) /\ Answers' = Of(line')
    BY <1>1, <1>3, <2>1, <2>2 DEF Answers, Flow
  <2> QED
    BY <1>4, <2>1, <2>3
<1>8. Back(jobs') = <<>>
  <2>1. jobs'[1].reply.status = "timeout" /\ 1 \in 1 .. Len(jobs')
    BY <1>1, <1>5
  <2> QED
    BY <2>1 DEF Back
<1>9. Embeds(Coming', Coming)
  <2>1. Back(jobs') \o Answers' = Answers'
    BY <1>7, <1>8, ConcatEmptySeq
  <2> QED
    BY <1>1, <1>7, <2>1, ComingServed
<1>10. Waiting \in Seq(Command) /\ Waiting # <<>> /\ Head(Waiting) = Head(waiters) /\ Waiting' = Tail(Waiting)
  <2> DEFINE w == waiters \o writing
  <2>1. /\ w \in Seq(Command) /\ Len(w) = Len(waiters) + Len(writing)
        /\ \A i \in 1 .. Len(waiters) : i \in 1 .. Len(w) /\ w[i] = waiters[i]
        /\ Len(waiters) \in Nat /\ Len(writing) \in Nat
    BY <1>2, Split
  <2>2. 1 \in 1 .. Len(waiters) /\ 1 \in 0 .. Len(waiters) /\ Head(waiters) = waiters[1] /\ Tail(waiters) = Rest(waiters, 1)
    BY <1>1, <1>2, TailRest
  <2>3. Rest(w, 1) = Rest(waiters, 1) \o writing
    BY <1>2, <2>2, RestJoin
  <2> HIDE DEF w
  <2>4. w # <<>>
    BY <2>1, <2>2, EmptySeq
  <2>5. Tail(w) = Rest(w, 1) /\ Head(w) = w[1]
    BY <2>1, <2>4, TailRest
  <2> QED
    BY <1>1, <2>1, <2>2, <2>3, <2>4, <2>5 DEF Waiting, w
<1>11. Served'
  <2>1. \A i \in 1 .. Len(Of(line)) : Of(line)[i] # Head(Waiting)
    BY <1>1, <1>2, <1>10, OfReplies
  <2>2. Embeds(Of(line), Waiting)
    BY <1>7 DEF Served
  <2>3. Embeds(Of(line), Tail(Waiting)) /\ Tail(Waiting) \in Seq(Command)
    BY <1>7, <1>10, <2>1, <2>2, EmbedsSkip, TailRest
  <2> QED
    BY <1>7, <1>10, <2>3, EmbedsOver DEF Served
<1>12. Awaited' = Awaited
  BY ExpireSession
<1>13. ASSUME Following PROVE Following'
  <2>1. NoneEntered'
    <3>1. \A i \in 1 .. Len(jobs') : i = 1
      BY <1>1, <1>5
    <3> QED
      BY <1>1, <1>5, <3>1 DEF NoneEntered, MayPass
  <2>2. Apart => Without(Of(buffer'), {"enter"})
    BY <1>1, <1>3 DEF Apart
  <2>3. Apart => Without(Of(line'), {"enter"})
    BY <1>2, <1>4, OfReplies, EmbedsHolds DEF Apart
  <2> QED
    BY <1>1, <1>12, <1>13, <2>1, <2>2, <2>3, FollowingMoved
<1> QED
  BY <1>6, <1>9, <1>11, <1>12, <1>13

\* A start at the end is at the end of the last part.
LEMMA LastPart ==
  ASSUME NEW s \in Seq(Command), NEW t \in Seq(Command), OnlyLast(s \o t)
  PROVE  OnlyLast(t)
<1> SUFFICES ASSUME NEW i \in 1 .. Len(t), t[i].what \in Begins PROVE i = Len(t)
  BY DEF OnlyLast
<1>1. /\ Len(s) + i \in 1 .. Len(s \o t) /\ (s \o t)[Len(s) + i] = t[i]
      /\ Len(s \o t) = Len(s) + Len(t) /\ Len(s) \in Nat /\ Len(t) \in Nat
  BY Split
<1>2. Len(s) + i = Len(s \o t)
  BY <1>1 DEF OnlyLast
<1> QED
  BY <1>1, <1>2

\* The commands on their way to the device are the last that come.
LEMMA AnswersParts ==
  ASSUME TypeOK
  PROVE  /\ \A kinds : Without(Answers, kinds) =>
              Without(Of(buffer), kinds) /\ Without(Of(line), kinds) /\ Without(toDevice, kinds)
         /\ OnlyLast(Answers) => OnlyLast(toDevice)
<1> DEFINE a == Of(buffer)
           b == Of(line)
           d == toDevice
<1>1. a \in Seq(Command) /\ b \in Seq(Command) /\ d \in Seq(Command) /\ Answers = a \o (b \o d)
  BY Streams DEF Answers, Flow
<1> HIDE DEF a, b, d
<1>2. b \o d \in Seq(Command)
  BY <1>1, ConcatProperties
<1>3. ASSUME NEW kinds, Without(Answers, kinds) PROVE Without(a, kinds) /\ Without(b, kinds) /\ Without(d, kinds)
  <2>1. Without(a, kinds) /\ Without(b \o d, kinds)
    BY <1>1, <1>2, <1>3, WithoutConcat
  <2> QED
    BY <1>1, <2>1, WithoutConcat
<1>4. ASSUME OnlyLast(Answers) PROVE OnlyLast(d)
  <2>1. OnlyLast(b \o d)
    BY <1>1, <1>2, <1>4, LastPart
  <2> QED
    BY <1>1, <2>1, LastPart
<1> QED
  BY <1>3, <1>4 DEF a, b, d

\* The device takes a command and answers it, or the answer is lost.
LEMMA DeviceAnswers ==
  ASSUME TypeOK, TypeOK', Timely, Device
  PROVE  /\ Timely' /\ Embeds(Answers', Answers)
         /\ \A kinds : Without(Of(line), kinds) /\ Head(toDevice).what \notin kinds => Without(Of(line'), kinds)
<1> DEFINE c == Head(toDevice)
           t == Tail(toDevice)
           status == IF c.what # "exchange" \/ (device.active /\ InSequence(c.number)) THEN "ok"
                     ELSE IF device.active THEN "gap" ELSE "refused"
           reply == [of |-> c, status |-> status]
<1>1. /\ toDevice # <<>> /\ toDevice' = t /\ UNCHANGED <<buffer, jobs>>
      /\ line' = Append(line, reply) \/ line' = line
  BY DEF Device
<1>2. /\ line \in Seq(Reply) /\ toDevice \in Seq(Command) /\ buffer \in Seq(Reply) /\ line' \in Seq(Reply)
  BY DEF TypeOK
<1>3. toDevice = <<c>> \o t /\ c \in Command /\ t \in Seq(Command) /\ Embeds(t, toDevice)
  BY <1>1, <1>2, HeadAndTail, TailRest
<1>4. status \in {"ok", "gap", "refused"}
  OBVIOUS
<1> HIDE DEF status
<1>5. reply \in Reply /\ reply.status # "timeout" /\ reply.of = c
  BY <1>3, <1>4 DEF Reply
<1> HIDE DEF reply, c, t
<1>6. /\ <<reply>> \in Seq(Reply) /\ Append(line, reply) = line \o <<reply>> /\ Of(<<reply>>) = <<c>>
      /\ Prompt(<<reply>>) /\ <<c>> \in Seq(Command)
  <2>1. <<reply>> \in Seq(Reply) /\ Len(<<reply>>) = 1 /\ <<reply>>[1] = reply /\ \A i \in 1 .. 1 : i = 1
    BY <1>5
  <2>2. Of(<<reply>>) = <<reply.of>>
    BY <2>1 DEF Of
  <2>3. Append(line, reply) = line \o <<reply>>
    BY <1>2, <1>5, AppendIsConcat
  <2> QED
    BY <1>3, <1>5, <2>1, <2>2, <2>3, WithoutOne DEF Prompt
<1>7. CASE line' = line
  <2>1. Of(buffer) \in Seq(Command) /\ Of(line) \in Seq(Command)
    BY <1>2, OfReplies
  <2>2. Embeds(Of(buffer), Of(buffer)) /\ Embeds(Of(line), Of(line))
    BY <2>1, EmbedsSame
  <2>3. Embeds(Flow(buffer, line, t), Flow(buffer, line, toDevice))
    BY <1>2, <1>3, <2>2, FlowLess
  <2> QED
    BY <1>1, <1>7, <2>3 DEF Answers, Timely
<1>8. CASE line' = Append(line, reply)
  <2> DEFINE l == Of(line)
             m == <<reply>>
  <2>1. /\ l \in Seq(Command) /\ m \in Seq(Reply) /\ Of(m) = <<c>> /\ Prompt(m) /\ line' = line \o m
    BY <1>2, <1>6, <1>8, OfReplies
  <2> HIDE DEF m
  <2>2. Of(line \o m) = l \o <<c>>
    <3>1. Of(line \o m) = Of(line) \o Of(m)
      BY <1>2, <2>1, OfConcat
    <3> QED
      BY <2>1, <3>1
  <2> HIDE DEF l
  <2>3. (l \o <<c>>) \o t = l \o (<<c>> \o t)
    <3>1. l \in Seq(Command) /\ <<c>> \in Seq(Command) /\ t \in Seq(Command)
      BY <1>3, <1>6, <2>1
    <3> QED
      BY <3>1, Three
  <2>4. Answers' = Answers
    BY <1>1, <1>3, <2>1, <2>2, <2>3 DEF Answers, Flow, l
  <2>5. Prompt(line')
    BY <1>2, <2>1, PromptParts DEF Timely
  <2>6. Timely'
    BY <1>1, <2>5 DEF Timely
  <2>7. ASSUME NEW kinds, Without(l, kinds), c.what \notin kinds PROVE Without(Of(line'), kinds)
    <3>1. Without(<<c>>, kinds)
      BY <1>3, <2>7, WithoutOne
    <3>2. Without(l \o <<c>>, kinds)
      BY <1>6, <2>1, <2>7, <3>1, WithoutConcat
    <3> QED
      BY <2>1, <2>2, <3>2
  <2> QED
    BY <2>4, <2>6, <2>7, Streams, EmbedsSame DEF l, c
<1> QED
  BY <1>1, <1>7, <1>8

\* The mode of the device when it takes a command.
LEMMA DeviceFollows ==
  ASSUME TypeOK, TypeOK', SInv, Timely, Served, Device, ~overlapped, Following
  PROVE  Following'
<1> DEFINE c == Head(toDevice)
           t == Tail(toDevice)
<1>1. /\ jobs = <<>> /\ toDevice # <<>> /\ toDevice' = t
      /\ UNCHANGED <<buffer, jobs, writing, waiters, sessionActive>>
      /\ c.what = "enter" => device' = [active |-> TRUE, last |-> -1]
      /\ c.what \notin {"enter", "exit"} => device' \in {device, [device EXCEPT !.last = c.number]}
  BY DEF Device, server
<1>2. toDevice \in Seq(Command) /\ device \in [active : BOOLEAN, last : Number \cup {-1}] /\ Waiting \in Seq(Command)
      /\ Answers \in Seq(Command)
  BY Streams DEF TypeOK
<1>3. /\ toDevice = <<c>> \o t /\ c \in Command /\ t \in Seq(Command) /\ <<c>> \in Seq(Command)
      /\ \A kinds : Without(<<c>>, kinds) <=> c.what \notin kinds
  BY <1>1, <1>2, HeadAndTail, WithoutOne
<1>4. c.what \notin {"enter", "exit"} => device'.active = device.active
  BY <1>1, <1>2
<1>5. Awaited' = Awaited
  BY OthersSession
<1>6. \A kinds : Without(Of(line), kinds) /\ c.what \notin kinds => Without(Of(line'), kinds)
  BY DeviceAnswers
<1> HIDE DEF c, t
<1>7. Without(toDevice, {"exit"}) <=> c.what # "exit" /\ Without(t, {"exit"})
  <2>1. Without(<<c>> \o t, {"exit"}) <=> Without(<<c>>, {"exit"}) /\ Without(t, {"exit"})
    BY <1>3, WithoutConcat
  <2> QED
    BY <1>3, <2>1
<1>8. CASE c.what = "enter"
  <2>1. OnlyLast(Waiting)
    BY <1>1, WaitingAwaited DEF SInv, Starting
  <2>2. OnlyLast(Answers)
    BY <1>2, <2>1, EmbedsHolds DEF Served
  <2>3. OnlyLast(<<c>> \o t)
    BY <1>3, <2>2, AnswersParts
  <2>4. t = <<>>
    BY <1>3, <1>8, <2>3, LastTail DEF Begins
  <2>5. Without(t, {"exit"})
    BY <1>3, <2>4, WithoutOne
  <2> QED
    BY <1>1, <1>8, <2>5 DEF Following, Kept
<1>9. CASE c.what # "enter" /\ Kept
  BY <1>1, <1>4, <1>7, <1>9 DEF Following, Kept
<1>10. CASE c.what # "enter" /\ Apart
  <2>1. Without(Of(line'), {"enter"}) /\ Without(Of(buffer'), {"enter"}) /\ NoneEntered'
    BY <1>1, <1>6, <1>10 DEF Apart, NoneEntered
  <2> QED
    BY <1>1, <1>5, <1>10, <2>1 DEF Following, Apart
<1> QED
  BY <1>8, <1>9, <1>10 DEF Following

\* The device, a loss and a new connection.
LEMMA OthersLine ==
  ASSUME TypeOK, TypeOK', SInv, Timely, Served, Device \/ Lose \/ \E c \in Client : Connect(c)
  PROVE  /\ Timely' /\ Served' /\ Embeds(Coming', Coming) /\ Awaited' = Awaited
         /\ ~overlapped /\ Following => Following'
<1>1. /\ UNCHANGED <<buffer, jobs, writing, waiters, relayQueue, sessionActive>>
      /\ ~Device => UNCHANGED <<line, device>>
      /\ Device \/ (toDevice # <<>> /\ toDevice' = Tail(toDevice)) \/ toDevice' = toDevice
  BY DEF Device, Lose, Connect, server, relay, wire
<1>2. /\ buffer \in Seq(Reply) /\ line \in Seq(Reply) /\ toDevice \in Seq(Command) /\ toDevice' \in Seq(Command)
      /\ Answers \in Seq(Command) /\ Waiting \in Seq(Command) /\ relayQueue \in Seq(Command)
      /\ Back(jobs) \in Seq(Command) /\ Of(buffer) \in Seq(Command) /\ Of(line) \in Seq(Command)
  BY Streams DEF TypeOK
<1>3. Awaited' = Awaited
  BY OthersSession
<1>4. ASSUME ~Device PROVE Embeds(toDevice', toDevice)
  BY <1>1, <1>2, <1>4, EmbedsSame, TailRest
<1>5. Timely' /\ Embeds(Answers', Answers)
  <2>1. CASE Device
    BY <2>1, DeviceAnswers
  <2>2. CASE ~Device
    <3>1. Embeds(Of(buffer), Of(buffer)) /\ Embeds(Of(line), Of(line))
      BY <1>2, EmbedsSame
    <3>2. Embeds(Flow(buffer, line, toDevice'), Flow(buffer, line, toDevice))
      BY <1>2, <1>4, <2>2, <3>1, FlowLess
    <3> QED
      BY <1>1, <2>2, <3>2 DEF Answers, Timely
  <2> QED
    BY <2>1, <2>2
<1>6. Answers' \in Seq(Command)
  BY FlowType DEF TypeOK, Answers
<1>7. Served'
  <2>1. Waiting' = Waiting
    BY <1>1 DEF Waiting
  <2> QED
    BY <1>2, <1>5, <1>6, <2>1, EmbedsOver DEF Served
<1>8. Embeds(Coming', Coming)
  <2>1. Embeds(Back(jobs), Back(jobs)) /\ Embeds(relayQueue, relayQueue)
    BY <1>2, EmbedsSame
  <2>2. Embeds(Back(jobs'), Back(jobs)) /\ Embeds(relayQueue', relayQueue)
    BY <1>1, <2>1
  <2> QED
    BY <1>5, <2>2, ComingLess
<1>9. ASSUME ~overlapped, Following PROVE Following'
  <2>1. CASE Device
    BY <1>9, <2>1, DeviceFollows
  <2>2. CASE ~Device
    <3>1. Kept => Kept'
      BY <1>1, <1>2, <1>4, <2>2, EmbedsHolds DEF Kept
    <3>2. Apart => Apart'
      BY <1>1, <1>3, <2>2 DEF Apart, NoneEntered
    <3> QED
      BY <1>9, <3>1, <3>2 DEF Following
  <2> QED
    BY <2>1, <2>2
<1> QED
  BY <1>3, <1>5, <1>7, <1>8, <1>9

-----------------------------------------------------------------------------
(***************************************************************************)
(* The numbers of what comes.                                              *)
(***************************************************************************)
From(c) == {e \in Command : e.owner = c}
Below(c) == {e \in Command : e.owner = c /\ e.number < next[c]}
Newer == {e \in Command : e.epoch = epoch /\ answered[e.owner] < e.number}

\* What will come is newer than what has come, in the order of its numbers; it was asked for
\* in this session, and so was all that is awaited, by one client.
Numbered ==
  /\ Rising(Coming) /\ Fits(Coming, Newer)
  /\ \A c \in Client : view[c] = "active" =>
       answered[c] < next[c] /\ Fits(Coming, Below(c)) /\ Fits(Awaited, From(c))
  /\ \E c \in Client \cup {None} : Fits(Coming, From(c)) /\ Fits(Awaited, From(c))

LInv == Timely /\ Served /\ (~overlapped => Following /\ Numbered)

\* All that holds of the exchanges of s holds of those of r.
Looser(r, s) == \A S : Fits(s, S) => Fits(r, S)
Tamer(r, s) == Looser(r, s) /\ (Rising(s) => Rising(r))

\* What is left of a sequence.
LEMMA TameLess ==
  ASSUME NEW r \in Seq(Command), NEW s \in Seq(Command), Embeds(r, s)
  PROVE  Tamer(r, s)
BY EmbedsHolds DEF Tamer, Looser

\* A command that is no exchange changes nothing, nor does none.
LEMMA TameEnd ==
  ASSUME NEW s \in Seq(Command), NEW commands \in Seq(Command),
         commands = <<>> \/ \E c \in Command : commands = <<c>> /\ c.what # "exchange"
  PROVE  Tamer(s \o commands, s) /\ s \o commands \in Seq(Command)
<1>1. s \o commands \in Seq(Command)
  BY ConcatProperties
<1>2. CASE commands = <<>>
  BY <1>2, ConcatEmptySeq DEF Tamer, Looser
<1>3. ASSUME NEW c \in Command, commands = <<c>>, c.what # "exchange"
      PROVE  Tamer(s \o commands, s)
  <2>1. \A S : Fits(commands, S)
    <3>1. Len(<<c>>) = 1 /\ <<c>>[1] = c /\ \A i \in 1 .. 1 : i = 1
      OBVIOUS
    <3> QED
      BY <1>3, <3>1 DEF Fits
  <2>2. \A S : Fits(s, S) => Fits(s \o commands, S)
    BY <2>1, FitsJoin
  <2>3. Rising(s) => Rising(s \o commands)
    BY <1>3, RisingEnd
  <2> QED
    BY <2>2, <2>3 DEF Tamer, Looser
<1> QED
  BY <1>1, <1>2, <1>3

\* Nothing new is asked for: what is written was in the relay queue.
LEMMA NumberedStep ==
  ASSUME TypeOK, TypeOK', Numbered, Tamer(Coming', Coming), Fits(Coming', Newer'),
         \A c : Fits(Coming, From(c)) /\ Fits(Awaited, From(c)) => Fits(Awaited', From(c)),
         \A c \in Client : view'[c] = "active" =>
           view[c] = "active" /\ next'[c] = next[c] /\ answered'[c] < next'[c]
  PROVE  Numbered'
<1>1. Rising(Coming')
  BY DEF Numbered, Tamer
<1>2. \A c : From(c)' = From(c)
  BY DEF From
<1>3. ASSUME NEW c \in Client, view'[c] = "active"
      PROVE  answered'[c] < next'[c] /\ Fits(Coming', Below(c)') /\ Fits(Awaited', From(c))
  <2>1. view[c] = "active" /\ next'[c] = next[c] /\ answered'[c] < next'[c]
    BY <1>3
  <2>2. Fits(Coming, Below(c)) /\ Fits(Awaited, From(c))
    BY <2>1 DEF Numbered
  <2>3. Below(c)' = Below(c)
    BY <2>1 DEF Below
  <2>4. Fits(Coming, From(c))
    BY <2>2 DEF Fits, Below, From
  <2> QED
    BY <2>1, <2>2, <2>3, <2>4 DEF Tamer, Looser
<1>4. PICK c \in Client \cup {None} : Fits(Coming, From(c)) /\ Fits(Awaited, From(c))
  BY DEF Numbered
<1>5. Fits(Coming', From(c)) /\ Fits(Awaited', From(c))
  BY <1>4 DEF Tamer, Looser
<1> QED
  BY <1>1, <1>2, <1>3, <1>5 DEF Numbered

\* Nothing new is asked for, and nothing is answered.
LEMMA NumberedTame ==
  ASSUME TypeOK, TypeOK', Numbered, Tamer(Coming', Coming), epoch' = epoch,
         \A c : Fits(Coming, From(c)) /\ Fits(Awaited, From(c)) => Fits(Awaited', From(c)),
         \A c \in Client : view'[c] = "active" => view[c] = "active" /\ next'[c] = next[c],
         \A c \in Client : answered'[c] \in {answered[c], -1}
  PROVE  Numbered'
<1>1. \A c \in Client : answered[c] \in Int /\ answered'[c] \in Int /\ answered'[c] <= answered[c]
  <2>1. \A c \in Client : answered[c] \in Nat \cup {-1}
    BY BridgeAssumption DEF TypeOK, Number
  <2> QED
    BY <2>1
<1>2. Fits(Coming', Newer)
  BY DEF Numbered, Tamer, Looser
<1>3. \A e \in Newer : e \in Newer'
  <2>1. \A e \in Command : e.owner \in Client /\ e.number \in Int
    BY BridgeAssumption DEF Command, Number
  <2> QED
    BY <1>1, <2>1 DEF Newer
<1>4. Fits(Coming', Newer')
  BY <1>2, <1>3 DEF Fits
<1>5. ASSUME NEW c \in Client, view'[c] = "active"
      PROVE  view[c] = "active" /\ next'[c] = next[c] /\ answered'[c] < next'[c]
  <2>1. view[c] = "active" /\ next'[c] = next[c]
    BY <1>5
  <2>2. answered[c] < next[c]
    BY <2>1 DEF Numbered
  <2>3. next[c] \in Int
    BY BridgeAssumption DEF TypeOK
  <2> QED
    BY <1>1, <2>1, <2>2, <2>3
<1> QED
  BY <1>4, <1>5, NumberedStep

\* The same when what is awaited changes only by control commands.
LEMMA NumberedLooser ==
  ASSUME TypeOK, TypeOK', Numbered, Tamer(Coming', Coming), epoch' = epoch, Looser(Awaited', Awaited),
         \A c \in Client : view'[c] = "active" => view[c] = "active" /\ next'[c] = next[c],
         \A c \in Client : answered'[c] \in {answered[c], -1}
  PROVE  Numbered'
BY NumberedTame DEF Looser

\* Writing nothing is writing no commands.
LEMMA NoneWritten ==
  ASSUME TypeOK, NoWrite
  PROVE  Write(<<>>) /\ <<>> \in Seq(Command)
<1>1. writing \in Seq(Command) /\ toDevice \in Seq(Command) /\ <<>> \in Seq(Command)
  BY DEF TypeOK
<1>2. writing \o <<>> = writing /\ toDevice \o <<>> = toDevice
  BY <1>1, ConcatEmptySeq
<1> QED
  BY <1>1, <1>2 DEF NoWrite, Write

\* What is written comes last and is awaited last.
LEMMA WroteLine ==
  ASSUME TypeOK, TypeOK', Timely, Served, NEW commands \in Seq(Command), Write(commands),
         buffer' \in {buffer, <<>>}, line' = line, waiters' = waiters
  PROVE  /\ Prompt(buffer') /\ Prompt(line') /\ Served' /\ Embeds(Answers', Answers \o commands)
         /\ Answers \o commands \in Seq(Command) /\ Answers' \in Seq(Command)
<1>1. /\ buffer \in Seq(Reply) /\ buffer' \in Seq(Reply) /\ line \in Seq(Reply) /\ toDevice \in Seq(Command)
      /\ waiters \in Seq(Command) /\ writing \in Seq(Command) /\ Answers \in Seq(Command)
      /\ Waiting \in Seq(Command) /\ Of(buffer) \in Seq(Command) /\ Of(line) \in Seq(Command)
  BY Streams DEF TypeOK
<1>2. Prompt(buffer') /\ Prompt(line')
  BY <1>1, PromptParts DEF Timely
<1>3. toDevice' = toDevice \o commands /\ writing' = writing \o commands
  BY DEF Write
<1> DEFINE d == toDevice \o commands
<1>4. d \in Seq(Command)
  BY <1>1, ConcatProperties
<1>5. Flow(buffer, line, d) = Answers \o commands
  <2> DEFINE a == Of(buffer)
             b == Of(line)
  <2>1. a \in Seq(Command) /\ b \in Seq(Command)
    BY <1>1
  <2> HIDE DEF a, b
  <2>2. b \o toDevice \in Seq(Command) /\ (b \o toDevice) \o commands = b \o (toDevice \o commands)
    <3>1. b \in Seq(Command) /\ toDevice \in Seq(Command)
      BY <1>1, <2>1
    <3> QED
      BY <3>1, Three
  <2> DEFINE u == b \o toDevice
  <2>3. (a \o u) \o commands = a \o (u \o commands)
    <3>1. u \in Seq(Command)
      BY <2>2
    <3> HIDE DEF u
    <3> QED
      <4>1. Regrouped(a, u, commands)
        BY <2>1, <3>1, Regroup
      <4> QED
        BY <4>1 DEF Regrouped
  <2> QED
    BY <2>2, <2>3 DEF Answers, Flow, a, b
<1>6. Embeds(Flow(buffer', line, d), Flow(buffer, line, d))
  <2>1. Embeds(Of(buffer'), Of(buffer))
    BY <1>1, OfNone, EmbedsSame
  <2>2. Embeds(Of(line), Of(line)) /\ Embeds(d, d)
    BY <1>1, <1>4, EmbedsSame
  <2> HIDE DEF d
  <2> QED
    BY <1>1, <1>4, <2>1, <2>2, FlowLess
<1>7. Answers' = Flow(buffer', line, d)
  BY <1>3 DEF Answers
<1> HIDE DEF d
<1>8. Answers' \in Seq(Command) /\ Answers \o commands \in Seq(Command)
  BY <1>1, <1>4, <1>7, FlowType, ConcatProperties
<1>9. Embeds(Answers', Answers \o commands)
  BY <1>5, <1>6, <1>7
<1>10. Waiting' = Waiting \o commands /\ Waiting \o commands \in Seq(Command)
  <2>1. waiters \in Seq(Command) /\ writing \in Seq(Command)
    BY <1>1
  <2>2. (waiters \o writing) \o commands = waiters \o (writing \o commands)
    BY <2>1, Three
  <2> QED
    BY <1>1, <1>3, <2>2, ConcatProperties DEF Waiting
<1>11. Embeds(Answers \o commands, Waiting \o commands)
  BY <1>1, EmbedsSame, EmbedsJoin DEF Served
<1>12. Served'
  BY <1>8, <1>9, <1>10, <1>11, EmbedsOver DEF Served
<1> QED
  BY <1>2, <1>8, <1>9, <1>12

\* A step that writes at most a control command, with nothing in the relay queue.
LEMMA ControlComing ==
  ASSUME TypeOK, TypeOK', NEW commands \in Seq(Command),
         Embeds(Answers', Answers \o commands), Embeds(Back(jobs'), Back(jobs)), relayQueue' = <<>>,
         commands = <<>> \/ \E c \in Command : commands = <<c>> /\ c.what # "exchange"
  PROVE  Tamer(Coming', Coming)
<1> DEFINE b == Back(jobs)
           a == Answers
           q == relayQueue
           x == Back(jobs')
           y == Answers'
<1>1. /\ b \in Seq(Command) /\ a \in Seq(Command) /\ q \in Seq(Command)
      /\ x \in Seq(Command) /\ y \in Seq(Command) /\ Embeds(y, a \o commands) /\ Embeds(x, b)
  BY Streams, BackFacts, FlowType DEF TypeOK, Answers
<1>2. Coming = (b \o a) \o q /\ Coming' = (x \o y) \o <<>>
  BY DEF Coming
<1> HIDE DEF b, a, q, x, y
<1>3. /\ a \o commands \in Seq(Command) /\ b \o a \in Seq(Command) /\ x \o y \in Seq(Command)
      /\ (b \o a) \o q \in Seq(Command) /\ b \o (a \o commands) \in Seq(Command)
  <2>1. a \o commands \in Seq(Command) /\ b \o a \in Seq(Command) /\ x \o y \in Seq(Command)
    BY <1>1, ConcatProperties
  <2> QED
    BY <1>1, <2>1, ConcatProperties
<1>4. Embeds(x \o y, b \o (a \o commands))
  BY <1>1, <1>3, EmbedsJoin
<1>5. (b \o a) \o commands = b \o (a \o commands)
  <2>1. b \in Seq(Command) /\ a \in Seq(Command)
    BY <1>1
  <2> QED
    BY <2>1, Three
<1> DEFINE s == b \o a
<1>6. s \in Seq(Command) /\ Embeds(x \o y, s \o commands)
  BY <1>3, <1>4, <1>5
<1> HIDE DEF s
<1>7. Tamer(s \o commands, s) /\ s \o commands \in Seq(Command)
  BY <1>6, TameEnd
<1>8. Tamer(x \o y, s \o commands)
  BY <1>3, <1>6, <1>7, TameLess
<1>9. Tamer(s, s \o q)
  <2>1. Embeds(s, s) /\ Embeds(<<>>, q) /\ <<>> \in Seq(Command) /\ s \o <<>> = s
    BY <1>1, <1>6, EmbedsSame, ConcatEmptySeq
  <2>2. Embeds(s \o <<>>, s \o q) /\ s \o q \in Seq(Command)
    BY <1>1, <1>6, <2>1, EmbedsJoin
  <2> QED
    BY <1>6, <2>1, <2>2, TameLess
<1>10. Tamer(x \o y, s \o q)
  BY <1>7, <1>8, <1>9 DEF Tamer, Looser
<1>11. (x \o y) \o <<>> = x \o y
  BY <1>3, ConcatEmptySeq
<1> QED
  BY <1>2, <1>10, <1>11 DEF s

-----------------------------------------------------------------------------
(***************************************************************************)
(* Starts and ends of sessions, on the line.                               *)
(***************************************************************************)
\* The line does not move.
LEMMA StillLine ==
  ASSUME TypeOK, Timely, Served, jobs' = jobs,
         UNCHANGED <<writing, waiters, buffer, line, toDevice, relayQueue, device, sessionActive>>
  PROVE  /\ Timely' /\ Served' /\ Tamer(Coming', Coming) /\ Looser(Awaited', Awaited)
         /\ Following => Following'
<1>1. Answers' = Answers /\ Coming' = Coming /\ Waiting' = Waiting /\ Awaited' = Awaited
  BY DEF Answers, Coming, Waiting, Awaited
<1>2. Timely' /\ Served'
  BY <1>1 DEF Timely, Served
<1>3. Tamer(Coming', Coming) /\ Looser(Awaited', Awaited)
  BY <1>1 DEF Tamer, Looser
<1>4. Following => Following'
  BY <1>1 DEF Following, Kept, Apart, NoneEntered
<1> QED
  BY <1>2, <1>3, <1>4

\* A control command is written.
LEMMA ControlLine ==
  ASSUME TypeOK, TypeOK', Timely, Served, NEW c \in Command, c.what # "exchange", Write(<<c>>),
         buffer' \in {buffer, <<>>}, UNCHANGED <<jobs, waiters, line>>
  PROVE  /\ Timely' /\ Served' /\ Looser(Awaited', Awaited)
         /\ relayQueue' = <<>> => Tamer(Coming', Coming)
         /\ \A kinds : Without(Awaited', kinds) <=> Without(Awaited, kinds) /\ c.what \notin kinds
         /\ \A kinds : Without(toDevice', kinds) <=> Without(toDevice, kinds) /\ c.what \notin kinds
<1> DEFINE commands == <<c>>
<1>1. /\ commands \in Seq(Command) /\ Write(commands) /\ \E d \in Command : commands = <<d>> /\ d.what # "exchange"
      /\ \A kinds : Without(commands, kinds) <=> c.what \notin kinds
  BY WithoutOne
<1> HIDE DEF commands
<1>2. /\ Prompt(buffer') /\ Prompt(line') /\ Served' /\ Embeds(Answers', Answers \o commands)
  BY <1>1, WroteLine
<1>3. Timely'
  BY <1>2 DEF Timely
<1>4. Awaited' = Awaited \o commands /\ Awaited \in Seq(Command) /\ toDevice \in Seq(Command)
      /\ toDevice' = toDevice \o commands
  BY <1>1, Written, Streams DEF Write
<1>5. Looser(Awaited', Awaited)
  BY <1>1, <1>4, TameEnd DEF Tamer
<1>6. ASSUME relayQueue' = <<>> PROVE Tamer(Coming', Coming)
  <2>1. Embeds(Back(jobs'), Back(jobs))
    BY Streams, EmbedsSame
  <2> QED
    BY <1>1, <1>2, <1>6, <2>1, ControlComing
<1>7. \A kinds : Without(Awaited', kinds) <=> Without(Awaited, kinds) /\ c.what \notin kinds
  BY <1>1, <1>4, WithoutConcat
<1>8. \A kinds : Without(toDevice', kinds) <=> Without(toDevice, kinds) /\ c.what \notin kinds
  BY <1>1, <1>4, WithoutConcat
<1> QED
  BY <1>2, <1>3, <1>5, <1>6, <1>7, <1>8

\* ENTER is written when no session is active.
LEMMA EnterLine ==
  ASSUME TypeOK, TypeOK', Timely, Served, NEW c \in Client, Enter(c), ~sessionActive,
         UNCHANGED <<jobs, waiters, line, device, sessionActive>>
  PROVE  /\ Timely' /\ Served' /\ Looser(Awaited', Awaited)
         /\ relayQueue' = <<>> => Tamer(Coming', Coming)
         /\ Following => Following'
<1> DEFINE e == Control("enter", c)
<1>1. e \in Command /\ e.what = "enter" /\ Write(<<e>>) /\ buffer' = <<>>
  BY ControlSafe DEF Enter
<1> HIDE DEF e
<1>2. /\ Timely' /\ Served' /\ Looser(Awaited', Awaited)
      /\ relayQueue' = <<>> => Tamer(Coming', Coming)
      /\ \A kinds : Without(Awaited', kinds) <=> Without(Awaited, kinds) /\ e.what \notin kinds
      /\ \A kinds : Without(toDevice', kinds) <=> Without(toDevice, kinds) /\ e.what \notin kinds
  BY <1>1, ControlLine
<1>3. Kept => Kept'
  BY <1>1, <1>2 DEF Kept
<1>4. Apart => Apart'
  <2>1. Without(Of(buffer'), {"enter"})
    <3>1. Len(<<>>) = 0
      OBVIOUS
    <3> QED
      BY <1>1, <3>1, OfNone DEF Without
  <2> QED
    BY <1>1, <1>2, <2>1 DEF Apart, NoneEntered
<1> QED
  BY <1>2, <1>3, <1>4 DEF Following

\* A start takes nobody into a session yet.
LEMMA StartLine == ASSUME IInv, IInv', SInv, LInv, NEW c \in Client, Start(c) PROVE LInv'
<1>1. /\ view' = [view EXCEPT ![c] = "starting"] /\ overlapped' = (overlapped \/ StartPending)
      /\ UNCHANGED <<next, sessionActive, relayQueue, waiters, jobs, line, device, epoch, answered>>
  BY DEF Start, server, relay
<1>2. \/ NoWrite /\ buffer' = buffer
      \/ Enter(c) /\ ~sessionActive
  BY DEF Start
<1>3. /\ TypeOK /\ TypeOK' /\ Timely /\ Served
      /\ view \in [Client -> {"idle", "starting", "active"}]
  BY DEF IInv, LInv, TypeOK
<1>4. \A d \in Client : view'[d] = "active" => view[d] = "active"
  BY <1>1, <1>3
<1>5. CASE NoWrite /\ buffer' = buffer
  <2>1. /\ Timely' /\ Served' /\ Tamer(Coming', Coming) /\ Looser(Awaited', Awaited)
        /\ Following => Following'
    BY <1>1, <1>3, <1>5, StillLine DEF NoWrite
  <2>2. Numbered => Numbered'
    BY <1>1, <1>3, <1>4, <2>1, NumberedLooser
  <2> QED
    BY <1>1, <2>1, <2>2 DEF LInv
<1>6. CASE Enter(c) /\ ~sessionActive
  <2>1. /\ Timely' /\ Served' /\ Looser(Awaited', Awaited)
        /\ relayQueue' = <<>> => Tamer(Coming', Coming)
        /\ Following => Following'
    BY <1>1, <1>3, <1>6, EnterLine
  <2>2. ASSUME ~overlapped, Numbered PROVE Numbered'
    <3>1. relayQueue' = <<>>
      BY <1>1, <1>6, <2>2 DEF SInv, Relaying, NoStuckJob
    <3> QED
      BY <1>1, <1>3, <1>4, <2>1, <2>2, <3>1, NumberedLooser
  <2> QED
    BY <1>1, <2>1, <2>2 DEF LInv
<1> QED
  BY <1>2, <1>5, <1>6

\* The port is open, and ENTER is written, or could not be opened.
LEMMA OpenedLine == ASSUME IInv, IInv', SInv, LInv, Opened PROVE LInv'
<1>1. /\ opening # None
      /\ UNCHANGED <<view, next, sessionActive, relayQueue, waiters, jobs, line, device, epoch,
                     answered, overlapped>>
  BY DEF Opened, client, server, relay
<1>2. \/ NoWrite /\ buffer' = buffer
      \/ Enter(opening)
  BY DEF Opened
<1>3. TypeOK /\ TypeOK' /\ Timely /\ Served /\ opening \in Client
  BY <1>1 DEF IInv, LInv, TypeOK
<1>5. CASE NoWrite /\ buffer' = buffer
  <2>1. /\ Timely' /\ Served' /\ Tamer(Coming', Coming) /\ Looser(Awaited', Awaited)
        /\ Following => Following'
    BY <1>1, <1>3, <1>5, StillLine DEF NoWrite
  <2>2. Numbered => Numbered'
    BY <1>1, <1>3, <2>1, NumberedLooser
  <2> QED
    BY <1>1, <2>1, <2>2 DEF LInv
<1>6. CASE Enter(opening)
  <2>1. /\ Timely' /\ Served' /\ Looser(Awaited', Awaited)
        /\ relayQueue' = <<>> => Tamer(Coming', Coming)
        /\ ~sessionActive => (Following => Following')
    <3> DEFINE e == Control("enter", opening)
    <3>1. e \in Command /\ e.what = "enter" /\ Write(<<e>>) /\ buffer' = <<>>
      BY <1>3, <1>6, ControlSafe DEF Enter
    <3> HIDE DEF e
    <3>2. /\ Timely' /\ Served' /\ Looser(Awaited', Awaited)
          /\ relayQueue' = <<>> => Tamer(Coming', Coming)
      BY <1>1, <1>3, <3>1, ControlLine
    <3>3. ~sessionActive => (Following => Following')
      BY <1>1, <1>3, <1>6, EnterLine
    <3> QED
      BY <3>2, <3>3
  <2>2. ASSUME ~overlapped, Numbered, Following PROVE Numbered' /\ Following'
    <3>1. ~sessionActive
      BY <1>1, <2>2 DEF SInv, Starting
    <3>2. relayQueue' = <<>>
      BY <1>1, <2>2, <3>1 DEF SInv, Relaying, NoStuckJob
    <3> QED
      BY <1>1, <1>3, <2>1, <2>2, <3>1, <3>2, NumberedLooser
  <2> QED
    BY <1>1, <2>1, <2>2 DEF LInv
<1> QED
  BY <1>2, <1>5, <1>6

\* A session that has begun has no ENTER on the line any more.
LEMMA NoEnter ==
  ASSUME TypeOK, SInv, Served, ~overlapped, sessionActive, jobs = <<>>
  PROVE  /\ Without(Awaited, {"query"})
         /\ Without(Of(buffer), {"enter"}) /\ Without(Of(line), {"enter"}) /\ NoneEntered
<1>1. Without(Awaited, Begins)
  BY DEF SInv, Starting
<1>2. Answers \in Seq(Command) /\ Waiting \in Seq(Command)
  BY Streams
<1>3. Without(Answers, Begins)
  BY <1>1, <1>2, WaitingAwaited, EmbedsHolds DEF Served
<1>4. Without(Of(buffer), Begins) /\ Without(Of(line), Begins)
  BY <1>3, AnswersParts
<1>5. NoneEntered
  <2>1. Len(<<>>) = 0
    OBVIOUS
  <2> QED
    BY <2>1 DEF NoneEntered
<1> QED
  BY <1>1, <1>4, <1>5 DEF Without, Begins

\* The session is told to end, and nobody relays in it.
LEMMA EndLine == ASSUME IInv, IInv', SInv, LInv, NEW c \in Client, Stop(c) \/ Close(c) PROVE LInv'
<1>1. /\ jobs = <<>> /\ view' = [view EXCEPT ![c] = "idle"]
      /\ \A d \in Client : d # c => next'[d] = next[d]
      /\ \A d \in Client : answered'[d] \in {answered[d], -1}
      /\ UNCHANGED <<sessionActive, waiters, jobs, line, buffer, device, epoch, overlapped>>
  <2>1. answered \in [Client -> Number \cup {-1}] /\ next \in [Client -> 0 .. Requests]
    BY DEF IInv, TypeOK
  <2>2. CASE Stop(c)
    BY <2>1, <2>2 DEF Stop, Ready, server
  <2>3. CASE Close(c)
    BY <2>1, <2>3 DEF Close, Ready, server
  <2> QED
    BY <2>2, <2>3
<1>2. \/ sessionActive /\ relayQueue' = <<>> /\ Write(<<Control("exit", c)>>)
      \/ ~sessionActive /\ relayQueue' \in {<<>>, relayQueue} /\ NoWrite
  BY DEF Stop, Close, StopSession
<1>3. /\ TypeOK /\ TypeOK' /\ Timely /\ Served
      /\ view \in [Client -> {"idle", "starting", "active"}]
  BY DEF IInv, LInv, TypeOK
<1>4. \A d \in Client : view'[d] = "active" => view[d] = "active" /\ next'[d] = next[d]
  BY <1>1, <1>3
<1>5. ASSUME ~overlapped, Numbered, Tamer(Coming', Coming), Looser(Awaited', Awaited) PROVE Numbered'
  BY <1>1, <1>3, <1>4, <1>5, NumberedLooser
<1>6. CASE sessionActive /\ relayQueue' = <<>> /\ Write(<<Control("exit", c)>>)
  <2> DEFINE e == Control("exit", c)
  <2>1. e \in Command /\ e.what = "exit" /\ Write(<<e>>)
    BY <1>6, ControlSafe
  <2> HIDE DEF e
  <2>2. /\ Timely' /\ Served' /\ Looser(Awaited', Awaited) /\ Tamer(Coming', Coming)
        /\ \A kinds : Without(Awaited', kinds) <=> Without(Awaited, kinds) /\ e.what \notin kinds
    BY <1>1, <1>3, <1>6, <2>1, ControlLine
  <2>3. ASSUME ~overlapped PROVE Following'
    <3>1. /\ Without(Awaited, {"query"})
          /\ Without(Of(buffer), {"enter"}) /\ Without(Of(line), {"enter"}) /\ NoneEntered
      BY <1>1, <1>3, <1>6, <2>3, NoEnter
    <3>2. Without(Awaited', {"query"}) /\ ~Without(Awaited', {"exit"})
      BY <2>1, <2>2, <3>1
    <3> QED
      BY <1>1, <3>1, <3>2 DEF Following, Apart, NoneEntered
  <2> QED
    BY <1>1, <1>5, <2>2, <2>3 DEF LInv
<1>7. CASE ~sessionActive /\ relayQueue' \in {<<>>, relayQueue} /\ NoWrite
  <2>1. Answers' = Answers /\ Waiting' = Waiting /\ Awaited' = Awaited
    BY <1>1, <1>7 DEF Answers, Waiting, Awaited, NoWrite
  <2>2. Timely' /\ Served'
    BY <1>1, <1>3, <2>1 DEF Timely, Served
  <2>3. ASSUME ~overlapped, Following, Numbered PROVE Following' /\ Numbered'
    <3>1. relayQueue' = relayQueue
      BY <1>7, <2>3 DEF SInv, Relaying, NoStuckJob
    <3> QED
      BY <1>1, <1>3, <1>5, <1>7, <2>3, <3>1, StillLine DEF NoWrite
  <2> QED
    BY <1>1, <2>2, <2>3 DEF LInv
<1> QED
  BY <1>2, <1>6, <1>7

-----------------------------------------------------------------------------
(***************************************************************************)
(* A job goes on.                                                          *)
(***************************************************************************)
\* The first job brings the first of what comes, or nothing when its time is over.
LEMMA BackTail ==
  ASSUME NEW js \in Seq(Job), js # <<>>,
         \A i \in 1 .. Len(js) : js[i].reply.status = "timeout" => Len(js) = 1
  PROVE  /\ Tail(js) \in Seq(Job) /\ Head(js).reply \in Reply /\ Head(js).reply.of \in Command
         /\ \A i \in 1 .. Len(Tail(js)) : Tail(js)[i].reply.status # "timeout"
         /\ \/ Head(js).reply.status = "timeout" /\ Back(js) = <<>> /\ Back(Tail(js)) = <<>>
            \/ /\ Head(js).reply.status # "timeout"
               /\ Back(js) = <<Head(js).reply.of>> \o Back(Tail(js))
<1>1. /\ Tail(js) \in Seq(Job) /\ Len(Tail(js)) = Len(js) - 1 /\ Len(js) \in Nat \ {0}
      /\ \A i \in 1 .. Len(Tail(js)) : Tail(js)[i] = js[i + 1]
      /\ Head(js) = js[1] /\ js[1] \in Job /\ 1 \in 1 .. Len(js)
  <2>1. Len(js) \in Nat \ {0} /\ Head(js) = js[1] /\ Head(js) \in Job
    BY HeadTailProperties, EmptySeq
  <2>2. 1 \in 1 .. Len(js)
    BY <2>1
  <2> QED
    BY <2>1, <2>2, HeadTailProperties
<1>2. \A i \in 1 .. Len(Tail(js)) : i + 1 \in 1 .. Len(js) /\ Len(js) # 1
  BY <1>1
<1>3. \A i \in 1 .. Len(Tail(js)) : Tail(js)[i].reply.status # "timeout"
  BY <1>1, <1>2
<1>4. Head(js).reply \in Reply /\ Head(js).reply.of \in Command
  BY <1>1 DEF Job, Reply
<1> DEFINE t == Tail(js)
<1>5. /\ t \in Seq(Job) /\ Len(t) = Len(js) - 1 /\ \A i \in 1 .. Len(t) : t[i] = js[i + 1]
      /\ \A i \in 1 .. Len(t) : t[i].reply.status # "timeout"
  BY <1>1, <1>3
<1> HIDE DEF t
<1>6. Back(t) \in Seq(Command) /\ Len(Back(t)) = Len(t) /\ \A i \in 1 .. Len(t) : Back(t)[i] = t[i].reply.of
  BY <1>5, BackFacts
<1>7. CASE js[1].reply.status = "timeout"
  <2>1. Len(js) = 1
    BY <1>1, <1>7
  <2>2. Len(Back(t)) = 0
    BY <1>5, <1>6, <2>1
  <2>3. Back(t) = <<>>
    BY <1>6, <2>2, EmptySeq
  <2>4. Back(js) = <<>>
    BY <1>1, <1>7, BackFacts
  <2> QED
    BY <1>1, <1>3, <1>4, <1>7, <2>3, <2>4 DEF t
<1>8. CASE js[1].reply.status # "timeout"
  <2>1. \A i \in 1 .. Len(js) : js[i].reply.status # "timeout"
    <3>1. \A i \in 1 .. Len(js) : js[i].reply.status = "timeout" => i = 1
      BY <1>1
    <3> QED
      BY <1>8, <3>1
  <2> DEFINE b == Back(js)
  <2>2. b \in Seq(Command) /\ Len(b) = Len(js) /\ \A i \in 1 .. Len(js) : b[i] = js[i].reply.of
    BY <2>1, BackFacts
  <2> HIDE DEF b
  <2>3. b # <<>>
    BY <1>1, <2>2, EmptySeq
  <2>4. /\ Tail(b) \in Seq(Command) /\ Len(Tail(b)) = Len(b) - 1 /\ Head(b) = b[1]
        /\ \A i \in 1 .. Len(Tail(b)) : Tail(b)[i] = b[i + 1]
    BY <2>2, <2>3, HeadTailProperties
  <2>5. Len(Tail(b)) = Len(Back(t))
    BY <1>5, <1>6, <2>2, <2>4
  <2>6. ASSUME NEW i \in 1 .. Len(Back(t)) PROVE Tail(b)[i] = Back(t)[i]
    <3>1. Tail(b)[i] = b[i + 1] /\ i \in 1 .. Len(t)
      BY <1>6, <2>4, <2>5, <2>6
    <3>2. i + 1 \in 1 .. Len(js)
      BY <1>1, <1>5, <3>1
    <3>3. b[i + 1] = js[i + 1].reply.of
      BY <2>2, <3>2
    <3>4. Back(t)[i] = t[i].reply.of /\ t[i] = js[i + 1]
      BY <1>5, <1>6, <3>1
    <3> QED
      BY <3>1, <3>3, <3>4
  <2>7. Tail(b) = Back(t)
    BY <1>6, <2>4, <2>5, <2>6, SeqEqual
  <2>8. b = <<Head(b)>> \o Tail(b)
    BY <2>2, <2>3, HeadAndTail
  <2>9. Head(b) = Head(js).reply.of
    BY <1>1, <2>2, <2>4
  <2> QED
    BY <1>1, <1>3, <1>4, <1>8, <2>7, <2>8, <2>9 DEF b, t
<1> QED
  BY <1>7, <1>8

\* What comes without the first job.
LEMMA ComingHead ==
  ASSUME TypeOK, Timely, jobs # <<>>
  PROVE  \E t \in Seq(Command) :
           /\ t = (Back(Tail(jobs)) \o Answers) \o relayQueue /\ Embeds(t, Coming)
           /\ Back(Tail(jobs)) \in Seq(Command) /\ Back(Tail(jobs)) \o Answers \in Seq(Command)
           /\ Head(jobs).reply \in Reply /\ Head(jobs).reply.of \in Command
           /\ Head(jobs).reply.status # "timeout" => Coming = <<Head(jobs).reply.of>> \o t
<1> DEFINE h == Head(jobs).reply.of
           b == Back(Tail(jobs))
           a == Answers
           q == relayQueue
           f == Back(jobs)
<1>1. jobs \in Seq(Job) /\ a \in Seq(Command) /\ q \in Seq(Command) /\ f \in Seq(Command)
  BY Streams, Sequences
<1>2. /\ Tail(jobs) \in Seq(Job) /\ Head(jobs).reply \in Reply /\ h \in Command
      /\ \/ Head(jobs).reply.status = "timeout" /\ f = <<>> /\ b = <<>>
         \/ Head(jobs).reply.status # "timeout" /\ f = <<h>> \o b
  BY <1>1, BackTail DEF Timely
<1>3. b \in Seq(Command)
  BY <1>2, BackFacts
<1>4. <<h>> \in Seq(Command)
  BY <1>2, WithoutOne
<1>5. Coming = (f \o a) \o q
  BY DEF Coming
<1> HIDE DEF h, b, a, q, f
<1> DEFINE t == (b \o a) \o q
<1>6. b \o a \in Seq(Command) /\ t \in Seq(Command)
  <2>1. b \o a \in Seq(Command)
    BY <1>1, <1>3, Three
  <2> QED
    BY <1>1, <2>1, ConcatProperties
<1>7. ASSUME f = <<h>> \o b PROVE Coming = <<h>> \o t
  <2>1. f \o a = <<h>> \o (b \o a)
    BY <1>1, <1>3, <1>4, <1>7, Three
  <2> DEFINE u == b \o a
  <2>2. u \in Seq(Command)
    BY <1>6
  <2> HIDE DEF u
  <2>3. (<<h>> \o u) \o q = <<h>> \o (u \o q)
    BY <1>1, <1>4, <2>2, Three
  <2> QED
    BY <1>5, <2>1, <2>3 DEF u
<1>8. f = <<>> /\ b = <<>> => Coming = t
  BY <1>5
<1> HIDE DEF t
<1>9. Embeds(t, <<h>> \o t) /\ Embeds(t, t)
  <2>1. Embeds(t, t) /\ Embeds(<<>>, <<h>>) /\ <<>> \in Seq(Command)
    BY <1>4, <1>6, EmbedsSame
  <2>2. Embeds(<<>> \o t, <<h>> \o t)
    BY <1>4, <1>6, <2>1, EmbedsJoin
  <2>3. <<>> \o t = t
    BY <1>6, ConcatEmptySeq
  <2> QED
    BY <2>1, <2>2, <2>3
<1>10. Embeds(t, Coming)
  BY <1>2, <1>7, <1>8, <1>9
<1> QED
  BY <1>2, <1>3, <1>6, <1>7, <1>10 DEF t, h, b, a, q, f

-----------------------------------------------------------------------------
(***************************************************************************)
(* Exchanges, on the line.                                                 *)
(***************************************************************************)
\* drainRelayQueue writes the first requests and leaves the others.
LEMMA DrainCut ==
  ASSUME NEW queue \in Seq(Command), NEW inFlight \in 0 .. Depth, Drain(queue, inFlight)
  PROVE  \E n \in 0 .. Len(queue) : Write(First(queue, n)) /\ relayQueue' = Rest(queue, n)
<1> DEFINE room == Depth - inFlight
           n == IF ~sessionActive THEN 0 ELSE IF Len(queue) < room THEN Len(queue) ELSE room
<1>1. Len(queue) \in Nat /\ Depth \in Nat /\ inFlight \in Nat /\ inFlight <= Depth
  BY BridgeAssumption, LenProperties
<1>2. n \in 0 .. Len(queue)
  BY <1>1
<1>3. relayQueue' = Rest(queue, n) /\ Write(First(queue, n))
  BY DEF Drain, First, Rest
<1> HIDE DEF n
<1> QED
  BY <1>2, <1>3

\* The requests that are written come behind all that comes back, before those that are left.
LEMMA DrainLine ==
  ASSUME TypeOK, TypeOK', Timely, Served, NEW queue \in Seq(Command), NEW inFlight \in 0 .. Depth,
         Drain(queue, inFlight), UNCHANGED <<waiters, buffer, line>>
  PROVE  /\ Prompt(buffer') /\ Prompt(line') /\ Served'
         /\ \A b \in Seq(Command) : Embeds((b \o Answers') \o relayQueue', (b \o Answers) \o queue)
         /\ \E commands \in Seq(Command) : Write(commands) /\ Embeds(commands, queue)
<1>1. PICK n \in 0 .. Len(queue) : Write(First(queue, n)) /\ relayQueue' = Rest(queue, n)
  BY DrainCut
<1> DEFINE f == First(queue, n)
           r == Rest(queue, n)
<1>2. f \in Seq(Command) /\ r \in Seq(Command) /\ f \o r = queue /\ Embeds(f, queue)
  BY CutFacts, EmbedsPart
<1>3. Write(f) /\ relayQueue' = r
  BY <1>1
<1> HIDE DEF f, r
<1>4. /\ Prompt(buffer') /\ Prompt(line') /\ Served' /\ Embeds(Answers', Answers \o f)
      /\ Answers \o f \in Seq(Command) /\ Answers' \in Seq(Command)
  BY <1>2, <1>3, WroteLine
<1>5. Answers \in Seq(Command)
  BY Streams
<1>6. ASSUME NEW b \in Seq(Command)
      PROVE  Embeds((b \o Answers') \o relayQueue', (b \o Answers) \o queue)
  <2> DEFINE x == Answers'
             a == Answers
             y == a \o f
             z == b \o a
  <2>1. x \in Seq(Command) /\ a \in Seq(Command) /\ y \in Seq(Command) /\ Embeds(x, y)
    BY <1>4, <1>5
  <2>2. z \in Seq(Command) /\ b \o y = z \o f
    <3> HIDE DEF x
    <3>1. a \in Seq(Command) /\ f \in Seq(Command)
      BY <1>2, <1>5
    <3> HIDE DEF a
    <3>2. (b \o a) \o f = b \o (a \o f) /\ b \o a \in Seq(Command)
      BY <3>1, Three
    <3> QED
      BY <3>2
  <2> HIDE DEF x, a, y, z
  <2>3. Embeds(b \o x, b \o y) /\ b \o x \in Seq(Command) /\ b \o y \in Seq(Command)
    BY <1>6, <2>1, EmbedsSame, EmbedsJoin
  <2>4. Embeds((b \o x) \o r, (b \o y) \o r)
    <3> DEFINE u == b \o x
               v == b \o y
    <3>1. u \in Seq(Command) /\ v \in Seq(Command) /\ Embeds(u, v)
      BY <2>3
    <3> HIDE DEF u, v
    <3>2. Embeds(u \o r, v \o r)
      BY <1>2, <3>1, EmbedsSame, EmbedsJoin
    <3> QED
      BY <3>2 DEF u, v
  <2>5. (z \o f) \o r = z \o (f \o r)
    BY <1>2, <2>2, Three
  <2> QED
    BY <1>2, <1>3, <2>2, <2>4, <2>5 DEF x, a, z
<1> QED
  BY <1>2, <1>3, <1>4, <1>6

\* Requests follow what is awaited: they neither begin nor end anything.
LEMMA FollowingWrote ==
  ASSUME TypeOK, Following, NEW commands \in Seq(Command), Write(commands),
         Without(commands, {"exit"}), Without(commands, {"query"}),
         NEW q \in Seq(Command), Awaited' = q \o commands,
         Without(Awaited, {"query"}) => Without(q, {"query"}),
         Without(q, {"exit"}) => Without(Awaited, {"exit"}),
         NoneEntered => NoneEntered', UNCHANGED <<buffer, line, device, sessionActive>>
  PROVE  Following'
<1>1. toDevice \in Seq(Command) /\ toDevice' = toDevice \o commands
  BY Streams DEF Write
<1>2. CASE Kept
  <2>1. Without(toDevice', {"exit"})
    BY <1>1, <1>2, WithoutConcat DEF Kept
  <2> QED
    BY <1>2, <2>1 DEF Following, Kept
<1>3. CASE Apart
  <2>1. Without(Awaited', {"query"})
    BY <1>3, WithoutConcat DEF Apart
  <2>2. Without(Awaited', {"exit"}) => Without(Awaited, {"exit"})
    BY WithoutConcat
  <2> QED
    BY <1>3, <2>1, <2>2 DEF Following, Apart
<1> QED
  BY <1>2, <1>3 DEF Following

\* The queue that enqueueRelay leaves has the request at its end, and may have lost its first.
LEMMA NewestEmbeds ==
  ASSUME NEW q \in Seq(Command), NEW e \in Command
  PROVE  Newest(Append(q, e)) \in Seq(Command) /\ Embeds(Newest(Append(q, e)), q \o <<e>>)
         /\ <<e>> \in Seq(Command) /\ q \o <<e>> \in Seq(Command)
<1> DEFINE more == q \o <<e>>
<1>1. /\ <<e>> \in Seq(Command) /\ more \in Seq(Command) /\ Append(q, e) = more
      /\ Len(more) = Len(q) + 1 /\ Len(q) \in Nat
  BY WithoutOne, ConcatProperties, AppendIsConcat, LenProperties
<1> HIDE DEF more
<1>2. more # <<>>
  BY <1>1, EmptySeq
<1>3. Tail(more) \in Seq(Command) /\ Embeds(Tail(more), more) /\ Embeds(more, more)
  BY <1>1, <1>2, TailRest, EmbedsSame
<1>4. Newest(more) \in {more, Tail(more)}
  BY DEF Newest
<1> QED
  BY <1>1, <1>3, <1>4 DEF more

\* One command.
LEMMA FitsOne ==
  ASSUME NEW e \in Command, NEW S, e \in S
  PROVE  Fits(<<e>>, S)
<1>1. Len(<<e>>) = 1 /\ <<e>>[1] = e /\ \A i \in 1 .. 1 : i = 1
  OBVIOUS
<1> QED
  BY <1>1 DEF Fits

\* A request is newer than all that comes, and is the client's own.
LEMMA ExchangeNumbered ==
  ASSUME TypeOK, TypeOK', OneClient, Numbered, NEW c \in Client, conn[c] = "open", view[c] = "active",
         next[c] < Requests, next' = [next EXCEPT ![c] = @ + 1],
         UNCHANGED <<view, epoch, answered>>,
         NEW e \in Command, e.what = "exchange", e.owner = c, e.number = next[c], e.epoch = epoch,
         Embeds(Coming', Coming \o <<e>>), NEW commands \in Seq(Command),
         Embeds(commands, relayQueue \o <<e>>), Awaited' = Awaited \o commands
  PROVE  Numbered'
<1>1. /\ \A d \in Client : view[d] = "active" => d = c
      /\ \A d \in Client : next[d] \in Nat /\ answered[d] \in Int
  <2>1. \A d \in Client : next[d] \in 0 .. Requests /\ answered[d] \in Number \cup {-1}
    BY DEF TypeOK
  <2>2. Number \subseteq Int /\ Requests \in Nat
    BY BridgeAssumption DEF Number
  <2>3. ASSUME NEW d \in Client PROVE next[d] \in Nat /\ answered[d] \in Int
    <3> DEFINE n == next[d]
               a == answered[d]
    <3>1. n \in 0 .. Requests /\ a \in Number \cup {-1}
      BY <2>1
    <3> HIDE DEF n, a
    <3>2. n \in Nat
      BY <2>2, <3>1
    <3>3. a \in Int
      BY <2>2, <3>1
    <3> QED
      BY <3>2, <3>3 DEF n, a
  <2>4. \A d \in Client : view[d] = "active" => d = c
    BY DEF OneClient
  <2> QED
    BY <2>3, <2>4
<1>2. next'[c] = next[c] + 1
  BY DEF TypeOK
<1>3. answered[c] < next[c] /\ Fits(Coming, Below(c)) /\ Fits(Awaited, From(c))
  BY DEF Numbered
<1>4. Fits(Coming, From(c)) /\ Fits(Coming, {d \in Command : d.number < e.number})
  BY <1>3 DEF Fits, Below, From
<1>5. /\ Coming \in Seq(Command) /\ Awaited \in Seq(Command) /\ relayQueue \in Seq(Command)
      /\ Back(jobs) \o Answers \in Seq(Command) /\ Coming' \in Seq(Command)
      /\ <<e>> \in Seq(Command)
  <2>1. Back(jobs') \in Seq(Command) /\ Answers' \in Seq(Command) /\ relayQueue' \in Seq(Command)
    BY BackFacts, FlowType DEF TypeOK, Answers
  <2>2. Back(jobs') \o Answers' \in Seq(Command)
    BY <2>1, ConcatProperties
  <2>3. Coming' \in Seq(Command)
    BY <2>1, <2>2, ConcatProperties DEF Coming
  <2> QED
    BY <2>3, Streams, WithoutOne
<1>6. Coming \o <<e>> \in Seq(Command) /\ relayQueue \o <<e>> \in Seq(Command)
  BY <1>5, ConcatProperties
<1>7. Rising(Coming')
  <2>1. Rising(Coming \o <<e>>)
    BY <1>4, <1>5, RisingEnd DEF Numbered
  <2> QED
    BY <1>5, <1>6, <2>1, EmbedsHolds
<1>8. ASSUME NEW S, Fits(Coming, S), e \in S PROVE Fits(Coming', S)
  <2>1. Fits(Coming \o <<e>>, S)
    BY <1>5, <1>8, FitsOne, FitsJoin
  <2> QED
    BY <1>5, <1>6, <2>1, EmbedsHolds
<1>9. Fits(Coming', Newer')
  <2>1. e \in Newer
    BY <1>3 DEF Newer
  <2>2. Newer' = Newer
    BY DEF Newer
  <2> QED
    BY <1>8, <2>1, <2>2 DEF Numbered
<1>10. e \in From(c) /\ \A d : From(d)' = From(d)
  BY DEF From
<1>11. Fits(Coming', From(c))
  BY <1>4, <1>8, <1>10
<1>12. Fits(Coming', Below(c)')
  <2>1. e \in Below(c)' /\ Below(c) \subseteq Below(c)'
    <3>1. \A d \in Command : d.number \in Int
      BY BridgeAssumption DEF Command, Number
    <3> QED
      BY <1>1, <1>2, <3>1 DEF Below
  <2>2. Fits(Coming, Below(c)')
    BY <1>3, <2>1 DEF Fits
  <2> QED
    BY <1>8, <2>1, <2>2
<1>13. Fits(Awaited', From(c))
  <2>1. Fits(relayQueue, From(c))
    BY <1>4, <1>5, FitsJoin DEF Coming
  <2>2. Fits(relayQueue \o <<e>>, From(c))
    BY <1>5, <1>10, <2>1, FitsOne, FitsJoin
  <2>3. Fits(commands, From(c))
    BY <1>6, <2>2, EmbedsHolds
  <2> QED
    BY <1>3, <1>5, <2>3, FitsJoin
<1>14. answered'[c] < next'[c]
  BY <1>1, <1>2, <1>3
<1> QED
  BY <1>1, <1>7, <1>9, <1>10, <1>11, <1>12, <1>13, <1>14 DEF Numbered

\* A request is taken, and as much of the queue as there is room for is written.
LEMMA ExchangeLine == ASSUME IInv, IInv', SInv, LInv, NEW c \in Client, Exchange(c) PROVE LInv'
<1> DEFINE e == [what |-> "exchange", owner |-> c, number |-> next[c], epoch |-> epoch]
           queue == Newest(Append(relayQueue, e))
<1>1. /\ jobs = <<>> /\ conn[c] = "open" /\ view[c] = "active" /\ next[c] < Requests
      /\ next' = [next EXCEPT ![c] = @ + 1]
      /\ IF sessionActive THEN Drain(queue, usbInFlight) ELSE UNCHANGED <<relay, writing, toDevice>>
      /\ UNCHANGED <<view, sessionActive, waiters, buffer, jobs, line, device, overlapped, epoch, answered>>
  BY DEF Exchange, Ready, server
<1>2. TypeOK /\ TypeOK' /\ Timely /\ Served /\ usbInFlight \in 0 .. Depth
  BY DEF IInv, LInv, TypeOK
<1>3. /\ e \in Command /\ e.what = "exchange" /\ e.owner = c /\ e.number = next[c] /\ e.epoch = epoch
  <2>1. next[c] \in 0 .. Requests /\ next[c] < Requests /\ epoch \in 0 .. Sessions
    <3>1. next \in [Client -> 0 .. Requests] /\ epoch \in 0 .. Sessions
      BY DEF IInv, TypeOK
    <3>2. next[c] < Requests
      BY <1>1
    <3> QED
      BY <3>1, <3>2
  <2> DEFINE n == next[c]
  <2>2. n \in 0 .. Requests /\ n < Requests /\ Requests \in Nat
    BY <2>1, BridgeAssumption
  <2> HIDE DEF n
  <2>3. n \in Number
    BY <2>2 DEF Number
  <2> QED
    BY <2>1, <2>3 DEF Command, n
<1> HIDE DEF e
<1>4. /\ queue \in Seq(Command) /\ Embeds(queue, relayQueue \o <<e>>)
      /\ <<e>> \in Seq(Command) /\ relayQueue \o <<e>> \in Seq(Command) /\ relayQueue \in Seq(Command)
  BY <1>2, <1>3, NewestEmbeds, Streams
<1> HIDE DEF queue
<1>5. CASE sessionActive
  <2>1. Drain(queue, usbInFlight)
    BY <1>1, <1>5
  <2>2. /\ Prompt(buffer') /\ Prompt(line') /\ Served'
        /\ \A b \in Seq(Command) : Embeds((b \o Answers') \o relayQueue', (b \o Answers) \o queue)
        /\ \E commands \in Seq(Command) : Write(commands) /\ Embeds(commands, queue)
    BY <1>1, <1>2, <1>4, <2>1, DrainLine
  <2>3. Timely'
    BY <1>1, <1>2, <2>2 DEF Timely
  <2>4. ASSUME ~overlapped, Following, Numbered PROVE Following' /\ Numbered'
    <3>1. PICK commands \in Seq(Command) : Write(commands) /\ Embeds(commands, queue)
      BY <2>2
    <3>2. Embeds(commands, relayQueue \o <<e>>)
      BY <1>4, <3>1, EmbedsOver
    <3>3. Awaited' = Awaited \o commands /\ Awaited \in Seq(Command)
      BY <1>1, <1>2, <3>1, Written, Streams
    <3>4. Embeds(Coming', Coming \o <<e>>)
      <4> DEFINE b == Back(jobs)
                 s == b \o Answers
                 t == relayQueue \o <<e>>
      <4>1. b \in Seq(Command) /\ s \in Seq(Command) /\ Coming = s \o relayQueue
        BY <1>2, Streams DEF Coming
      <4>2. Embeds(Coming', s \o queue)
        BY <1>1, <2>2, <4>1 DEF Coming
      <4> HIDE DEF b, s
      <4>3. (s \o relayQueue) \o <<e>> = s \o t
        <5>1. s \in Seq(Command) /\ relayQueue \in Seq(Command) /\ <<e>> \in Seq(Command)
          BY <1>4, <4>1
        <5> QED
          BY <5>1, Three
      <4>4. t \in Seq(Command) /\ Embeds(queue, t)
        BY <1>4
      <4> HIDE DEF t
      <4>5. Embeds(s \o queue, s \o t) /\ s \o queue \in Seq(Command) /\ s \o t \in Seq(Command)
        BY <1>4, <4>1, <4>4, EmbedsSame, EmbedsJoin
      <4>6. Coming' \in Seq(Command)
        <5>1. /\ Back(jobs') \in Seq(Command) /\ Answers' \in Seq(Command) /\ relayQueue' \in Seq(Command)
          BY <1>2, BackFacts, FlowType DEF TypeOK, Answers
        <5>2. Back(jobs') \o Answers' \in Seq(Command)
          BY <5>1, ConcatProperties
        <5> QED
          BY <5>1, <5>2, ConcatProperties DEF Coming
      <4>7. Embeds(Coming', s \o t)
        BY <4>2, <4>5, <4>6, EmbedsOver
      <4> QED
        BY <4>1, <4>3, <4>7
    <3>5. Numbered'
      BY <1>1, <1>2, <1>3, <2>4, <3>2, <3>3, <3>4, ExchangeNumbered DEF SInv
    <3>6. Without(commands, {"exit"}) /\ Without(commands, {"query"})
      <4>1. Without(relayQueue, {"exit"}) /\ Without(relayQueue, {"query"})
        BY DEF IInv, Queued, Without
      <4>2. Without(<<e>>, {"exit"}) /\ Without(<<e>>, {"query"})
        BY <1>3, WithoutOne
      <4>3. Without(relayQueue \o <<e>>, {"exit"}) /\ Without(relayQueue \o <<e>>, {"query"})
        BY <1>4, <4>1, <4>2, WithoutConcat
      <4> QED
        BY <1>4, <3>2, <4>3, EmbedsHolds
    <3>7. NoneEntered => NoneEntered'
      BY <1>1 DEF NoneEntered
    <3>8. Following'
      BY <1>1, <1>2, <2>4, <3>1, <3>3, <3>6, <3>7, FollowingWrote
    <3> QED
      BY <3>5, <3>8
  <2> QED
    BY <1>1, <2>2, <2>3, <2>4 DEF LInv
<1>6. CASE ~sessionActive
  <2>1. Timely' /\ Served'
    BY <1>1, <1>2, <1>6, StillLine DEF relay
  <2>2. overlapped
    BY <1>1, <1>6 DEF SInv, Relaying, Idling
  <2> QED
    BY <1>1, <2>1, <2>2 DEF LInv
<1> QED
  BY <1>5, <1>6

\* What follows an exchange has greater numbers.
LEMMA RisingHead ==
  ASSUME NEW h \in Command, h.what = "exchange", NEW t \in Seq(Command), Rising(<<h>> \o t)
  PROVE  Fits(t, {e \in Command : h.number < e.number})
<1>1. <<h>> \in Seq(Command) /\ Len(<<h>>) = 1 /\ <<h>>[1] = h /\ 1 \in 1 .. Len(<<h>>)
  BY WithoutOne
<1>2. ASSUME NEW i \in 1 .. Len(t), t[i].what = "exchange" PROVE h.number < t[i].number
  <2>1. /\ 1 \in 1 .. Len(<<h>> \o t) /\ (<<h>> \o t)[1] = h
        /\ 1 + i \in 1 .. Len(<<h>> \o t) /\ (<<h>> \o t)[1 + i] = t[i] /\ 1 < 1 + i
    <3>1. /\ \A j \in 1 .. Len(<<h>>) : j \in 1 .. Len(<<h>> \o t) /\ (<<h>> \o t)[j] = <<h>>[j]
          /\ Len(<<h>>) + i \in 1 .. Len(<<h>> \o t) /\ (<<h>> \o t)[Len(<<h>>) + i] = t[i]
      BY <1>1, Split
    <3>2. 1 < 1 + i
      OBVIOUS
    <3> QED
      BY <1>1, <3>1, <3>2
  <2> QED
    BY <1>2, <2>1 DEF Rising
<1>3. \A i \in 1 .. Len(t) : t[i] \in Command
  BY ElementOfSeq
<1> QED
  BY <1>2, <1>3 DEF Fits

\* The answer that the first job brings was asked for by its own client in this session, it
\* is newer than those before, and those behind it are newer still.
LEMMA AnswerNewer ==
  ASSUME TypeOK, Timely, Numbered, jobs # <<>>, Head(jobs).of.what = "exchange",
         IsAnswer(Head(jobs).reply), NEW t \in Seq(Command),
         t = (Back(Tail(jobs)) \o Answers) \o relayQueue
  PROVE  /\ Head(jobs).reply.of \in Newer /\ Head(jobs).reply.of.owner = Head(jobs).of.owner
         /\ \A d \in Client : d = Head(jobs).of.owner /\ view[d] = "active" =>
              Head(jobs).reply.of.number < next[d]
         /\ Fits(t, {e \in Command : /\ e.owner = Head(jobs).of.owner /\ e.epoch = epoch
                                     /\ Head(jobs).reply.of.number < e.number})
<1> DEFINE h == Head(jobs).reply.of
           of == Head(jobs).of
<1>1. h \in Command /\ h.what = "exchange" /\ Coming = <<h>> \o t
  <2>1. Head(jobs).reply.status # "timeout"
    BY DEF IsAnswer
  <2> QED
    BY <2>1, ComingHead DEF IsAnswer
<1>2. \E q \in Seq(Command) : Awaited = <<of>> \o q
  BY FirstAwaited
<1>3. of \in Command /\ of.what = "exchange"
  BY FirstAwaited
<1> HIDE DEF h, of
<1>4. \A e \in Command : <<e>> \in Seq(Command) /\ Len(<<e>>) = 1 /\ <<e>>[1] = e /\ 1 \in 1 .. Len(<<e>>)
  BY WithoutOne
<1>5. \A S : Fits(Coming, S) => h \in S /\ Fits(t, S)
  <2>1. ASSUME NEW S, Fits(Coming, S) PROVE Fits(<<h>>, S) /\ Fits(t, S)
    BY <1>1, <1>4, <2>1, FitsJoin
  <2> QED
    BY <1>1, <1>4, <2>1 DEF Fits
<1>6. \A S : Fits(Awaited, S) => of \in S
  <2>1. PICK q \in Seq(Command) : Awaited = <<of>> \o q
    BY <1>2
  <2>2. ASSUME NEW S, Fits(Awaited, S) PROVE Fits(<<of>>, S)
    BY <1>3, <1>4, <2>1, <2>2, FitsJoin
  <2> QED
    BY <1>3, <1>4, <2>2 DEF Fits
<1>7. PICK c : Fits(Coming, From(c)) /\ Fits(Awaited, From(c))
  BY DEF Numbered
<1>8. h.owner = c /\ of.owner = c /\ Fits(t, From(c))
  BY <1>5, <1>6, <1>7 DEF From
<1>9. h \in Newer /\ Fits(t, Newer)
  BY <1>5 DEF Numbered
<1>10. Fits(t, {e \in Command : h.number < e.number})
  BY <1>1, RisingHead DEF Numbered
<1>11. Fits(t, {e \in Command : e.owner = of.owner /\ e.epoch = epoch /\ h.number < e.number})
  BY <1>8, <1>9, <1>10 DEF Fits, From, Newer
<1>12. ASSUME NEW d \in Client, d = of.owner, view[d] = "active" PROVE h.number < next[d]
  <2>1. Fits(Coming, Below(d))
    BY <1>12 DEF Numbered
  <2>2. h \in Below(d)
    BY <1>5, <2>1
  <2> QED
    BY <2>2 DEF Below
<1> QED
  BY <1>8, <1>9, <1>11, <1>12 DEF h, of

\* The first job has gone on, and what it wrote was in the relay queue.
LEMMA JobDone ==
  ASSUME TypeOK, TypeOK', Timely, jobs # <<>>, jobs' = Tail(jobs), Prompt(buffer'), Prompt(line')
  PROVE  Timely'
<1>1. \A i \in 1 .. Len(Tail(jobs)) : Tail(jobs)[i].reply.status # "timeout"
  BY Sequences, BackTail DEF Timely
<1> QED
  BY <1>1 DEF Timely

\* The first job goes on.
LEMMA FewerEntered ==
  ASSUME TypeOK, jobs # <<>>, jobs' = Tail(jobs), NoneEntered
  PROVE  NoneEntered'
<1>1. /\ Len(Tail(jobs)) = Len(jobs) - 1 /\ Len(jobs) \in Nat
      /\ \A i \in 1 .. Len(Tail(jobs)) : Tail(jobs)[i] = jobs[i + 1]
  BY Sequences, HeadTailProperties, LenProperties
<1>2. \A i \in 1 .. Len(Tail(jobs)) : i + 1 \in 1 .. Len(jobs)
  BY <1>1
<1> QED
  BY <1>1, <1>2 DEF NoneEntered

\* An answer goes to its client, and everything that still comes is newer.
LEMMA RelayedNumbered ==
  ASSUME TypeOK, TypeOK', Timely, Numbered, jobs # <<>>, Head(jobs).of.what = "exchange",
         \/ answered' = answered
         \/ /\ IsAnswer(Head(jobs).reply)
            /\ answered' = [answered EXCEPT ![Head(jobs).of.owner] = Head(jobs).reply.of.number],
         UNCHANGED <<view, next, epoch>>,
         NEW t \in Seq(Command), t = (Back(Tail(jobs)) \o Answers) \o relayQueue,
         Embeds(t, Coming), Coming' \in Seq(Command), Embeds(Coming', t),
         \A c : Fits(Coming, From(c)) /\ Fits(Awaited, From(c)) => Fits(Awaited', From(c))
  PROVE  Numbered'
<1>1. Tamer(Coming', Coming)
  BY Streams, EmbedsOver, TameLess
<1>2. CASE answered' = answered
  <2>1. Fits(Coming', Newer')
    BY <1>1, <1>2 DEF Numbered, Tamer, Looser, Newer
  <2>2. \A c \in Client : view'[c] = "active" =>
           view[c] = "active" /\ next'[c] = next[c] /\ answered'[c] < next'[c]
    BY <1>2 DEF Numbered
  <2> QED
    BY <1>1, <2>1, <2>2, NumberedStep
<1>3. ASSUME IsAnswer(Head(jobs).reply),
             answered' = [answered EXCEPT ![Head(jobs).of.owner] = Head(jobs).reply.of.number]
      PROVE  Numbered'
  <2> DEFINE h == Head(jobs).reply.of.number
             c == Head(jobs).of.owner
  <2>1. /\ \A d \in Client : d = c /\ view[d] = "active" => h < next[d]
        /\ Fits(t, {e \in Command : e.owner = c /\ e.epoch = epoch /\ h < e.number})
    BY <1>3, AnswerNewer
  <2> HIDE DEF h, c
  <2>2. answered' = [answered EXCEPT ![c] = h] /\ answered \in [Client -> Number \cup {-1}]
    BY <1>3 DEF h, c, TypeOK
  <2>3. \A d \in Client : answered'[d] = IF d = c THEN h ELSE answered[d]
    BY <2>2
  <2>4. {e \in Command : e.owner = c /\ e.epoch = epoch /\ h < e.number} \subseteq Newer'
    <3>1. \A e \in Command : e.owner \in Client
      BY DEF Command
    <3> QED
      BY <2>3, <3>1 DEF Newer
  <2>5. Fits(Coming', Newer')
    <3>1. Fits(t, Newer')
      BY <2>1, <2>4 DEF Fits
    <3> QED
      BY <3>1, EmbedsHolds
  <2>6. \A d \in Client : view'[d] = "active" =>
           view[d] = "active" /\ next'[d] = next[d] /\ answered'[d] < next'[d]
    BY <2>1, <2>3 DEF Numbered
  <2> QED
    BY <1>1, <2>5, <2>6, NumberedStep
<1> QED
  BY <1>2, <1>3

\* An exchange is over, and the queue is drained again.
LEMMA RelayedLine == ASSUME IInv, IInv', SInv, LInv, Run, Relayed(Head(jobs)) PROVE LInv'
<1>1. /\ jobs # <<>> /\ jobs' = Tail(jobs) /\ Head(jobs).of.what = "exchange"
      /\ Drain(relayQueue, usbInFlight - 1)
      /\ UNCHANGED <<view, next, sessionActive, waiters, buffer, line, device, overlapped, epoch>>
      /\ \/ answered' = answered
         \/ /\ IsAnswer(Head(jobs).reply)
            /\ answered' = [answered EXCEPT ![Head(jobs).of.owner] = Head(jobs).reply.of.number]
  BY DEF Run, Relayed, client, server
<1>2. TypeOK /\ TypeOK' /\ Timely /\ Served /\ relayQueue \in Seq(Command)
  BY DEF IInv, LInv, TypeOK
<1>3. usbInFlight - 1 \in 0 .. Depth
  BY <1>1, OneLess
<1>4. /\ Prompt(buffer') /\ Prompt(line') /\ Served'
      /\ \A b \in Seq(Command) : Embeds((b \o Answers') \o relayQueue', (b \o Answers) \o relayQueue)
      /\ \E commands \in Seq(Command) : Write(commands) /\ Embeds(commands, relayQueue)
  <2> DEFINE n == usbInFlight - 1
  <2>1. Drain(relayQueue, n) /\ n \in 0 .. Depth
    BY <1>1, <1>3
  <2> HIDE DEF n
  <2> QED
    BY <1>1, <1>2, <2>1, DrainLine
<1>5. Timely'
  BY <1>1, <1>2, <1>4, JobDone
<1>6. ASSUME ~overlapped, Following, Numbered PROVE Following' /\ Numbered'
  <2>1. PICK t \in Seq(Command) :
          /\ t = (Back(Tail(jobs)) \o Answers) \o relayQueue /\ Embeds(t, Coming)
          /\ Back(Tail(jobs)) \in Seq(Command)
    BY <1>1, <1>2, ComingHead
  <2>2. Embeds(Coming', t) /\ Coming' \in Seq(Command)
    <3>1. Embeds(Coming', t)
      BY <1>1, <1>4, <2>1 DEF Coming
    <3>2. /\ Back(jobs') \in Seq(Command) /\ Answers' \in Seq(Command) /\ relayQueue' \in Seq(Command)
      BY <1>2, BackFacts, FlowType DEF TypeOK, Answers
    <3>3. Back(jobs') \o Answers' \in Seq(Command)
      BY <3>2, ConcatProperties
    <3> QED
      BY <3>1, <3>2, <3>3, ConcatProperties DEF Coming
  <2>3. PICK commands \in Seq(Command) : Write(commands) /\ Embeds(commands, relayQueue)
    BY <1>4
  <2>4. PICK q \in Seq(Command) :
          /\ q = Join(Tail(jobs), waiters, writing)
          /\ Head(jobs).of \in Command /\ Awaited = <<Head(jobs).of>> \o q
          /\ \A kinds : Without(Awaited, kinds) <=> Head(jobs).of.what \notin kinds /\ Without(q, kinds)
    BY <1>1, <1>2, FirstAwaited
  <2>5. Awaited' = q \o commands
    BY <1>1, <1>2, <2>3, <2>4, AwaitedNext
  <2>6. ASSUME NEW c, Fits(Coming, From(c)), Fits(Awaited, From(c)) PROVE Fits(Awaited', From(c))
    <3>1. Fits(relayQueue, From(c))
      BY <1>2, <2>6, Streams, FitsJoin DEF Coming
    <3>2. Fits(commands, From(c))
      BY <1>2, <2>3, <3>1, EmbedsHolds
    <3> DEFINE of == Head(jobs).of
    <3>3. of \in Command /\ Awaited = <<of>> \o q
      BY <2>4
    <3> HIDE DEF of
    <3>4. <<of>> \in Seq(Command)
      BY <3>3, WithoutOne
    <3>5. Fits(q, From(c))
      BY <2>6, <3>3, <3>4, FitsJoin
    <3> QED
      BY <2>5, <3>2, <3>5, FitsJoin
  <2>7. Numbered'
    BY <1>1, <1>2, <1>6, <2>1, <2>2, <2>6, RelayedNumbered
  <2>8. Without(commands, {"exit"}) /\ Without(commands, {"query"})
    <3>1. Without(relayQueue, {"exit"}) /\ Without(relayQueue, {"query"})
      BY DEF IInv, Queued, Without
    <3> QED
      BY <1>2, <2>3, <3>1, EmbedsHolds
  <2>9. NoneEntered => NoneEntered'
    BY <1>1, <1>2, FewerEntered
  <2>10. /\ Without(Awaited, {"query"}) => Without(q, {"query"})
         /\ Without(q, {"exit"}) => Without(Awaited, {"exit"})
    BY <1>1, <2>4
  <2>11. Following'
    BY <1>1, <1>2, <1>6, <2>3, <2>5, <2>8, <2>9, <2>10, FollowingWrote
  <2> QED
    BY <2>7, <2>11
<1> QED
  BY <1>1, <1>4, <1>5, <1>6 DEF LInv

-----------------------------------------------------------------------------
(***************************************************************************)
(* Starts and ends that go on, on the line.                                *)
(***************************************************************************)
\* The job takes away what it brought, and its command is awaited no more.
LEMMA JobLess ==
  ASSUME TypeOK, Timely, jobs # <<>>, jobs' = Tail(jobs)
  PROVE  Embeds(Back(jobs'), Back(jobs))
<1> DEFINE h == Head(jobs).reply.of
           b == Back(Tail(jobs))
           f == Back(jobs)
<1>1. h \in Command /\ (f = b \/ f = <<h>> \o b) /\ Tail(jobs) \in Seq(Job)
  BY Sequences, BackTail DEF Timely
<1>2. b \in Seq(Command) /\ <<h>> \in Seq(Command)
  BY <1>1, BackFacts, WithoutOne
<1>3. Back(jobs') = b
  OBVIOUS
<1> HIDE DEF h, b, f
<1>4. Embeds(b, b) /\ Embeds(<<>>, <<h>>) /\ <<>> \in Seq(Command) /\ <<>> \o b = b
  BY <1>2, EmbedsSame, ConcatEmptySeq
<1>5. Embeds(<<>> \o b, <<h>> \o b)
  BY <1>2, <1>4, EmbedsJoin
<1>6. Embeds(b, f)
  BY <1>1, <1>4, <1>5
<1> QED
  BY <1>3, <1>6 DEF f

\* ENTER has been answered: QUERY is written to a device that is kept, or the start is over.
LEMMA EnteredLine == ASSUME IInv, IInv', SInv, LInv, Run, Entered(Head(jobs)) PROVE LInv'
<1> DEFINE query == [Head(jobs).of EXCEPT !.what = "query"]
<1>1. /\ jobs # <<>> /\ jobs' = Tail(jobs) /\ Head(jobs).of.what = "enter"
      /\ UNCHANGED <<view, next, sessionActive, relayQueue, waiters, buffer, line, device, overlapped,
                     epoch, answered>>
      /\ NoWrite \/ (MayPass(Head(jobs).reply) /\ Write(<<query>>))
  BY DEF Run, Entered, client, server, relay
<1>2. TypeOK /\ TypeOK' /\ Timely /\ Served
  BY DEF IInv, LInv
<1>3. PICK q \in Seq(Command) :
        /\ q = Join(Tail(jobs), waiters, writing) /\ Head(jobs).of \in Command
        /\ \A kinds : Without(Awaited, kinds) <=> Head(jobs).of.what \notin kinds /\ Without(q, kinds)
        /\ OnlyLast(Awaited) => (Head(jobs).of.what \in Begins => q = <<>>)
  BY <1>1, <1>2, FirstAwaited
<1>4. query \in Command /\ query.what = "query"
  BY <1>3 DEF Command
<1> HIDE DEF query
<1>5. PICK commands \in Seq(Command) :
        /\ Write(commands)
        /\ \/ commands = <<>>
           \/ commands = <<query>> /\ MayPass(Head(jobs).reply)
  <2>1. <<query>> \in Seq(Command)
    BY <1>4, WithoutOne
  <2> QED
    BY <1>1, <1>2, <2>1, NoneWritten
<1>6. /\ Prompt(buffer') /\ Prompt(line') /\ Served' /\ Embeds(Answers', Answers \o commands)
  BY <1>1, <1>2, <1>5, WroteLine
<1>7. Timely'
  BY <1>1, <1>2, <1>6, JobDone
<1>8. ASSUME ~overlapped, Following, Numbered PROVE Following' /\ Numbered'
  <2>1. q = <<>> /\ ~sessionActive
    BY <1>1, <1>3, <1>8 DEF SInv, Starting, Begins
  <2>2. relayQueue' = <<>>
    BY <1>1, <1>8, <2>1 DEF SInv, Relaying, NoStuckJob
  <2>3. Awaited' = commands
    <3>1. Awaited' = <<>> \o commands
      BY <1>1, <1>2, <1>3, <1>5, <2>1, AwaitedNext
    <3> QED
      BY <3>1, ConcatEmptySeq
  <2>4. \A S : Fits(commands, S)
    <3>1. Len(<<>>) = 0 /\ Len(<<query>>) = 1 /\ <<query>>[1] = query /\ \A i \in 1 .. 1 : i = 1
      OBVIOUS
    <3> QED
      BY <1>4, <1>5, <3>1 DEF Fits
  <2>5. Tamer(Coming', Coming)
    <3>1. Embeds(Back(jobs'), Back(jobs))
      BY <1>1, <1>2, JobLess
    <3>2. commands = <<>> \/ \E c \in Command : commands = <<c>> /\ c.what # "exchange"
      BY <1>4, <1>5
    <3> QED
      BY <1>2, <1>6, <2>2, <3>1, <3>2, ControlComing
  <2>6. Numbered'
    BY <1>1, <1>2, <1>8, <2>3, <2>4, <2>5, NumberedTame
  <2>7. toDevice \in Seq(Command) /\ toDevice' = toDevice \o commands /\ Without(commands, {"exit"})
    <3>1. Without(<<query>>, {"exit"}) /\ Without(<<>>, {"exit"})
      BY <1>4, WithoutOne
    <3> QED
      BY <1>2, <1>5, <3>1, Streams DEF Write
  <2>8. ASSUME Kept PROVE Kept'
    <3>1. Without(toDevice', {"exit"})
      BY <2>7, <2>8, WithoutConcat DEF Kept
    <3> QED
      BY <1>1, <2>8, <3>1 DEF Kept
  <2>9. ASSUME Apart PROVE Apart'
    <3>1. ~MayPass(Head(jobs).reply)
      <4>1. Head(jobs) = jobs[1] /\ 1 \in 1 .. Len(jobs)
        <5>1. Len(jobs) \in Nat \ {0} /\ Head(jobs) = jobs[1]
          BY <1>1, <1>2, Sequences, HeadTailProperties, EmptySeq
        <5> QED
          BY <5>1
      <4> QED
        BY <1>1, <2>9, <4>1 DEF Apart, NoneEntered
    <3>2. Awaited' = <<>>
      BY <1>5, <2>3, <3>1
    <3>3. Without(Awaited', {"query"})
      BY <3>2, WithoutOne, <1>4
    <3>4. NoneEntered'
      BY <1>1, <1>2, <2>9, FewerEntered DEF Apart
    <3> QED
      BY <1>1, <2>1, <2>9, <3>3, <3>4 DEF Apart
  <2> QED
    BY <1>8, <2>6, <2>8, <2>9 DEF Following
<1> QED
  BY <1>1, <1>6, <1>7, <1>8 DEF LInv

\* Nobody has been answered, and nobody waits.
LEMMA JoinEmpty ==
  ASSUME NEW js \in Seq(Job), NEW ws \in Seq(Command), NEW wr \in Seq(Command), Join(js, ws, wr) = <<>>
  PROVE  js = <<>> /\ ws = <<>> /\ wr = <<>>
<1> DEFINE o == Of(js)
<1>1. o \in Seq(Command) /\ Len(o) = Len(js) /\ (o \o ws) \o wr = <<>>
  BY OfFacts DEF Join
<1> HIDE DEF o
<1> DEFINE s == o \o ws
<1>2. s \in Seq(Command) /\ Len(s) = Len(o) + Len(ws) /\ Len(o) \in Nat /\ Len(ws) \in Nat
  BY <1>1, Split
<1>3. s \o wr = <<>>
  BY <1>1
<1> HIDE DEF s
<1>4. Len(s \o wr) = Len(s) + Len(wr) /\ Len(wr) \in Nat /\ Len(<<>>) = 0
  BY <1>2, Split
<1>5. Len(js) = 0 /\ Len(ws) = 0 /\ Len(wr) = 0
  BY <1>1, <1>2, <1>3, <1>4
<1> QED
  BY <1>5, EmptySeq

\* A session begins with nothing on its way.
LEMMA StartedLine == ASSUME IInv, IInv', SInv, LInv, Run, Started(Head(jobs)) PROVE LInv'
<1> DEFINE c == Head(jobs).of.owner
<1>1. /\ jobs # <<>> /\ jobs' = Tail(jobs) /\ Head(jobs).of.what = "query" /\ NoWrite
      /\ UNCHANGED <<relayQueue, waiters, buffer, line, device, overlapped>>
      /\ \/ /\ view' = [view EXCEPT ![c] = "active"] /\ next' = [next EXCEPT ![c] = 0]
            /\ answered' = [answered EXCEPT ![c] = -1]
         \/ view' = view
  BY DEF Run, Started, relay
<1>2. /\ TypeOK /\ TypeOK' /\ Timely /\ Served
      /\ view \in [Client -> {"idle", "starting", "active"}] /\ next \in [Client -> 0 .. Requests]
      /\ answered \in [Client -> Number \cup {-1}]
  BY DEF IInv, LInv, TypeOK
<1> HIDE DEF c
<1>3. Answers' = Answers /\ Waiting' = Waiting
  BY <1>1 DEF NoWrite, Answers, Waiting
<1>4. Timely' /\ Served'
  <2>1. Prompt(buffer') /\ Prompt(line')
    BY <1>1, <1>2 DEF Timely
  <2> QED
    BY <1>1, <1>2, <1>3, <2>1, JobDone DEF Served
<1>5. ASSUME ~overlapped, Following PROVE Following' /\ Numbered'
  <2>1. PICK q \in Seq(Command) :
          /\ q = Join(Tail(jobs), waiters, writing) /\ Tail(jobs) \in Seq(Job)
          /\ \A kinds : Without(Awaited, kinds) <=> Head(jobs).of.what \notin kinds /\ Without(q, kinds)
          /\ OnlyLast(Awaited) => (Head(jobs).of.what \in Begins => q = <<>>)
    BY <1>1, <1>2, FirstAwaited
  <2>2. q = <<>> /\ ~sessionActive
    BY <1>1, <1>5, <2>1 DEF SInv, Starting, Begins
  <2>3. relayQueue = <<>> /\ Idling
    BY <1>5, <2>2 DEF SInv, Relaying, NoStuckJob
  <2>4. Tail(jobs) = <<>> /\ waiters = <<>> /\ writing = <<>>
    BY <1>2, <2>1, <2>2, JoinEmpty, Sequences
  <2>5. <<>> \in Seq(Command) /\ <<>> \o <<>> = <<>>
    BY <2>2, ConcatEmptySeq
  <2>6. Answers = <<>>
    <3>1. Waiting = <<>>
      BY <2>4, <2>5 DEF Waiting
    <3> QED
      BY <1>2, <2>5, <3>1, Streams, EmbedsHolds DEF Served
  <2>7. Back(jobs') = <<>>
    BY <1>1, <2>1, <2>4, BackFacts
  <2>8. Coming' = <<>>
    BY <1>1, <1>3, <2>3, <2>5, <2>6, <2>7 DEF Coming
  <2>9. Awaited' = <<>>
    BY <1>1, <1>2, <2>1, <2>2, AwaitedNext
  <2>10. \A s, S : s = <<>> => Rising(s) /\ Fits(s, S)
    <3>1. Len(<<>>) = 0
      OBVIOUS
    <3> QED
      BY <3>1 DEF Rising, Fits
  <2>11. ASSUME NEW d \in Client, view'[d] = "active" PROVE answered'[d] < next'[d]
    <3>1. view[d] # "active"
      BY <2>3 DEF Idling
    <3>2. d = c /\ next' = [next EXCEPT ![c] = 0] /\ answered' = [answered EXCEPT ![c] = -1]
      BY <1>1, <1>2, <2>11, <3>1
    <3>3. next'[d] = 0 /\ answered'[d] = -1
      BY <1>2, <3>2
    <3> QED
      BY <3>3
  <2>12. Numbered'
    BY <2>8, <2>9, <2>10, <2>11 DEF Numbered, None
  <2>13. ~Without(Awaited, {"query"})
    BY <1>1, <2>1
  <2>14. Following'
    BY <1>1, <1>5, <2>13 DEF Following, Kept, Apart, NoWrite
  <2> QED
    BY <2>12, <2>14
<1> QED
  BY <1>1, <1>4, <1>5 DEF LInv

\* EXIT has been answered: the session is over.
LEMMA StoppedLine == ASSUME IInv, IInv', SInv, LInv, Run, Stopped(Head(jobs)) PROVE LInv'
<1> DEFINE c == Head(jobs).of.owner
<1>1. /\ jobs # <<>> /\ jobs' = Tail(jobs) /\ Head(jobs).of.what = "exit" /\ NoWrite
      /\ buffer' \in {buffer, <<>>} /\ sessionActive' = FALSE
      /\ view' = [view EXCEPT ![c] = "idle"]
      /\ UNCHANGED <<next, relayQueue, waiters, line, device, overlapped, epoch, answered>>
  BY DEF Run, Stopped, relay
<1>2. /\ TypeOK /\ TypeOK' /\ Timely /\ Served
      /\ view \in [Client -> {"idle", "starting", "active"}]
  BY DEF IInv, LInv, TypeOK
<1> HIDE DEF c
<1>3. Write(<<>>) /\ <<>> \in Seq(Command)
  BY <1>1, <1>2, NoneWritten
<1>4. /\ Prompt(buffer') /\ Prompt(line') /\ Served' /\ Embeds(Answers', Answers \o <<>>)
  BY <1>1, <1>2, <1>3, WroteLine
<1>5. Timely'
  BY <1>1, <1>2, <1>4, JobDone
<1>6. ASSUME ~overlapped, Following, Numbered PROVE Following' /\ Numbered'
  <2> DEFINE of == Head(jobs).of
  <2>1. PICK q \in Seq(Command) :
          /\ q = Join(Tail(jobs), waiters, writing) /\ of \in Command /\ Awaited = <<of>> \o q
          /\ \A kinds : Without(Awaited, kinds) <=> of.what \notin kinds /\ Without(q, kinds)
    BY <1>1, <1>2, FirstAwaited
  <2>2. of.what = "exit"
    BY <1>1
  <2> HIDE DEF of
  <2>3. relayQueue' = <<>>
    BY <1>1, <1>6, <2>1, <2>2 DEF SInv, Leaving
  <2>4. Awaited' = q
    BY <1>1, <1>2, <2>1, AwaitedNext
  <2>5. \A S : Fits(Awaited, S) => Fits(Awaited', S)
    <3>1. <<of>> \in Seq(Command)
      BY <2>1, WithoutOne
    <3> QED
      BY <2>1, <2>4, <3>1, FitsJoin
  <2>6. Tamer(Coming', Coming)
    <3>1. Embeds(Back(jobs'), Back(jobs))
      BY <1>1, <1>2, JobLess
    <3> DEFINE commands == <<>>
    <3>2. commands \in Seq(Command) /\ commands = <<>> /\ Embeds(Answers', Answers \o commands)
      BY <1>3, <1>4
    <3> HIDE DEF commands
    <3> QED
      BY <1>2, <2>3, <3>1, <3>2, ControlComing
  <2>7. \A d \in Client : view'[d] = "active" => view[d] = "active" /\ next'[d] = next[d]
    BY <1>1, <1>2
  <2>8. Numbered'
    BY <1>1, <1>2, <1>6, <2>5, <2>6, <2>7, NumberedTame
  <2>9. Kept => Kept'
    BY <1>1 DEF Kept, NoWrite
  <2>10. ASSUME Apart PROVE Apart'
    <3>1. Without(Of(buffer'), {"enter"})
      <4>1. Len(<<>>) = 0
        OBVIOUS
      <4> QED
        BY <1>1, <2>10, <4>1, OfNone DEF Apart, Without
    <3>2. NoneEntered'
      BY <1>1, <1>2, <2>10, FewerEntered DEF Apart
    <3>3. Without(Awaited', {"query"})
      BY <2>1, <2>4, <2>10 DEF Apart
    <3> QED
      BY <1>1, <2>10, <3>1, <3>2, <3>3 DEF Apart
  <2> QED
    BY <1>6, <2>8, <2>9, <2>10 DEF Following
<1> QED
  BY <1>1, <1>4, <1>5, <1>6 DEF LInv

-----------------------------------------------------------------------------
(***************************************************************************)
(* Every step, on the line.                                                *)
(***************************************************************************)
\* A step that asks for nothing and answers nothing.
LEMMA LostLine ==
  ASSUME TypeOK, TypeOK', LInv, Timely', Served', Embeds(Coming', Coming), Awaited' = Awaited,
         ~overlapped /\ Following => Following', UNCHANGED <<view, next, epoch, answered, overlapped>>
  PROVE  LInv'
<1>1. Coming \in Seq(Command) /\ Coming' \in Seq(Command)
  <2>1. Back(jobs') \in Seq(Command) /\ Answers' \in Seq(Command) /\ relayQueue' \in Seq(Command)
    BY BackFacts, FlowType DEF TypeOK, Answers
  <2>2. Back(jobs') \o Answers' \in Seq(Command)
    BY <2>1, ConcatProperties
  <2> QED
    BY <2>1, <2>2, ConcatProperties, Streams DEF Coming
<1>2. Tamer(Coming', Coming) /\ Looser(Awaited', Awaited)
  BY <1>1, TameLess DEF Looser
<1>3. Numbered => Numbered'
  BY <1>2, NumberedLooser
<1> QED
  BY <1>3 DEF LInv

\* At first nothing is on its way.
LEMMA InitLine == Init => LInv
<1> SUFFICES ASSUME Init PROVE LInv
  OBVIOUS
<1>1. /\ jobs = <<>> /\ waiters = <<>> /\ writing = <<>> /\ relayQueue = <<>> /\ toDevice = <<>>
      /\ buffer = <<>> /\ line = <<>> /\ sessionActive = FALSE
      /\ \A c \in Client : view[c] = "idle"
  BY DEF Init
<1>2. Len(<<>>) = 0 /\ <<>> \in Seq(Command) /\ <<>> \in Seq(Job)
  OBVIOUS
<1>3. <<>> \o <<>> = <<>>
  BY <1>2, ConcatEmptySeq
<1>4. Awaited = <<>> /\ Waiting = <<>> /\ Answers = <<>> /\ Coming = <<>>
  <2>1. Awaited = <<>>
    BY <1>1, <1>3, OfNone DEF Awaited, Join
  <2>2. Waiting = <<>>
    BY <1>1, <1>3 DEF Waiting
  <2>3. Answers = <<>>
    BY <1>1, <1>3, OfNone DEF Answers, Flow
  <2>4. Back(jobs) = <<>>
    BY <1>1, <1>2, BackFacts
  <2> QED
    BY <1>1, <1>3, <2>1, <2>2, <2>3, <2>4 DEF Coming
<1>5. Timely
  BY <1>1, <1>2 DEF Timely, Prompt
<1>6. Served
  BY <1>2, <1>4, EmbedsSame DEF Served
<1>7. Following
  BY <1>1, <1>2, <1>4, OfNone DEF Following, Apart, NoneEntered, Without
<1>8. Numbered
  BY <1>1, <1>2, <1>4 DEF Numbered, Rising, Fits, None
<1> QED
  BY <1>5, <1>6, <1>7, <1>8 DEF LInv

\* The promise settled first goes on.
LEMMA RunLine == ASSUME IInv, IInv', SInv, LInv, Run PROVE LInv'
BY RelayedLine, EnteredLine, StartedLine, StoppedLine DEF Run

\* Every step keeps the line.
LEMMA NextLine == IInv /\ IInv' /\ SInv /\ LInv /\ [Next]_vars => LInv'
<1> SUFFICES ASSUME IInv, IInv', SInv, LInv, [Next]_vars PROVE LInv'
  OBVIOUS
<1>1. TypeOK /\ TypeOK' /\ Timely /\ Served
  BY DEF IInv, LInv
<1>2. CASE Drained
  <2>1. UNCHANGED <<view, next, epoch, answered, overlapped>>
    BY <1>2 DEF Drained, client
  <2> QED
    BY <1>1, <1>2, <2>1, DrainedLine, LostLine
<1>3. CASE Arrive
  <2>1. UNCHANGED <<view, next, epoch, answered, overlapped>>
    BY <1>3 DEF Arrive, client
  <2> QED
    BY <1>1, <1>3, <2>1, ArriveLine, LostLine
<1>4. CASE Expire
  <2>1. UNCHANGED <<view, next, epoch, answered, overlapped>>
    BY <1>4 DEF Expire, client
  <2> QED
    BY <1>1, <1>4, <2>1, ExpireLine, LostLine
<1>5. CASE Opened
  BY <1>5, OpenedLine
<1>6. CASE Run
  BY <1>6, RunLine
<1>7. CASE Device \/ Lose \/ \E c \in Client : Connect(c)
  <2>1. UNCHANGED <<view, next, epoch, answered, overlapped>>
    BY <1>7 DEF Device, Lose, Connect, client
  <2> QED
    BY <1>1, <1>7, <2>1, OthersLine, LostLine
<1>8. CASE \E c \in Client : Start(c)
  BY <1>8, StartLine
<1>9. CASE \E c \in Client : Exchange(c)
  BY <1>9, ExchangeLine
<1>10. CASE \E c \in Client : Stop(c) \/ Close(c)
  BY <1>10, EndLine
<1>11. CASE UNCHANGED vars
  <2>1. /\ UNCHANGED <<writing, waiters, buffer, line, toDevice, relayQueue, device, sessionActive>>
        /\ UNCHANGED <<jobs, view, next, epoch, answered, overlapped>>
    BY <1>11 DEF vars, client, server, relay, wire
  <2>2. /\ Timely' /\ Served' /\ Tamer(Coming', Coming) /\ Looser(Awaited', Awaited)
        /\ Following => Following'
    BY <1>1, <2>1, StillLine
  <2>3. Numbered => Numbered'
    BY <1>1, <2>1, <2>2, NumberedLooser
  <2> QED
    BY <2>1, <2>2, <2>3 DEF LInv
<1> QED
  BY <1>2, <1>3, <1>4, <1>5, <1>6, <1>7, <1>8, <1>9, <1>10, <1>11 DEF Next

\* In every state reached.
LEMMA LineInductive == Spec => [](IInv /\ SInv /\ LInv)
<1>1. Init => IInv /\ SInv /\ LInv
  BY InitSafe, InitSession, InitLine
<1>2. IInv /\ SInv /\ LInv /\ [Next]_vars => (IInv /\ SInv /\ LInv)'
  BY NextSafe, NextSession, NextLine
<1> QED
  BY <1>1, <1>2, PTL DEF Spec

\* When starts do not overlap, a client that relays does so in an active session (startSession
\* and stopSession of server.mjs), and once nothing is on its way the device is in the mode of
\* that session, whatever was lost, late or answered to the wrong handler.
THEOREM SessionFollowed == Spec => []SessionAgrees
<1>1. ASSUME IInv, SInv, LInv, ~overlapped
      PROVE  /\ \A c \in Client : view[c] = "active" => sessionActive
             /\ sessionActive /\ writing = <<>> /\ waiters = <<>> /\ Ready /\ line = <<>> => device.active
  <2>1. \A c \in Client : view[c] = "active" => sessionActive
    BY <1>1 DEF SInv, Relaying, Idling
  <2>2. ASSUME sessionActive, writing = <<>>, waiters = <<>>, Ready PROVE device.active
    <3>1. <<>> \o <<>> = <<>> /\ Len(<<>>) = 0
      <4>1. <<>> \in Seq(Command)
        OBVIOUS
      <4> QED
        BY <4>1, ConcatEmptySeq
    <3>2. Awaited = <<>>
      BY <2>2, <3>1, OfNone DEF Awaited, Join, Ready
    <3>3. Without(Awaited, {"exit"})
      BY <3>1, <3>2 DEF Without
    <3> QED
      BY <1>1, <2>2, <3>3 DEF LInv, Following, Kept, Apart
  <2> QED
    BY <2>1, <2>2
<1>2. IInv /\ SInv /\ LInv => SessionAgrees
  BY <1>1 DEF SessionAgrees
<1> QED
  BY <1>2, LineInductive, PTL

\* When starts do not overlap, a client hears answers to its own session's exchanges only, in
\* the order of its numbers (relayExchange of server.mjs and the waiters of usb-relay.js),
\* although a lost reply or a timeout shifts the replies to later waiters.
THEOREM AnswersOrdered == Spec => AnswersInOrder
<1> DEFINE A == \A c \in Client :
                  answered'[c] # answered[c] /\ answered'[c] >= 0 /\ ~overlapped =>
                    /\ answered'[c] > answered[c]
                    /\ Head(jobs).reply.of.owner = c /\ Head(jobs).reply.of.epoch = epoch
<1>1. ASSUME IInv, SInv, LInv, [Next]_vars, NEW c \in Client, answered'[c] # answered[c],
             answered'[c] >= 0, ~overlapped
      PROVE  /\ answered'[c] > answered[c]
             /\ Head(jobs).reply.of.owner = c /\ Head(jobs).reply.of.epoch = epoch
  <2>1. TypeOK /\ Timely /\ Numbered /\ answered \in [Client -> Number \cup {-1}]
    BY <1>1 DEF IInv, LInv, TypeOK
  <2>2. CASE Run /\ Relayed(Head(jobs))
    <3> DEFINE h == Head(jobs).reply.of
               of == Head(jobs).of
    <3>1. /\ jobs # <<>> /\ Head(jobs).of.what = "exchange" /\ IsAnswer(Head(jobs).reply)
          /\ answered' = [answered EXCEPT ![of.owner] = h.number]
      BY <1>1, <2>2 DEF Run, Relayed
    <3>2. PICK t \in Seq(Command) : t = (Back(Tail(jobs)) \o Answers) \o relayQueue
      BY <2>1, <3>1, ComingHead
    <3>3. h \in Newer /\ h.owner = of.owner
      BY <2>1, <3>1, <3>2, AnswerNewer
    <3> HIDE DEF h, of
    <3>4. c = of.owner /\ answered'[c] = h.number
      BY <1>1, <2>1, <3>1
    <3>5. h.epoch = epoch /\ answered[c] < h.number /\ h.owner = c
      BY <3>3, <3>4 DEF Newer
    <3> QED
      BY <3>4, <3>5 DEF h
  <2>3. CASE Run /\ ~Relayed(Head(jobs))
    <3>1. answered' = answered \/ \E d : answered' = [answered EXCEPT ![d] = -1]
      BY <2>3 DEF Run, Entered, Started, Stopped
    <3> QED
      BY <1>1, <2>1, <3>1
  <2>4. CASE \E d \in Client : Close(d)
    <3>1. \E d \in Client : answered' = [answered EXCEPT ![d] = -1]
      BY <2>4 DEF Close
    <3> QED
      BY <1>1, <2>1, <3>1
  <2>5. CASE \/ Drained \/ Arrive \/ Expire \/ Opened \/ Device \/ Lose \/ UNCHANGED vars
             \/ \E d \in Client : Connect(d) \/ Start(d) \/ Exchange(d) \/ Stop(d)
    <3>1. answered' = answered
      BY <2>5 DEF Drained, Arrive, Expire, Opened, Device, Lose, vars, Connect, Start, Exchange, Stop
    <3> QED
      BY <1>1, <3>1
  <2> QED
    BY <1>1, <2>2, <2>3, <2>4, <2>5 DEF Next
<1>2. IInv /\ SInv /\ LInv /\ [Next]_vars => [A]_vars
  BY <1>1
<1>3. AnswersInOrder <=> [][A]_vars
  BY DEF AnswersInOrder
<1> HIDE DEF A
<1> QED
  BY <1>2, <1>3, LineInductive, PTL DEF Spec

=============================================================================
