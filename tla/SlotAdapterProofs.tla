------------------------- MODULE SlotAdapterProofs -------------------------
(***************************************************************************)
(* Proofs about the hardware slot, for queues, windows and connections of  *)
(* every size.                                                             *)
(***************************************************************************)
EXTENDS SlotAdapter, FiniteSetTheorems, SequenceTheorems, TLAPS

-----------------------------------------------------------------------------
(***************************************************************************)
(* What a bounded queue holds after an element was put in.                 *)
(***************************************************************************)
\* Appending to a sequence.
LEMMA AppendFacts ==
  ASSUME NEW S, NEW s \in Seq(S), NEW e \in S
  PROVE  /\ Append(s, e) \in Seq(S)
         /\ Len(Append(s, e)) = Len(s) + 1
         /\ Len(s) \in Nat
         /\ \A j \in 1 .. Len(s) + 1 : Append(s, e)[j] = IF j = Len(s) + 1 THEN e ELSE s[j]
<1>1. Len(s) \in Nat
  BY LenProperties
<1>2. Append(s, e) \in Seq(S) /\ Len(Append(s, e)) = Len(s) + 1
  OBVIOUS
<1>3. ASSUME NEW j \in 1 .. Len(s) + 1
      PROVE  Append(s, e)[j] = IF j = Len(s) + 1 THEN e ELSE s[j]
  OBVIOUS
<1> QED
  BY <1>1, <1>2, <1>3

\* Where the newest n of l elements begin.
LEMMA Cut ==
  ASSUME NEW l \in Nat, NEW n \in Nat \ {0}, n < l
  PROVE  /\ l - n + 1 \in Int /\ l \in Int /\ l - n + 1 <= l
         /\ l - (l - n + 1) + 1 = n /\ 1 <= l - n + 1
OBVIOUS

\* The newest n elements: a suffix, whose length is that of s or n.
LEMMA NewestFacts ==
  ASSUME NEW S, NEW s \in Seq(S), NEW n \in Nat \ {0}
  PROVE  /\ Newest(s, n) \in Seq(S)
         /\ Len(Newest(s, n)) = IF Len(s) <= n THEN Len(s) ELSE n
         /\ \A j \in 1 .. Len(Newest(s, n)) :
              Newest(s, n)[j] = s[(Len(s) - Len(Newest(s, n))) + j]
<1> DEFINE l == Len(s)
<1>1. l \in Nat /\ \A i \in 1 .. l : s[i] \in S
  BY LenProperties, ElementOfSeq
<1>2. CASE l <= n
  <2>1. Newest(s, n) = s
    BY <1>2 DEF Newest
  <2>2. \A j \in 1 .. l : (l - l) + j = j
    BY <1>1
  <2> QED
    BY <1>2, <2>1, <2>2
<1>3. CASE ~(l <= n)
  <2> DEFINE m == l - n + 1
  <2>3. Newest(s, n) = SubSeq(s, m, l)
    BY <1>3 DEF Newest
  <2> HIDE DEF l
  <2>1. m \in Int /\ l \in Int /\ m <= l /\ l - m + 1 = n /\ 1 <= m
    <3>1. n < l
      BY <1>1, <1>3
    <3> QED
      BY <1>1, <3>1, Cut
  <2>2. \A i \in m .. l : s[i] \in S
    BY <1>1, <2>1
  <2>4. ASSUME NEW j \in 1 .. n PROVE m + j - 1 = (l - n) + j
    BY <1>1
  <2> HIDE DEF m
  <2>5. /\ SubSeq(s, m, l) \in Seq(S)
        /\ Len(SubSeq(s, m, l)) = n
        /\ \A j \in 1 .. n : SubSeq(s, m, l)[j] = s[m + j - 1]
    BY <2>1, <2>2, SubSeqProperties
  <2> QED
    BY <1>3, <2>3, <2>4, <2>5 DEF l
<1> QED
  BY <1>2, <1>3

-----------------------------------------------------------------------------
(***************************************************************************)
(* Settled exchanges in a queue of jobs.                                   *)
(***************************************************************************)
Count(js) == Cardinality(Settled(js))

\* The settled exchanges can be counted.
LEMMA SettledFinite ==
  ASSUME NEW js \in Seq(Job)
  PROVE  /\ DOMAIN js = 1 .. Len(js)
         /\ IsFiniteSet(Settled(js))
         /\ Count(js) \in Nat
<1>1. Len(js) \in Nat /\ DOMAIN js = 1 .. Len(js)
  BY LenProperties
<1>2. IsFiniteSet(1 .. Len(js))
  BY <1>1, FS_Interval
<1>3. Settled(js) \in SUBSET (1 .. Len(js))
  BY <1>1 DEF Settled
<1>4. IsFiniteSet(Settled(js))
  BY <1>2, <1>3, FS_Subset
<1> QED
  BY <1>1, <1>4, FS_CardinalityType DEF Count

\* There is none in an empty queue.
LEMMA SettledNone == Count(<<>>) = 0
<1>1. Settled(<<>>) = {}
  BY DEF Settled
<1> QED
  BY <1>1, FS_EmptySet DEF Count

\* A job at the end adds one if it is a settled exchange.
LEMMA SettledAppend ==
  ASSUME NEW js \in Seq(Job), NEW e \in Job
  PROVE  /\ Append(js, e) \in Seq(Job)
         /\ Len(Append(js, e)) = Len(js) + 1
         /\ Count(Append(js, e)) = IF e.do = "settle" THEN Count(js) + 1 ELSE Count(js)
<1> DEFINE n == Len(js)
           more == Append(js, e)
<1>1. /\ more \in Seq(Job) /\ Len(more) = n + 1 /\ n \in Nat
      /\ \A i \in 1 .. n + 1 : more[i] = IF i = n + 1 THEN e ELSE js[i]
  BY AppendFacts
<1>2. DOMAIN more = 1 .. n + 1 /\ DOMAIN js = 1 .. n
  BY <1>1, SettledFinite
<1>3. IsFiniteSet(Settled(js)) /\ n + 1 \notin Settled(js)
  BY <1>1, <1>2, SettledFinite DEF Settled
<1> HIDE DEF n, more
<1>4. CASE e.do = "settle"
  <2>1. Settled(more) = Settled(js) \cup {n + 1}
    BY <1>1, <1>2, <1>4 DEF Settled
  <2>2. Cardinality(Settled(js) \cup {n + 1}) = Cardinality(Settled(js)) + 1
    BY <1>3, FS_AddElement
  <2> QED
    BY <1>1, <1>4, <2>1, <2>2 DEF Count, more, n
<1>5. CASE e.do # "settle"
  <2>1. Settled(more) = Settled(js)
    BY <1>1, <1>2, <1>5 DEF Settled
  <2> QED
    BY <1>1, <1>5, <2>1 DEF Count, more, n
<1> QED
  BY <1>4, <1>5

\* The first job takes one away if it is a settled exchange.
LEMMA SettledTail ==
  ASSUME NEW js \in Seq(Job), js # <<>>
  PROVE  /\ Head(js) \in Job
         /\ Tail(js) \in Seq(Job)
         /\ Len(Tail(js)) = Len(js) - 1
         /\ Count(Tail(js)) = IF Head(js).do = "settle" THEN Count(js) - 1 ELSE Count(js)
<1> DEFINE n == Len(js)
           rest == Tail(js)
           later == Settled(js) \ {1}
           move == [i \in Settled(rest) |-> i + 1]
<1>1. /\ Head(js) \in Job /\ rest \in Seq(Job) /\ Len(rest) = n - 1
      /\ \A i \in 1 .. Len(rest) : rest[i] = js[i + 1]
  BY HeadTailProperties
<1>2. n \in Nat \ {0} /\ Head(js) = js[1]
  BY EmptySeq
<1>3. DOMAIN rest = 1 .. n - 1 /\ DOMAIN js = 1 .. n
  BY <1>1, SettledFinite
<1>4. IsFiniteSet(Settled(js)) /\ IsFiniteSet(Settled(rest))
  BY <1>1, SettledFinite
<1>5. \A i \in Settled(rest) : i \in 1 .. n - 1 /\ i + 1 \in later
  BY <1>1, <1>2, <1>3 DEF Settled
<1>6. \A k \in later : k - 1 \in Settled(rest) /\ k \in 2 .. n
  BY <1>1, <1>2, <1>3 DEF Settled
<1>7. move \in Bijection(Settled(rest), later)
  <2> HIDE DEF later, rest, n
  <2>1. move \in [Settled(rest) -> later]
    BY <1>5
  <2>2. \A a, b \in Settled(rest) : move[a] = move[b] => a = b
    BY <1>2, <1>5
  <2>3. \A k \in later : \E i \in Settled(rest) : move[i] = k
    <3>1. ASSUME NEW k \in later PROVE k - 1 \in Settled(rest) /\ move[k - 1] = k
      BY <1>2, <1>6
    <3> QED
      BY <3>1
  <2> HIDE DEF move
  <2> QED
    BY <2>1, <2>2, <2>3 DEF Bijection, Injection, Surjection, IsInjective
<1>8. Cardinality(later) = Cardinality(Settled(rest))
  <2>1. ExistsBijection(Settled(rest), later)
    BY <1>7 DEF ExistsBijection
  <2> QED
    BY <1>4, <2>1, FS_Bijection
<1>9. Cardinality(later) = IF 1 \in Settled(js) THEN Count(js) - 1 ELSE Count(js)
  BY <1>4, FS_RemoveElement DEF Count
<1>10. 1 \in Settled(js) <=> Head(js).do = "settle"
  BY <1>2, <1>3 DEF Settled
<1> HIDE DEF later
<1> QED
  BY <1>1, <1>8, <1>9, <1>10 DEF Count

\* Requests that are settled together.
LEMMA SettledTogether ==
  ASSUME NEW requests \in Seq(Request)
  PROVE  LET js == [i \in 1 .. Len(requests) |-> SettleJob(FALSE, requests[i].sequence)]
         IN  js \in Seq(Job) /\ Len(js) = Len(requests) /\ Count(js) = Len(requests)
<1> DEFINE n == Len(requests)
           js == [i \in 1 .. n |-> SettleJob(FALSE, requests[i].sequence)]
<1>1. n \in Nat
  BY LenProperties
<1>2. ASSUME NEW i \in 1 .. n PROVE SettleJob(FALSE, requests[i].sequence) \in Job
  <2>1. requests[i] \in Request
    BY ElementOfSeq
  <2> QED
    BY <2>1 DEF SettleJob, Job, Request
<1> HIDE DEF n
<1>3. js \in [1 .. n -> Job]
  BY <1>2
<1>4. js \in Seq(Job) /\ Len(js) = n
  <2> HIDE DEF js
  <2>1. DOMAIN js = 1 .. n
    BY <1>3
  <2> QED
    BY <1>1, <1>3, <2>1, SeqDef
<1>5. Settled(js) = 1 .. n
  BY DEF Settled, SettleJob
<1>6. Cardinality(1 .. n) = n
  BY <1>1, FS_Interval
<1> QED
  BY <1>4, <1>5, <1>6 DEF Count, n

-----------------------------------------------------------------------------
(***************************************************************************)
(* The inductive invariant.                                                *)
(***************************************************************************)
\* f in flight, p waiting in the transport, s settled, j jobs.  Without a
\* connection the count starts from zero below the requests that were in flight
\* when it ended, the strays; all that waits and runs then is theirs, so that
\* none of their loops finds the transport full.
Balanced(on, f, p, s, j) ==
  IF on THEN f = p + s ELSE (p + s) - f <= Pipeline /\ p + j <= (p + s) - f

Counted ==
  Balanced(connected, inFlightCount, Len(pendingBySequence), Count(jobs), Len(jobs))

\* Only an active session has requests waiting.
Idle == session # "active" => pendingBySequence = <<>>

\* The next number follows the last one that went out.
LastSent == session = "active" /\ sent # <<>> => sent[Len(sent)].sequence + 1 = sequence

Numbered == NoHostGap /\ LastSent

IInv == TypeOK /\ Counted /\ Idle /\ Numbered

\* The counts of an exchange that goes out or is refused, of one that goes on, of
\* one that is answered, and of all of them rejected.
LEMMA Balances ==
  ASSUME NEW on \in BOOLEAN, NEW f \in Int, NEW p \in Nat, NEW s \in Nat, NEW j \in Nat,
         Balanced(on, f, p, s, j)
  PROVE  /\ \A r \in Nat : r <= j => Balanced(on, f, p, s, r)
         /\ \A r \in Nat : on \/ r + 1 <= j =>
              Balanced(on, f + 1, p + 1, s, r) /\ Balanced(on, f + 1, p, s + 1, r + 1)
         /\ s # 0 => Balanced(on, f - 1, p, s - 1, j)
         /\ j = 0 /\ s = 0 => /\ Balanced(on, f, 0, p, p)
                              /\ p # 0 => Balanced(on, f, p - 1, 1, 1)
                              /\ p <= Pipeline => Balanced(FALSE, 0, p, 0, 0)
BY AdapterAssumption DEF Balanced

\* The count stays in its range: one more when there is room in the window, one
\* less when an exchange goes on.
LEMMA CountRange ==
  ASSUME NEW on \in BOOLEAN, NEW f \in -Pipeline .. Pipeline, NEW p \in Nat, NEW s \in Nat,
         NEW j \in Nat, Balanced(on, f, p, s, j), NEW w \in {1, Pipeline}
  PROVE  /\ f < w => f + 1 \in -Pipeline .. Pipeline
         /\ s # 0 => f - 1 \in -Pipeline .. Pipeline
         /\ f < w /\ (on \/ j # 0) => p < Pipeline
BY AdapterAssumption DEF Balanced

\* The counts of the state.
LEMMA Numbers ==
  ASSUME IInv
  PROVE  /\ connected \in BOOLEAN /\ inFlightCount \in -Pipeline .. Pipeline
         /\ inFlightCount \in Int
         /\ Len(pendingBySequence) \in Nat /\ Len(pendingBySequence) <= Pipeline
         /\ Count(jobs) \in Nat /\ Len(jobs) \in Nat
         /\ jobs = <<>> => Len(jobs) = 0 /\ Count(jobs) = 0
         /\ Counted
<1>1. TypeOK /\ Counted
  BY DEF IInv
<1>2. jobs \in Seq(Job) /\ pendingBySequence \in Seq(Request)
  BY <1>1 DEF TypeOK
<1>3. Len(jobs) \in Nat /\ Len(pendingBySequence) \in Nat
  BY <1>2, LenProperties
<1>4. Count(jobs) \in Nat
  BY <1>2, SettledFinite
<1>5. jobs = <<>> => Len(jobs) = 0 /\ Count(jobs) = 0
  BY SettledNone
<1>6. inFlightCount \in Int
  BY <1>1, AdapterAssumption DEF TypeOK
<1> QED
  BY <1>1, <1>3, <1>4, <1>5, <1>6 DEF TypeOK

-----------------------------------------------------------------------------
(***************************************************************************)
(* Initial states and single steps.                                        *)
(***************************************************************************)
\* The initial state.
LEMMA InitSafe == Init => IInv
<1> SUFFICES ASSUME Init PROVE IInv
  OBVIOUS
<1>1. TypeOK
  <2>1. 0 \in -Pipeline .. Pipeline /\ Pipeline \in Nat
    BY AdapterAssumption
  <2>2. 1 \in 1 .. Periods + 1 /\ RingDepth \in Nat
    BY AdapterAssumption
  <2>3. /\ outboundQueue \in Seq(Frame) /\ Len(outboundQueue) <= maxInbound
        /\ inboundQueue \in Seq(Nat) /\ Len(inboundQueue) <= maxInbound
    BY <2>2 DEF Init
  <2>4. /\ jobs \in Seq(Job) /\ sent \in Seq(Request)
        /\ pendingBySequence \in Seq(Request) /\ Len(pendingBySequence) <= Pipeline
    BY <2>1 DEF Init
  <2> QED
    BY <2>1, <2>2, <2>3, <2>4 DEF Init, TypeOK
<1>2. Counted
  <2>1. Count(jobs) = 0 /\ Len(jobs) = 0 /\ Len(pendingBySequence) = 0
    BY SettledNone DEF Init
  <2> QED
    BY <2>1, AdapterAssumption DEF Init, Counted, Balanced
<1>3. Idle /\ Numbered
  BY DEF Init, Idle, Numbered, NoHostGap, LastSent
<1> QED
  BY <1>1, <1>2, <1>3 DEF IInv

\* A request with the next number at the end of those that went out.
LEMMA SentAppend ==
  ASSUME NEW log \in Seq(Request), NEW r \in Request,
         \A i \in 1 .. Len(log) - 1 : log[i + 1].sequence = log[i].sequence + 1,
         log # <<>> => log[Len(log)].sequence + 1 = r.sequence
  PROVE  LET more == Append(log, r)
         IN  /\ more \in Seq(Request) /\ Len(more) = Len(log) + 1 /\ more[Len(more)] = r
             /\ \A i \in 1 .. Len(more) - 1 : more[i + 1].sequence = more[i].sequence + 1
<1> DEFINE more == Append(log, r)
           n == Len(log)
<1>1. /\ more \in Seq(Request) /\ Len(more) = n + 1 /\ n \in Nat
      /\ \A i \in 1 .. n + 1 : more[i] = IF i = n + 1 THEN r ELSE log[i]
  BY AppendFacts
<1>2. n # 0 => log # <<>>
  OBVIOUS
<1> HIDE DEF more
<1>3. more[n + 1] = r
  BY <1>1
<1>4. ASSUME NEW i \in 1 .. n PROVE more[i + 1].sequence = more[i].sequence + 1
  <2>1. CASE i = n
    BY <1>1, <1>2, <1>3, <2>1 DEF Request
  <2>2. CASE i # n
    <3>1. i \in 1 .. n - 1 /\ more[i] = log[i] /\ more[i + 1] = log[i + 1]
      BY <1>1, <2>2
    <3> QED
      BY <3>1
  <2> QED
    BY <2>1, <2>2
<1> QED
  BY <1>1, <1>3, <1>4 DEF more

\* A turn of the loop, when the rest of the jobs is one job shorter or the slot is
\* connected.  The frame that goes out finds room: the transport refuses none
\* while the session lasts.
LEMMA TurnSafe ==
  ASSUME IInv, NEW rest \in Seq(Job), Count(rest) = Count(jobs), Len(rest) <= Len(jobs),
         connected \/ Len(rest) + 1 <= Len(jobs),
         Turn(rest),
         UNCHANGED <<connected, inboundQueue, settings, session, page, answered, lastPlayed>>
  PROVE  IInv'
<1> DEFINE f == inFlightCount
           p == Len(pendingBySequence)
           s == Count(jobs)
           request == [sequence |-> sequence, frame |-> NextFrame]
<1>1. /\ TypeOK /\ Counted /\ Idle /\ Numbered
      /\ connected \in BOOLEAN /\ f \in -Pipeline .. Pipeline /\ f \in Int
      /\ p \in Nat /\ s \in Nat /\ Len(jobs) \in Nat /\ Len(rest) \in Nat
  BY Numbers, LenProperties DEF IInv
<1>2. Balanced(connected, f, p, s, Len(jobs))
  BY <1>1 DEF Counted
<1>3. /\ Balanced(connected, f, p, s, Len(rest))
      /\ Balanced(connected, f + 1, p + 1, s, Len(rest))
      /\ Balanced(connected, f + 1, p, s + 1, Len(rest) + 1)
  BY <1>1, <1>2, Balances
<1>4. CASE ~(inFlightCount < maxInFlight /\ HasFrame)
  <2>1. /\ jobs' = rest
        /\ UNCHANGED <<queues, sequence, inFlightCount, pendingBySequence, sent>>
    BY <1>4 DEF Turn
  <2>2. TypeOK'
    BY <1>1, <2>1 DEF TypeOK, queues, settings, page
  <2>3. Counted'
    BY <1>3, <2>1 DEF Counted
  <2>4. Idle' /\ Numbered'
    BY <1>1, <2>1 DEF Idle, Numbered, NoHostGap, LastSent
  <2> QED
    BY <2>2, <2>3, <2>4 DEF IInv
<1>5. CASE inFlightCount < maxInFlight /\ HasFrame
  <2>1. /\ Submit(rest)
        /\ outboundQueue \in Seq(Frame) /\ pendingOutbound \in Frame \cup {None}
        /\ sequence \in Nat /\ maxInFlight \in {1, Pipeline}
    BY <1>1, <1>5 DEF Turn, TypeOK
  <2>2. /\ pendingOutbound = None => outboundQueue # <<>>
        /\ outboundQueue # <<>> => /\ Head(outboundQueue) \in Frame
                                   /\ Tail(outboundQueue) \in Seq(Frame)
                                   /\ Len(Tail(outboundQueue)) = Len(outboundQueue) - 1
    BY <1>5, <2>1, HeadTailProperties DEF HasFrame
  <2>3. NextFrame \in Frame
    BY <2>1, <2>2 DEF NextFrame
  <2>4. request \in Request
    BY <2>1, <2>3 DEF Request
  <2>5. Len(outboundQueue) \in Nat /\ maxInbound \in Nat /\ Len(outboundQueue) <= maxInbound
    BY <1>1, <2>1, LenProperties, AdapterAssumption DEF TypeOK
  <2>6. outboundQueue' \in Seq(Frame) /\ Len(outboundQueue') <= maxInbound
    <3>1. outboundQueue' = IF pendingOutbound # None THEN outboundQueue ELSE Tail(outboundQueue)
      BY <2>1 DEF Submit
    <3>2. \/ outboundQueue' = outboundQueue
          \/ outboundQueue' = Tail(outboundQueue) /\ outboundQueue # <<>>
      BY <2>2, <3>1
    <3>3. CASE outboundQueue' = outboundQueue
      BY <2>1, <2>5, <3>3
    <3>4. CASE outboundQueue' = Tail(outboundQueue) /\ outboundQueue # <<>>
      <4>1. /\ outboundQueue' \in Seq(Frame)
            /\ Len(outboundQueue') = Len(outboundQueue) - 1
        BY <2>2, <3>4
      <4> DEFINE l == Len(outboundQueue)
      <4>2. l \in Nat /\ l <= maxInbound /\ maxInbound \in Nat
        BY <2>5
      <4> HIDE DEF l
      <4>3. l - 1 <= maxInbound
        BY <4>2
      <4> QED
        BY <4>1, <4>3 DEF l
    <3> QED
      BY <3>2, <3>3, <3>4
  <2>7. /\ f + 1 \in -Pipeline .. Pipeline
        /\ p < Pipeline
    BY <1>1, <1>2, <1>5, <2>1, CountRange
  <2>8. /\ pendingOutbound' = None /\ sequence' = sequence + 1 /\ inFlightCount' = f + 1
    BY <2>1 DEF Submit
  <2>9. CASE session = "active"
    <3>1. /\ pendingBySequence' = Append(pendingBySequence, request)
          /\ sent' = Append(sent, request)
          /\ jobs' = rest
      BY <2>1, <2>7, <2>9 DEF Submit
    <3>2. pendingBySequence \in Seq(Request) /\ sent \in Seq(Request)
      BY <1>1 DEF TypeOK
    <3>3. /\ Append(pendingBySequence, request) \in Seq(Request)
          /\ Len(Append(pendingBySequence, request)) = p + 1
      BY <2>4, <3>2, AppendFacts
    <3>4. /\ \A i \in 1 .. Len(sent) - 1 : sent[i + 1].sequence = sent[i].sequence + 1
          /\ sent # <<>> => sent[Len(sent)].sequence + 1 = request.sequence
      BY <1>1, <2>9 DEF Numbered, NoHostGap, LastSent
    <3>5. /\ sent' \in Seq(Request) /\ sent'[Len(sent')] = request
          /\ \A i \in 1 .. Len(sent') - 1 : sent'[i + 1].sequence = sent'[i].sequence + 1
      BY <2>4, <3>1, <3>2, <3>4, SentAppend
    <3>6. p + 1 <= Pipeline
      BY <1>1, <2>7, AdapterAssumption
    <3> HIDE DEF request
    <3>7. TypeOK'
      BY <1>1, <2>1, <2>6, <2>7, <2>8, <3>1, <3>3, <3>5, <3>6 DEF TypeOK, settings, page
    <3>8. Counted'
      <4>1. Balanced(connected, f + 1, p + 1, s, Len(rest))
        BY <1>3
      <4>2. connected' = connected
        OBVIOUS
      <4>3. inFlightCount' = f + 1 /\ Len(pendingBySequence') = p + 1
        BY <2>8, <3>1, <3>3
      <4>4. Count(jobs') = s /\ Len(jobs') = Len(rest)
        BY <3>1
      <4> HIDE DEF f, p, s
      <4> QED
        BY <4>1, <4>2, <4>3, <4>4 DEF Counted
    <3>9. Idle'
      BY <2>9 DEF Idle
    <3>10. Numbered'
      <4>1. request.sequence + 1 = sequence'
        BY <2>8 DEF request
      <4>2. LastSent'
        BY <3>5, <4>1 DEF LastSent
      <4> QED
        BY <3>5, <4>2 DEF Numbered, NoHostGap
    <3> QED
      BY <3>7, <3>8, <3>9, <3>10 DEF IInv
  <2>10. CASE session # "active"
    <3>1. /\ jobs' = Append(rest, SettleJob(FALSE, sequence))
          /\ UNCHANGED <<pendingBySequence, sent>>
      BY <2>1, <2>10 DEF Submit
    <3>2. SettleJob(FALSE, sequence) \in Job /\ SettleJob(FALSE, sequence).do = "settle"
      BY <2>1 DEF SettleJob, Job
    <3>3. jobs' \in Seq(Job) /\ Len(jobs') = Len(rest) + 1 /\ Count(jobs') = s + 1
      BY <3>1, <3>2, SettledAppend
    <3> HIDE DEF request
    <3>4. TypeOK'
      <4>1. /\ pendingBySequence' \in Seq(Request) /\ Len(pendingBySequence') <= Pipeline
            /\ sent' \in Seq(Request)
        BY <1>1, <3>1 DEF TypeOK
      <4>2. /\ pendingOutbound' \in Frame \cup {None} /\ sequence' \in Nat
            /\ inFlightCount' \in -Pipeline .. Pipeline
        BY <2>1, <2>7, <2>8
      <4>3. Len(outboundQueue') <= maxInbound'
        BY <2>6 DEF settings
      <4> QED
        BY <1>1, <2>6, <3>3, <4>1, <4>2, <4>3 DEF TypeOK, settings, page
    <3>5. Counted'
      <4>1. Balanced(connected, f + 1, p, s + 1, Len(rest) + 1)
        BY <1>3
      <4>2. connected' = connected
        OBVIOUS
      <4>3. inFlightCount' = f + 1 /\ Len(pendingBySequence') = p
        BY <2>8, <3>1
      <4> HIDE DEF f, p, s
      <4> QED
        BY <3>3, <4>1, <4>2, <4>3 DEF Counted
    <3>6. Idle' /\ Numbered'
      BY <1>1, <2>10, <3>1 DEF Idle, Numbered, NoHostGap, LastSent
    <3> QED
      BY <3>4, <3>5, <3>6 DEF IInv
  <2> QED
    BY <2>9, <2>10
<1> QED
  BY <1>4, <1>5

\* The queues' bound is not zero, before and after it grows.
LEMMA Bounds ==
  /\ RingDepth \in Nat \ {0} /\ AdaptiveDepth \in Nat \ {0} /\ RingDepth <= AdaptiveDepth
  /\ TypeOK => maxInbound \in Nat \ {0} /\ maxInbound <= AdaptiveDepth
<1>1. /\ RingDepth \in Nat \ {0} /\ AdaptiveDepth \in Nat /\ RingDepth <= AdaptiveDepth
  BY AdapterAssumption
<1>2. AdaptiveDepth \in Nat \ {0} /\ AdaptiveDepth <= AdaptiveDepth
  BY <1>1
<1>3. ASSUME TypeOK PROVE maxInbound \in {RingDepth, AdaptiveDepth}
  BY <1>3 DEF TypeOK
<1> QED
  BY <1>1, <1>2, <1>3

\* A bounded queue after an element was put in.
LEMMA QueuePut ==
  ASSUME NEW S, NEW q \in Seq(S), NEW e \in S, NEW n \in Nat \ {0}
  PROVE  Newest(Append(q, e), n) \in Seq(S) /\ Len(Newest(Append(q, e), n)) <= n
<1>1. Append(q, e) \in Seq(S) /\ Len(Append(q, e)) \in Nat
  BY AppendFacts, LenProperties
<1>2. /\ Newest(Append(q, e), n) \in Seq(S)
      /\ Len(Newest(Append(q, e), n)) = IF Len(Append(q, e)) <= n THEN Len(Append(q, e)) ELSE n
  BY <1>1, NewestFacts
<1> QED
  BY <1>1, <1>2

\* A settled exchange goes on.
LEMMA SettleSafe ==
  ASSUME IInv, jobs # <<>>, Settle
  PROVE  IInv'
<1> DEFINE f == inFlightCount
           p == Len(pendingBySequence)
           s == Count(jobs)
           j == Len(jobs)
<1>1. /\ TypeOK /\ Counted /\ Idle /\ Numbered
      /\ connected \in BOOLEAN /\ f \in -Pipeline .. Pipeline /\ f \in Int
      /\ p \in Nat /\ s \in Nat /\ j \in Nat /\ jobs \in Seq(Job)
  BY Numbers DEF IInv, TypeOK
<1>2. /\ Head(jobs) \in Job /\ Head(jobs).do = "settle"
      /\ Tail(jobs) \in Seq(Job) /\ Len(Tail(jobs)) = j - 1 /\ Count(Tail(jobs)) = s - 1
      /\ Count(Tail(jobs)) \in Nat
  <2>1. Head(jobs).do = "settle"
    BY DEF Settle
  <2> QED
    BY <1>1, <2>1, SettledTail, SettledFinite
<1>3. s # 0 /\ (j - 1) + 1 = j
  BY <1>1, <1>2
<1>4. LoopJob \in Job /\ LoopJob.do # "settle"
  BY DEF LoopJob, Job
<1>5. jobs' \in Seq(Job) /\ Len(jobs') = j /\ Count(jobs') = s - 1
  <2>1. jobs' = Append(Tail(jobs), LoopJob)
    BY DEF Settle
  <2>2. /\ jobs' \in Seq(Job) /\ Len(jobs') = Len(Tail(jobs)) + 1
        /\ Count(jobs') = Count(Tail(jobs))
    BY <1>2, <1>4, <2>1, SettledAppend
  <2> QED
    BY <1>2, <1>3, <2>2
<1>6. /\ inFlightCount' = f - 1
      /\ UNCHANGED <<connected, pendingOutbound, outboundQueue, sequence, session,
                     pendingBySequence, slotted, leaving, period, sent,
                     answered, lastPlayed>>
  BY DEF Settle, queues, page
<1>7. f - 1 \in -Pipeline .. Pipeline
  <2>1. Balanced(connected, f, p, s, j)
    BY <1>1 DEF Counted
  <2>2. 1 \in {1, Pipeline}
    OBVIOUS
  <2> QED
    BY <1>1, <1>3, <2>1, <2>2, CountRange
<1>8. /\ maxInFlight' \in {1, Pipeline} /\ maxInbound' \in {RingDepth, AdaptiveDepth}
      /\ inboundQueue' \in Seq(Nat) /\ Len(inboundQueue') <= maxInbound'
      /\ Len(outboundQueue') <= maxInbound'
  <2>1. /\ inboundQueue \in Seq(Nat) /\ Len(inboundQueue) <= maxInbound
        /\ outboundQueue \in Seq(Frame) /\ Len(outboundQueue) <= maxInbound
        /\ maxInFlight \in {1, Pipeline} /\ maxInbound \in {RingDepth, AdaptiveDepth}
        /\ Head(jobs).sequence \in Nat
    BY <1>1, <1>2 DEF TypeOK, Job
  <2>2. CASE ~Head(jobs).ok
    BY <1>6, <2>1, <2>2 DEF Settle, settings
  <2>3. CASE Head(jobs).ok
    <3>1. /\ maxInFlight' \in {maxInFlight, Pipeline}
          /\ inboundQueue' = Newest(Append(inboundQueue, Head(jobs).sequence), maxInbound)
          /\ maxInbound' \in {maxInbound, AdaptiveDepth}
      BY <2>3 DEF Settle
    <3>2. maxInbound \in Nat \ {0} /\ maxInbound <= maxInbound' /\ maxInbound' \in Nat
      BY <1>1, <3>1, Bounds
    <3>3. inboundQueue' \in Seq(Nat) /\ Len(inboundQueue') <= maxInbound
      BY <2>1, <3>1, <3>2, QueuePut
    <3>4. Len(inboundQueue') \in Nat /\ Len(outboundQueue) \in Nat
      BY <2>1, <3>3, LenProperties
    <3> QED
      BY <1>6, <2>1, <3>1, <3>2, <3>3, <3>4
  <2> QED
    BY <2>2, <2>3
<1>9. TypeOK'
  BY <1>1, <1>5, <1>6, <1>7, <1>8 DEF TypeOK
<1>10. Counted'
  <2>1. Balanced(connected, f - 1, p, s - 1, j)
    <3>1. Balanced(connected, f, p, s, j)
      BY <1>1 DEF Counted
    <3> HIDE DEF f, p, s, j
    <3> QED
      BY <1>1, <1>3, <3>1, Balances
  <2>2. connected' = connected /\ inFlightCount' = f - 1 /\ Len(pendingBySequence') = p
    BY <1>6
  <2> HIDE DEF f, p, s, j
  <2> QED
    BY <1>5, <2>1, <2>2 DEF Counted
<1>11. Idle' /\ Numbered'
  BY <1>1, <1>6 DEF Idle, Numbered, NoHostGap, LastSent
<1> QED
  BY <1>9, <1>10, <1>11 DEF IInv

\* A step of the jobs.
LEMMA RunJobSafe ==
  ASSUME IInv, RunJob
  PROVE  IInv'
<1>1. jobs # <<>>
  BY DEF RunJob
<1>2. CASE Settle
  BY <1>1, <1>2, SettleSafe
<1>3. CASE GoOn
  <2>1. /\ Head(jobs).do = "loop" /\ Turn(Tail(jobs))
        /\ UNCHANGED <<connected, inboundQueue, settings, session, page, answered, lastPlayed>>
    BY <1>3 DEF GoOn
  <2>2. /\ Tail(jobs) \in Seq(Job) /\ Len(Tail(jobs)) = Len(jobs) - 1
        /\ Count(Tail(jobs)) = Count(jobs)
    BY <1>1, <2>1, SettledTail DEF IInv, TypeOK
  <2>3. Len(jobs) \in Nat
    BY Numbers
  <2>4. Len(Tail(jobs)) <= Len(jobs) /\ Len(Tail(jobs)) + 1 <= Len(jobs)
    BY <2>2, <2>3
  <2> QED
    BY <2>1, <2>2, <2>4, TurnSafe
<1> QED
  BY <1>2, <1>3 DEF RunJob

\* A step of the timer.
LEMMA TickSafe ==
  ASSUME IInv, Tick
  PROVE  IInv'
<1>1. /\ jobs = <<>> /\ connected /\ Turn(<<>>)
      /\ UNCHANGED <<connected, inboundQueue, settings, session, page, answered, lastPlayed>>
  BY DEF Tick
<1>2. <<>> \in Seq(Job)
  OBVIOUS
<1>3. Count(<<>>) = Count(jobs) /\ Len(<<>>) <= Len(jobs)
  BY <1>1, Numbers
<1> QED
  BY <1>1, <1>2, <1>3, TurnSafe

\* A period of the chain.
LEMMA ChainPeriodSafe ==
  ASSUME IInv, ChainPeriod
  PROVE  IInv'
<1>1. TypeOK /\ Counted /\ Idle /\ Numbered
  BY DEF IInv
<1>2. /\ UNCHANGED <<connected, sequence, inFlightCount, maxInFlight, maxInbound, jobs,
                     session, pendingBySequence, slotted, leaving, sent, answered>>
      /\ period' = period + 1 /\ period <= Periods /\ jobs = <<>>
  BY DEF ChainPeriod, settings
<1>3. period \in Frame /\ period' \in 1 .. Periods + 1
  BY <1>1, <1>2, AdapterAssumption DEF TypeOK, Frame
<1>4. maxInbound \in Nat \ {0}
  BY <1>1, Bounds
<1>5. /\ pendingOutbound' \in Frame \cup {None}
      /\ outboundQueue' \in Seq(Frame) /\ Len(outboundQueue') <= maxInbound
  <2>1. CASE pendingOutbound = None
    BY <1>1, <1>3, <2>1 DEF ChainPeriod, TypeOK
  <2>2. CASE pendingOutbound # None
    <3>1. /\ outboundQueue' = Newest(Append(outboundQueue, period), maxInbound)
          /\ pendingOutbound' = pendingOutbound
      BY <2>2 DEF ChainPeriod
    <3>2. outboundQueue \in Seq(Frame) /\ pendingOutbound \in Frame \cup {None}
      BY <1>1 DEF TypeOK
    <3> QED
      BY <1>3, <1>4, <3>1, <3>2, QueuePut
  <2> QED
    BY <2>1, <2>2
<1>6. /\ inboundQueue' \in Seq(Nat) /\ Len(inboundQueue') <= maxInbound
      /\ lastPlayed' \in Nat \cup {-1}
  <2>1. /\ inboundQueue \in Seq(Nat) /\ Len(inboundQueue) <= maxInbound
        /\ Len(inboundQueue) \in Nat /\ lastPlayed \in Nat \cup {-1}
    BY <1>1, LenProperties DEF TypeOK
  <2>2. CASE inboundQueue = <<>>
    BY <2>1, <2>2 DEF ChainPeriod
  <2>3. CASE inboundQueue # <<>>
    <3>1. inboundQueue' = Tail(inboundQueue) /\ lastPlayed' = Head(inboundQueue)
      BY <2>3 DEF ChainPeriod
    <3>2. /\ Head(inboundQueue) \in Nat /\ Tail(inboundQueue) \in Seq(Nat)
          /\ Len(Tail(inboundQueue)) = Len(inboundQueue) - 1
      BY <2>1, <2>3, HeadTailProperties
    <3> QED
      BY <1>4, <2>1, <3>1, <3>2
  <2> QED
    BY <2>2, <2>3
<1>7. TypeOK'
  BY <1>1, <1>2, <1>3, <1>5, <1>6 DEF TypeOK
<1>8. Counted' /\ Idle' /\ Numbered'
  BY <1>1, <1>2 DEF Counted, Idle, Numbered, NoHostGap, LastSent
<1> QED
  BY <1>7, <1>8 DEF IInv

\* A job on its own.
LEMMA SettledOne ==
  ASSUME NEW e \in Job, e.do = "settle"
  PROVE  <<e>> \in Seq(Job) /\ Len(<<e>>) = 1 /\ Count(<<e>>) = 1
<1> DEFINE none == <<>>
<1>1. none \in Seq(Job) /\ Len(none) = 0 /\ Count(none) = 0 /\ <<e>> = Append(none, e)
  BY SettledNone
<1> HIDE DEF none
<1>2. /\ Append(none, e) \in Seq(Job) /\ Len(Append(none, e)) = Len(none) + 1
      /\ Count(Append(none, e)) = Count(none) + 1
  BY <1>1, SettledAppend
<1>3. Len(none) + 1 = 1 /\ Count(none) + 1 = 1
  BY <1>1
<1> QED
  BY <1>1, <1>2, <1>3

\* A sequence without one of its elements.
LEMMA Removed ==
  ASSUME NEW S, NEW q \in Seq(S), NEW i \in 1 .. Len(q)
  PROVE  RemoveAt(q, i) \in Seq(S) /\ Len(RemoveAt(q, i)) = Len(q) - 1
<1> DEFINE n == Len(q)
<1>1. n \in Nat /\ \A k \in 1 .. n : q[k] \in S
  BY LenProperties, ElementOfSeq
<1> HIDE DEF n
<1>2. i \in 1 .. n /\ i - 1 \in Int /\ i + 1 \in Int /\ n \in Int /\ 1 \in Int
  BY <1>1 DEF n
<1>3. /\ SubSeq(q, 1, i - 1) \in Seq(S)
      /\ Len(SubSeq(q, 1, i - 1)) = IF 1 <= i - 1 THEN (i - 1) - 1 + 1 ELSE 0
  <2>1. \A k \in 1 .. i - 1 : q[k] \in S
    BY <1>1, <1>2
  <2> QED
    BY <1>2, <2>1, SubSeqProperties
<1>4. /\ SubSeq(q, i + 1, n) \in Seq(S)
      /\ Len(SubSeq(q, i + 1, n)) = IF i + 1 <= n THEN n - (i + 1) + 1 ELSE 0
  <2>1. \A k \in i + 1 .. n : q[k] \in S
    BY <1>1, <1>2
  <2> QED
    BY <1>2, <2>1, SubSeqProperties
<1>5. Len(SubSeq(q, 1, i - 1)) + Len(SubSeq(q, i + 1, n)) = n - 1
  BY <1>1, <1>2, <1>3, <1>4
<1>6. RemoveAt(q, i) = SubSeq(q, 1, i - 1) \o SubSeq(q, i + 1, n)
  BY DEF RemoveAt, n
<1> QED
  BY <1>3, <1>4, <1>5, <1>6, ConcatProperties DEF n

\* A sequence that is not empty has a first place.
LEMMA NotEmpty ==
  ASSUME NEW S, NEW q \in Seq(S), q # <<>>
  PROVE  1 \in 1 .. Len(q)
<1>1. Len(q) \in Nat \ {0}
  BY EmptySeq
<1> QED
  BY <1>1

\* An answer finds a request when any is waiting.
LEMMA SomeWaiting ==
  ASSUME NEW number, pendingBySequence \in Seq(Request), pendingBySequence # <<>>
  PROVE  Waiting(number) \in 1 .. Len(pendingBySequence)
<1> DEFINE Found(i) ==
             \/ pendingBySequence[i].sequence = number
             \/ i = 1 /\ \A k \in DOMAIN pendingBySequence : pendingBySequence[k].sequence # number
<1>1. /\ DOMAIN pendingBySequence = 1 .. Len(pendingBySequence)
      /\ 1 \in 1 .. Len(pendingBySequence)
  BY LenProperties, NotEmpty
<1>2. \E i \in DOMAIN pendingBySequence : Found(i)
  BY <1>1
<1>3. Waiting(number) = CHOOSE i \in DOMAIN pendingBySequence : Found(i)
  BY DEF Waiting
<1> HIDE DEF Found
<1> QED
  BY <1>1, <1>2, <1>3

\* A request is settled and leaves the transport.
LEMMA OneSettled ==
  ASSUME IInv, jobs = <<>>, pendingBySequence # <<>>,
         NEW i \in 1 .. Len(pendingBySequence),
         pendingBySequence' \in Seq(Request),
         Len(pendingBySequence') = Len(pendingBySequence) - 1,
         NEW ok \in BOOLEAN, NEW number \in Nat, jobs' = <<SettleJob(ok, number)>>,
         answered' \in Nat \cup {-1},
         UNCHANGED <<adapter, session, page, sent>>
  PROVE  IInv'
<1> DEFINE f == inFlightCount
           p == Len(pendingBySequence)
<1>1. /\ TypeOK /\ Counted /\ Idle /\ Numbered
      /\ connected \in BOOLEAN /\ f \in Int /\ p \in Nat /\ p <= Pipeline
  BY Numbers DEF IInv
<1>2. UNCHANGED <<connected, pendingOutbound, outboundQueue, inboundQueue, sequence,
                  inFlightCount, maxInFlight, maxInbound, lastPlayed, session,
                  slotted, leaving, period, sent>>
  BY DEF adapter, queues, settings, page
<1>3. p # 0 /\ p - 1 <= Pipeline
  BY <1>1, AdapterAssumption
<1>4. jobs' \in Seq(Job) /\ Len(jobs') = 1 /\ Count(jobs') = 1
  <2>1. SettleJob(ok, number) \in Job /\ SettleJob(ok, number).do = "settle"
    BY DEF SettleJob, Job
  <2> QED
    BY <2>1, SettledOne
<1>5. TypeOK'
  BY <1>1, <1>2, <1>3, <1>4 DEF TypeOK
<1>6. Counted'
  <2>1. Balanced(connected, f, p, 0, 0)
    BY <1>1, Numbers DEF Counted
  <2> HIDE DEF f, p
  <2>2. Balanced(connected, f, p - 1, 1, 1)
    BY <1>1, <1>3, <2>1, Balances
  <2> QED
    BY <1>2, <1>4, <2>2 DEF Counted, f, p
<1>7. Idle' /\ Numbered'
  <2>1. session = "active"
    BY <1>1 DEF Idle
  <2> QED
    BY <1>1, <1>2, <2>1 DEF Idle, Numbered, NoHostGap, LastSent
<1> QED
  BY <1>5, <1>6, <1>7 DEF IInv

\* An answer arrives.
LEMMA RespondSafe ==
  ASSUME IInv, Respond
  PROVE  IInv'
<1>1. TypeOK /\ Counted /\ Idle /\ Numbered
  BY DEF IInv
<1>2. pendingBySequence \in Seq(Request) /\ sent \in Seq(Request)
  BY <1>1 DEF TypeOK
<1>3. jobs = <<>> /\ UNCHANGED <<adapter, session, page, sent>>
  BY DEF Respond
<1>4. PICK number \in {request.sequence : request \in Range(sent)} :
        /\ answered' = number
        /\ IF pendingBySequence = <<>>
             THEN UNCHANGED <<jobs, pendingBySequence>>
             ELSE /\ jobs' = <<SettleJob(TRUE, number)>>
                  /\ pendingBySequence' = RemoveAt(pendingBySequence, Waiting(number))
  BY DEF Respond
<1>5. number \in Nat
  <2>1. PICK i \in DOMAIN sent : number = sent[i].sequence
    BY DEF Range
  <2>2. sent[i] \in Request
    BY <1>2, LenProperties, ElementOfSeq
  <2> QED
    BY <2>1, <2>2 DEF Request
<1>6. CASE pendingBySequence = <<>>
  <2>1. UNCHANGED <<connected, pendingOutbound, outboundQueue, inboundQueue, sequence,
                    inFlightCount, maxInFlight, maxInbound, lastPlayed, session, jobs,
                    pendingBySequence, slotted, leaving, period, sent>>
    BY <1>3, <1>4, <1>6 DEF adapter, queues, settings, page
  <2>2. TypeOK'
    BY <1>1, <1>4, <1>5, <2>1 DEF TypeOK
  <2>3. Counted' /\ Idle' /\ Numbered'
    BY <1>1, <2>1 DEF Counted, Idle, Numbered, NoHostGap, LastSent
  <2> QED
    BY <2>2, <2>3 DEF IInv
<1>7. CASE pendingBySequence # <<>>
  <2> DEFINE i == Waiting(number)
  <2>1. i \in 1 .. Len(pendingBySequence)
    BY <1>2, <1>7, SomeWaiting
  <2>2. jobs' = <<SettleJob(TRUE, number)>> /\ pendingBySequence' = RemoveAt(pendingBySequence, i)
    BY <1>4, <1>7
  <2> HIDE DEF i
  <2>3. pendingBySequence' \in Seq(Request) /\ Len(pendingBySequence') = Len(pendingBySequence) - 1
    BY <1>2, <2>1, <2>2, Removed
  <2> QED
    BY <1>3, <1>4, <1>5, <1>7, <2>1, <2>2, <2>3, OneSettled
<1> QED
  BY <1>6, <1>7

\* The oldest request is given up.
LEMMA ExpireSafe ==
  ASSUME IInv, Expire
  PROVE  IInv'
<1>1. TypeOK /\ pendingBySequence \in Seq(Request) /\ answered \in Nat \cup {-1}
  BY DEF IInv, TypeOK
<1>2. /\ jobs = <<>> /\ pendingBySequence # <<>>
      /\ jobs' = <<SettleJob(FALSE, Head(pendingBySequence).sequence)>>
      /\ pendingBySequence' = Tail(pendingBySequence)
      /\ UNCHANGED <<adapter, session, page, sent>> /\ answered' = answered
  BY DEF Expire
<1>3. /\ Head(pendingBySequence).sequence \in Nat
      /\ pendingBySequence' \in Seq(Request)
      /\ Len(pendingBySequence') = Len(pendingBySequence) - 1
  <2>1. /\ Head(pendingBySequence) \in Request /\ Tail(pendingBySequence) \in Seq(Request)
        /\ Len(Tail(pendingBySequence)) = Len(pendingBySequence) - 1
    BY <1>1, <1>2, HeadTailProperties
  <2> QED
    BY <1>2, <2>1 DEF Request
<1>4. 1 \in 1 .. Len(pendingBySequence)
  BY <1>1, <1>2, NotEmpty
<1> DEFINE number == Head(pendingBySequence).sequence
<1>5. number \in Nat /\ jobs' = <<SettleJob(FALSE, number)>> /\ FALSE \in BOOLEAN
  BY <1>2, <1>3
<1>6. answered' \in Nat \cup {-1}
  BY <1>1, <1>2
<1> HIDE DEF number
<1> QED
  BY <1>2, <1>3, <1>4, <1>5, <1>6, OneSettled

\* All requests are rejected, and the session is over.
LEMMA RejectSafe ==
  ASSUME IInv, jobs = <<>>, RejectAllPending,
         session' \in {"disconnected", "degraded"},
         slotted' \in BOOLEAN, leaving' \in BOOLEAN,
         UNCHANGED <<adapter, period, sent, answered>>
  PROVE  IInv'
<1> DEFINE f == inFlightCount
           p == Len(pendingBySequence)
<1>1. /\ TypeOK /\ Counted /\ Idle /\ Numbered
      /\ connected \in BOOLEAN /\ f \in Int /\ p \in Nat /\ p <= Pipeline
  BY Numbers DEF IInv
<1>2. /\ UNCHANGED <<connected, pendingOutbound, outboundQueue, inboundQueue, sequence,
                     inFlightCount, maxInFlight, maxInbound, lastPlayed, period, sent,
                     answered>>
      /\ pendingBySequence' = <<>>
  BY DEF adapter, queues, settings, RejectAllPending
<1>3. jobs' \in Seq(Job) /\ Len(jobs') = p /\ Count(jobs') = p
  BY <1>1, SettledTogether DEF TypeOK, RejectAllPending
<1>4. /\ pendingBySequence' \in Seq(Request) /\ Len(pendingBySequence') = 0
      /\ 0 <= Pipeline
  BY <1>2, AdapterAssumption
<1>5. TypeOK'
  BY <1>1, <1>2, <1>3, <1>4 DEF TypeOK
<1>6. Counted'
  <2>1. Balanced(connected, f, p, 0, 0)
    BY <1>1, Numbers DEF Counted
  <2> HIDE DEF f, p
  <2>2. Balanced(connected, f, 0, p, p)
    BY <1>1, <2>1, Balances
  <2> QED
    BY <1>2, <1>3, <1>4, <2>2 DEF Counted, f
<1>7. Idle' /\ Numbered'
  BY <1>1, <1>2 DEF Idle, Numbered, NoHostGap, LastSent
<1> QED
  BY <1>5, <1>6, <1>7 DEF IInv

\* A new session under an adapter that has gone on.
LEMMA ReconnectSafe ==
  ASSUME IInv, Reconnect
  PROVE  IInv'
<1>1. TypeOK /\ Counted /\ Idle /\ Numbered
  BY DEF IInv
<1>2. /\ session' = "active" /\ sent' = <<>>
      /\ UNCHANGED <<connected, pendingOutbound, outboundQueue, inboundQueue, sequence,
                     inFlightCount, maxInFlight, maxInbound, lastPlayed, jobs,
                     pendingBySequence, slotted, leaving, period, answered>>
  BY DEF Reconnect, adapter, queues, settings, page
<1>3. sent' \in Seq(Request) /\ Len(sent') = 0
  BY <1>2
<1>4. TypeOK'
  BY <1>1, <1>2, <1>3 DEF TypeOK
<1>5. Counted' /\ Idle' /\ Numbered'
  BY <1>1, <1>2, <1>3 DEF Counted, Idle, Numbered, NoHostGap, LastSent
<1> QED
  BY <1>4, <1>5 DEF IInv

\* A connection begins: nothing of an earlier one is left in the transport.
LEMMA ConnectSafe ==
  ASSUME IInv, Connect
  PROVE  IInv'
<1>1. TypeOK /\ Counted /\ Idle /\ Numbered
  BY DEF IInv
<1>2. /\ jobs = <<>> /\ jobs' = <<>> /\ pendingBySequence' = pendingBySequence
      /\ session # "active" /\ session' = "active" /\ sent' = <<>> /\ answered' = -1 /\ period' = 1
      /\ slotted' = TRUE /\ leaving' = leaving
      /\ connected' = TRUE /\ pendingOutbound' = None /\ outboundQueue' = <<>>
      /\ inboundQueue' = <<>> /\ sequence' = 0 /\ inFlightCount' = 0 /\ maxInFlight' = 1
      /\ maxInbound' = RingDepth /\ lastPlayed' = -1
  BY DEF Connect, Start
<1>3. pendingBySequence' = <<>>
  BY <1>1, <1>2 DEF Idle
<1>4. /\ Len(pendingBySequence') = 0 /\ Len(jobs') = 0 /\ Count(jobs') = 0
      /\ Len(sent') = 0 /\ Len(outboundQueue') = 0 /\ Len(inboundQueue') = 0
  BY <1>2, <1>3, SettledNone
<1>5. TypeOK'
  <2>1. /\ 0 \in -Pipeline .. Pipeline /\ 0 <= Pipeline /\ 0 <= RingDepth
        /\ 1 \in 1 .. Periods + 1
    BY AdapterAssumption
  <2>2. /\ outboundQueue' \in Seq(Frame) /\ inboundQueue' \in Seq(Nat) /\ jobs' \in Seq(Job)
        /\ sent' \in Seq(Request) /\ pendingBySequence' \in Seq(Request)
    BY <1>2, <1>3
  <2> QED
    BY <1>1, <1>2, <1>4, <2>1, <2>2 DEF TypeOK
<1>6. Counted'
  BY <1>2, <1>4 DEF Counted, Balanced
<1>7. Idle' /\ Numbered'
  BY <1>2, <1>3, <1>4 DEF Idle, Numbered, NoHostGap, LastSent
<1> QED
  BY <1>5, <1>6, <1>7 DEF IInv

\* The slot leaves the scheduler.
LEMMA DeleteUnitSafe ==
  ASSUME IInv, DeleteUnit
  PROVE  IInv'
<1>1. TypeOK /\ Counted /\ Idle /\ Numbered
  BY DEF IInv
<1>2. /\ slotted' = FALSE
      /\ UNCHANGED <<connected, pendingOutbound, outboundQueue, inboundQueue, sequence,
                     inFlightCount, maxInFlight, maxInbound, lastPlayed, jobs, session,
                     pendingBySequence, leaving, period, sent, answered>>
  BY DEF DeleteUnit, adapter, queues, settings
<1>3. TypeOK'
  BY <1>1, <1>2 DEF TypeOK
<1>4. Counted' /\ Idle' /\ Numbered'
  BY <1>1, <1>2 DEF Counted, Idle, Numbered, NoHostGap, LastSent
<1> QED
  BY <1>3, <1>4 DEF IInv

\* The adapter stops; what is in flight becomes stray.
LEMMA DisconnectSafe ==
  ASSUME IInv, Disconnect
  PROVE  IInv'
<1> DEFINE p == Len(pendingBySequence)
<1>1. /\ TypeOK /\ Counted /\ Idle /\ Numbered
      /\ connected \in BOOLEAN /\ inFlightCount \in Int /\ p \in Nat /\ p <= Pipeline
  BY Numbers DEF IInv
<1>2. /\ jobs = <<>> /\ leaving' = TRUE /\ connected' = FALSE /\ inFlightCount' = 0
      /\ pendingOutbound' = None /\ outboundQueue' = <<>> /\ inboundQueue' = <<>>
      /\ UNCHANGED <<sequence, maxInFlight, maxInbound, jobs, session, pendingBySequence,
                     slotted, period, sent, answered, lastPlayed>>
  BY DEF Disconnect, settings
<1>3. /\ 0 \in -Pipeline .. Pipeline /\ maxInbound \in Nat
      /\ outboundQueue' \in Seq(Frame) /\ Len(outboundQueue') = 0
      /\ inboundQueue' \in Seq(Nat) /\ Len(inboundQueue') = 0
  BY <1>1, <1>2, Bounds, AdapterAssumption
<1>4. 0 <= maxInbound'
  BY <1>2, <1>3
<1>5. TypeOK'
  BY <1>1, <1>2, <1>3, <1>4 DEF TypeOK
<1>6. Counted'
  <2>1. Balanced(FALSE, 0, p, 0, 0)
    BY <1>1, AdapterAssumption DEF Balanced
  <2>2. Count(jobs') = 0 /\ Len(jobs') = 0 /\ Len(pendingBySequence') = p
    BY <1>2, SettledNone
  <2> HIDE DEF p
  <2> QED
    BY <1>2, <2>1, <2>2 DEF Counted
<1>7. Idle' /\ Numbered'
  BY <1>1, <1>2 DEF Idle, Numbered, NoHostGap, LastSent
<1> QED
  BY <1>5, <1>6, <1>7 DEF IInv

-----------------------------------------------------------------------------
(***************************************************************************)
(* The theorems.                                                           *)
(***************************************************************************)
\* Every step keeps the invariant.
LEMMA NextSafe == IInv /\ [Next]_vars => IInv'
<1> SUFFICES ASSUME IInv, [Next]_vars PROVE IInv'
  OBVIOUS
<1>1. TypeOK
  BY DEF IInv
<1>2. CASE Tick
  BY <1>2, TickSafe
<1>3. CASE RunJob
  BY <1>3, RunJobSafe
<1>4. CASE ChainPeriod
  BY <1>4, ChainPeriodSafe
<1>5. CASE Respond
  BY <1>5, RespondSafe
<1>6. CASE LinkLoss
  BY <1>1, <1>6, RejectSafe DEF LinkLoss, page, TypeOK
<1>7. CASE Reconnect
  BY <1>7, ReconnectSafe
<1>8. CASE Connect
  BY <1>8, ConnectSafe
<1>9. CASE ConnectFails
  BY <1>1, <1>9, RejectSafe DEF ConnectFails, page, TypeOK
<1>10. CASE DeleteUnit
  BY <1>10, DeleteUnitSafe
<1>11. CASE Disconnect
  BY <1>11, DisconnectSafe
<1>12. CASE EndSession
  BY <1>12, RejectSafe DEF EndSession
<1>13. CASE Expire
  BY <1>13, ExpireSafe
<1>14. CASE UNCHANGED vars
  <2>1. UNCHANGED <<connected, pendingOutbound, outboundQueue, inboundQueue, sequence,
                    inFlightCount, maxInFlight, maxInbound, lastPlayed, jobs, session,
                    pendingBySequence, slotted, leaving, period, sent, answered>>
    BY <1>14 DEF vars, queues, settings, page
  <2>2. TypeOK'
    BY <1>1, <2>1 DEF TypeOK
  <2>3. Counted' /\ Idle' /\ Numbered'
    BY <2>1 DEF IInv, Counted, Idle, Numbered, NoHostGap, LastSent
  <2> QED
    BY <2>2, <2>3 DEF IInv
<1> QED
  BY <1>2, <1>3, <1>4, <1>5, <1>6, <1>7, <1>8, <1>9, <1>10, <1>11, <1>12, <1>13, <1>14 DEF Next

\* The invariant gives the properties.
LEMMA Consequences == IInv => TypeOK /\ CountExact /\ NoHostGap
BY DEF IInv, Counted, Balanced, Count, CountExact, Numbered

\* Every state has the types of the specification; the queues of the adapter and
\* the window of the transport stay within their bounds.
THEOREM TypeCorrect == Spec => []TypeOK
<1>1. Spec => []IInv
  BY InitSafe, NextSafe, PTL DEF Spec
<1> QED
  BY <1>1, Consequences, PTL

\* The window of _submitExchange is exact while the slot is connected, however
\* link losses, timeouts and connections follow each other.
THEOREM WindowExact == Spec => []CountExact
<1>1. Spec => []IInv
  BY InitSafe, NextSafe, PTL DEF Spec
<1> QED
  BY <1>1, Consequences, PTL

\* The numbers of a session go out without a gap: no number is burned on a
\* request that the transport refuses while the session lasts.
THEOREM NumbersWithoutGap == Spec => []NoHostGap
<1>1. Spec => []IInv
  BY InitSafe, NextSafe, PTL DEF Spec
<1> QED
  BY <1>1, Consequences, PTL

-----------------------------------------------------------------------------
(***************************************************************************)
(* The order of playback.                                                  *)
(***************************************************************************)
Climbs(s) == \A i, j \in 1 .. Len(s) : i < j => s[i] < s[j]

\* What waits to be played comes after what was played last, and is not newer than the last
\* answer; the answer that has not gone on yet is newer than all of it.
Playing ==
  /\ Climbs(inboundQueue) /\ lastPlayed <= answered
  /\ \A i \in 1 .. Len(inboundQueue) : lastPlayed < inboundQueue[i] /\ inboundQueue[i] <= answered
Arriving ==
  \A i \in 1 .. Len(jobs) : jobs[i].ok =>
    /\ i = 1 /\ jobs[i].sequence = answered /\ lastPlayed < answered
    /\ \A k \in 1 .. Len(inboundQueue) : inboundQueue[k] < answered
InTurn == Playing /\ Arriving

Failing(js) == \A i \in 1 .. Len(js) : ~js[i].ok

\* Settling without an answer leaves the order alone.
LEMMA FailingTurn ==
  ASSUME InTurn, Failing(jobs'), UNCHANGED <<inboundQueue, lastPlayed, answered>>
  PROVE  InTurn'
BY DEF InTurn, Playing, Arriving, Failing, Climbs

\* Behind the first job there is no answer.
LEMMA TailFails ==
  ASSUME IInv, InTurn, jobs # <<>>
  PROVE  /\ Tail(jobs) \in Seq(Job) /\ Failing(Tail(jobs)) /\ Head(jobs) = jobs[1]
         /\ 1 \in 1 .. Len(jobs)
<1>1. jobs \in Seq(Job) /\ Len(jobs) \in Nat /\ Len(jobs) # 0
  BY LenProperties, EmptySeq DEF IInv, TypeOK
<1>2. /\ Tail(jobs) \in Seq(Job) /\ Len(Tail(jobs)) = Len(jobs) - 1
      /\ \A i \in 1 .. Len(Tail(jobs)) : Tail(jobs)[i] = jobs[i + 1]
      /\ Head(jobs) = jobs[1]
  BY <1>1, HeadTailProperties
<1>3. ASSUME NEW i \in 1 .. Len(Tail(jobs))
      PROVE  ~Tail(jobs)[i].ok
  <2>1. i + 1 \in 1 .. Len(jobs) /\ i + 1 # 1
    BY <1>1, <1>2
  <2> QED
    BY <1>2, <2>1 DEF InTurn, Arriving
<1> QED
  BY <1>1, <1>2, <1>3 DEF Failing

\* A job that brings no answer is put behind.
LEMMA FailingMore ==
  ASSUME NEW js \in Seq(Job), Failing(js), NEW e \in Job, ~e.ok
  PROVE  Failing(Append(js, e))
BY AppendFacts DEF Failing

\* A turn of the loop brings no answer.
LEMMA TurnFails ==
  ASSUME NEW rest \in Seq(Job), Failing(rest), sequence \in Nat, Turn(rest)
  PROVE  Failing(jobs')
<1>1. SettleJob(FALSE, sequence) \in Job /\ ~SettleJob(FALSE, sequence).ok
  BY DEF SettleJob, Job
<1>2. jobs' = rest \/ jobs' = Append(rest, SettleJob(FALSE, sequence))
  BY DEF Turn, Submit
<1> QED
  BY <1>1, <1>2, FailingMore

\* A greater number at the end.
LEMMA ClimbsAppend ==
  ASSUME NEW s \in Seq(Nat), NEW low \in Int, NEW e \in Nat, NEW top \in Int, top = e, low < e,
         Climbs(s), \A i \in 1 .. Len(s) : low < s[i] /\ s[i] < e
  PROVE  /\ Append(s, e) \in Seq(Nat) /\ Climbs(Append(s, e))
         /\ \A i \in 1 .. Len(Append(s, e)) : low < Append(s, e)[i] /\ Append(s, e)[i] <= top
<1> DEFINE q == Append(s, e)
<1>1. /\ q \in Seq(Nat) /\ Len(q) = Len(s) + 1 /\ Len(s) \in Nat
      /\ \A j \in 1 .. Len(s) + 1 : q[j] = IF j = Len(s) + 1 THEN e ELSE s[j]
  BY AppendFacts
<1> HIDE DEF q
<1>2. \A j \in 1 .. Len(s) : s[j] \in Nat
  BY ElementOfSeq
<1>3. \A j \in 1 .. Len(q) : low < q[j] /\ q[j] <= top
  <2>1. TAKE j \in 1 .. Len(q)
  <2>2. CASE j = Len(s) + 1
    <3>1. q[j] = e
      BY <1>1, <2>2
    <3> QED
      BY <3>1
  <2>3. CASE j # Len(s) + 1
    <3>1. j \in 1 .. Len(s)
      BY <1>1, <2>3
    <3>2. q[j] = s[j]
      BY <1>1, <2>3, <3>1
    <3> QED
      BY <1>2, <3>1, <3>2
  <2> QED
    BY <2>2, <2>3
<1>4. Climbs(q)
  <2>1. SUFFICES ASSUME NEW i \in 1 .. Len(q), NEW j \in 1 .. Len(q), i < j
                 PROVE  q[i] < q[j]
    BY DEF Climbs
  <2>2. i \in 1 .. Len(s) /\ q[i] = s[i]
    <3>1. Len(q) = Len(s) + 1 /\ Len(s) \in Nat
      BY <1>1
    <3>2. i \in 1 .. Len(s) /\ i # Len(s) + 1 /\ i \in 1 .. Len(s) + 1
      BY <2>1, <3>1
    <3> QED
      BY <1>1, <3>2
  <2>3. CASE j = Len(s) + 1
    BY <1>1, <2>2, <2>3
  <2>4. CASE j # Len(s) + 1
    <3>1. j \in 1 .. Len(s) /\ q[j] = s[j]
      BY <1>1, <2>4
    <3> QED
      BY <2>1, <2>2, <3>1 DEF Climbs
  <2> QED
    BY <2>3, <2>4
<1> QED
  BY <1>1, <1>3, <1>4 DEF q

\* The newest of them.
LEMMA ClimbsNewest ==
  ASSUME NEW q \in Seq(Nat), NEW low, NEW top, NEW m \in Nat \ {0},
         Climbs(q), \A i \in 1 .. Len(q) : low < q[i] /\ q[i] <= top
  PROVE  /\ Climbs(Newest(q, m))
         /\ \A i \in 1 .. Len(Newest(q, m)) : low < Newest(q, m)[i] /\ Newest(q, m)[i] <= top
<1> DEFINE n == Newest(q, m)
<1>1. /\ Len(n) = IF Len(q) <= m THEN Len(q) ELSE m
      /\ \A j \in 1 .. Len(n) : n[j] = q[Len(q) - Len(n) + j]
  BY NewestFacts
<1> HIDE DEF n
<1>2. Len(n) \in Nat /\ Len(q) \in Nat /\ Len(n) <= Len(q)
  BY <1>1, LenProperties
<1>3. \A j \in 1 .. Len(n) : Len(q) - Len(n) + j \in 1 .. Len(q)
  BY <1>2
<1>4. \A i \in 1 .. Len(n) : low < n[i] /\ n[i] <= top
  BY <1>1, <1>3
<1>5. Climbs(n)
  <2>1. SUFFICES ASSUME NEW i \in 1 .. Len(n), NEW j \in 1 .. Len(n), i < j
                 PROVE  n[i] < n[j]
    BY DEF Climbs
  <2>2. Len(q) - Len(n) + i < Len(q) - Len(n) + j
    BY <1>2, <2>1
  <2>3. q[Len(q) - Len(n) + i] < q[Len(q) - Len(n) + j]
    BY <1>3, <2>2 DEF Climbs
  <2> QED
    BY <1>1, <2>3
<1> QED
  BY <1>4, <1>5 DEF n

\* An answer goes on: it is put behind what waits to be played.
LEMMA SettleTurn ==
  ASSUME IInv, InTurn, jobs # <<>>, Settle
  PROVE  InTurn'
<1> DEFINE q == Append(inboundQueue, Head(jobs).sequence)
           n == Newest(q, maxInbound)
<1>1. /\ Tail(jobs) \in Seq(Job) /\ Failing(Tail(jobs)) /\ Head(jobs) = jobs[1]
      /\ 1 \in 1 .. Len(jobs)
  BY TailFails
<1>2. LoopJob \in Job /\ ~LoopJob.ok
  BY DEF LoopJob, Job
<1>3. jobs' = Append(Tail(jobs), LoopJob) /\ lastPlayed' = lastPlayed /\ answered' = answered
  BY DEF Settle
<1>4. Failing(jobs')
  BY <1>1, <1>2, <1>3, FailingMore
<1>5. CASE ~Head(jobs).ok
  BY <1>3, <1>4, <1>5, FailingTurn DEF Settle
<1>6. CASE Head(jobs).ok
  <2>1. inboundQueue' = n
    BY <1>6 DEF Settle
  <2>2. /\ inboundQueue \in Seq(Nat) /\ maxInbound \in Nat \ {0} /\ answered \in Int /\ lastPlayed \in Int
        /\ jobs \in Seq(Job)
    BY Bounds DEF IInv, TypeOK
  <2>3. /\ Head(jobs).sequence = answered /\ Head(jobs).sequence \in Nat /\ lastPlayed < answered
        /\ \A k \in 1 .. Len(inboundQueue) : inboundQueue[k] < answered
    <3>1. jobs[1] \in Job
      BY <1>1, <2>2, ElementOfSeq
    <3> QED
      BY <1>1, <1>6, <3>1 DEF InTurn, Arriving, Job
  <2>4. \A i \in 1 .. Len(inboundQueue) : lastPlayed < inboundQueue[i] /\ inboundQueue[i] < Head(jobs).sequence
    BY <2>3 DEF InTurn, Playing
  <2>5. Climbs(inboundQueue) /\ lastPlayed < Head(jobs).sequence
    BY <2>3 DEF InTurn, Playing
  <2>6. /\ q \in Seq(Nat) /\ Climbs(q)
        /\ \A i \in 1 .. Len(q) : lastPlayed < q[i] /\ q[i] <= answered
    BY <2>2, <2>3, <2>4, <2>5, ClimbsAppend
  <2> HIDE DEF q
  <2>7. /\ Climbs(n)
        /\ \A i \in 1 .. Len(n) : lastPlayed < n[i] /\ n[i] <= answered
    BY <2>2, <2>6, ClimbsNewest
  <2> HIDE DEF n
  <2>8. Playing'
    BY <1>3, <2>1, <2>7 DEF InTurn, Playing
  <2> QED
    BY <1>4, <2>8 DEF InTurn, Arriving, Failing
<1> QED
  BY <1>5, <1>6

\* A period of the chain plays the oldest answer.
LEMMA ChainPeriodTurn ==
  ASSUME IInv, InTurn, ChainPeriod
  PROVE  /\ InTurn'
         /\ lastPlayed' # lastPlayed => lastPlayed' > lastPlayed
<1>1. jobs = <<>> /\ UNCHANGED <<jobs, answered>>
  BY DEF ChainPeriod
<1>2. Failing(jobs')
  BY <1>1 DEF Failing
<1>3. CASE inboundQueue = <<>>
  <2>1. UNCHANGED <<inboundQueue, lastPlayed>>
    BY <1>3 DEF ChainPeriod
  <2> QED
    BY <1>1, <1>2, <2>1, FailingTurn
<1>4. CASE inboundQueue # <<>>
  <2>1. inboundQueue' = Tail(inboundQueue) /\ lastPlayed' = Head(inboundQueue)
    BY <1>4 DEF ChainPeriod
  <2>2. /\ inboundQueue \in Seq(Nat) /\ Len(inboundQueue) \in Nat /\ Len(inboundQueue) # 0
        /\ answered \in Int /\ lastPlayed \in Int
    BY <1>4, LenProperties, EmptySeq DEF IInv, TypeOK
  <2>3. /\ Len(Tail(inboundQueue)) = Len(inboundQueue) - 1 /\ Head(inboundQueue) = inboundQueue[1]
        /\ \A i \in 1 .. Len(Tail(inboundQueue)) : Tail(inboundQueue)[i] = inboundQueue[i + 1]
    BY <1>4, <2>2, HeadTailProperties
  <2>4. 1 \in 1 .. Len(inboundQueue) /\ \A i \in 1 .. Len(inboundQueue) - 1 : i + 1 \in 1 .. Len(inboundQueue)
    BY <2>2
  <2>5. lastPlayed < lastPlayed' /\ lastPlayed' <= answered
    BY <2>1, <2>3, <2>4 DEF InTurn, Playing
  <2>6. Climbs(inboundQueue')
    BY <2>1, <2>2, <2>3, <2>4 DEF InTurn, Playing, Climbs
  <2>7. ASSUME NEW i \in 1 .. Len(inboundQueue')
        PROVE  lastPlayed' < inboundQueue'[i] /\ inboundQueue'[i] <= answered
    <3>1. i + 1 \in 1 .. Len(inboundQueue) /\ 1 < i + 1 /\ inboundQueue'[i] = inboundQueue[i + 1]
      BY <2>1, <2>2, <2>3
    <3> QED
      BY <2>1, <2>3, <2>4, <3>1 DEF InTurn, Playing, Climbs
  <2>8. InTurn'
    BY <1>1, <1>2, <2>5, <2>6, <2>7 DEF InTurn, Playing, Arriving, Failing
  <2> QED
    BY <2>2, <2>5, <2>8
<1> QED
  BY <1>3, <1>4

\* An answer arrives, newer than all before.
LEMMA RespondTurn ==
  ASSUME IInv, InTurn, Respond
  PROVE  InTurn'
<1>1. PICK number \in {request.sequence : request \in Range(sent)} :
        /\ number > answered /\ answered' = number
        /\ IF pendingBySequence = <<>> THEN UNCHANGED <<jobs, pendingBySequence>>
           ELSE /\ jobs' = <<SettleJob(TRUE, number)>>
                /\ pendingBySequence' = RemoveAt(pendingBySequence, Waiting(number))
  BY DEF Respond
<1>2. jobs = <<>> /\ UNCHANGED <<inboundQueue, lastPlayed>>
  BY DEF Respond, adapter
<1>3. number \in Nat /\ answered \in Int /\ lastPlayed \in Int /\ inboundQueue \in Seq(Nat)
  <2>1. sent \in Seq(Request) /\ \A i \in 1 .. Len(sent) : sent[i] \in Request
    BY ElementOfSeq DEF IInv, TypeOK
  <2>2. PICK request \in Range(sent) : number = request.sequence
    OBVIOUS
  <2>3. request \in Request
    BY <2>1, <2>2 DEF Range
  <2> QED
    BY <2>2, <2>3 DEF Request, IInv, TypeOK
<1>4. \A i \in 1 .. Len(inboundQueue) : inboundQueue[i] \in Nat
  BY <1>3, ElementOfSeq
<1>5. /\ lastPlayed < number
      /\ \A i \in 1 .. Len(inboundQueue) : lastPlayed < inboundQueue[i] /\ inboundQueue[i] < number
  <2>1. /\ lastPlayed <= answered /\ number > answered
        /\ \A i \in 1 .. Len(inboundQueue) : lastPlayed < inboundQueue[i] /\ inboundQueue[i] <= answered
    BY <1>1 DEF InTurn, Playing
  <2>2. lastPlayed < number
    BY <1>3, <2>1
  <2>3. ASSUME NEW i \in 1 .. Len(inboundQueue)
        PROVE  lastPlayed < inboundQueue[i] /\ inboundQueue[i] < number
    <3>1. inboundQueue[i] \in Nat
      BY <1>4
    <3>2. lastPlayed < inboundQueue[i] /\ inboundQueue[i] <= answered
      BY <2>1
    <3> QED
      BY <1>3, <2>1, <3>1, <3>2
  <2> QED
    BY <2>2, <2>3
<1>6. Playing'
  <2>1. lastPlayed <= number /\ \A i \in 1 .. Len(inboundQueue) : inboundQueue[i] <= number
    BY <1>3, <1>4, <1>5
  <2> QED
    BY <1>1, <1>2, <1>5, <2>1 DEF InTurn, Playing, Climbs
<1>7. Arriving'
  <2>1. CASE jobs' = jobs
    BY <1>2, <2>1 DEF Arriving
  <2>2. CASE jobs' = <<SettleJob(TRUE, number)>>
    <3>1. Len(jobs') = 1 /\ jobs'[1].sequence = number
      BY <2>2 DEF SettleJob
    <3>2. \A i \in 1 .. Len(jobs') : i = 1
      BY <3>1
    <3> QED
      BY <1>1, <1>2, <1>5, <3>1, <3>2 DEF Arriving
  <2> QED
    BY <1>1, <2>1, <2>2
<1> QED
  BY <1>6, <1>7 DEF InTurn

\* Every step keeps the order, and plays what comes later or begins anew.
LEMMA NextTurn ==
  ASSUME IInv, InTurn, [Next]_vars
  PROVE  InTurn' /\ (lastPlayed' # lastPlayed => lastPlayed' > lastPlayed \/ lastPlayed' = -1)
<1>1. jobs \in Seq(Job) /\ sequence \in Nat /\ Failing(<<>>) /\ <<>> \in Seq(Job)
  BY DEF IInv, TypeOK, Failing
<1>2. CASE Tick
  <2>1. Turn(<<>>) /\ UNCHANGED <<inboundQueue, lastPlayed, answered>>
    BY <1>2 DEF Tick
  <2> QED
    BY <1>1, <2>1, TurnFails, FailingTurn
<1>3. CASE RunJob
  <2>1. jobs # <<>>
    BY <1>3 DEF RunJob
  <2>2. CASE Settle
    BY <2>1, <2>2, SettleTurn DEF Settle
  <2>3. CASE GoOn
    <3>1. Turn(Tail(jobs)) /\ UNCHANGED <<inboundQueue, lastPlayed, answered>>
      BY <2>3 DEF GoOn
    <3> QED
      BY <1>1, <2>1, <3>1, TailFails, TurnFails, FailingTurn
  <2> QED
    BY <1>3, <2>2, <2>3 DEF RunJob
<1>4. CASE ChainPeriod
  BY <1>4, ChainPeriodTurn
<1>5. CASE Respond
  BY <1>5, RespondTurn DEF Respond, adapter
<1>6. CASE Expire
  <2>1. /\ jobs' = <<SettleJob(FALSE, Head(pendingBySequence).sequence)>>
        /\ UNCHANGED <<inboundQueue, lastPlayed, answered>>
    BY <1>6 DEF Expire, adapter
  <2>2. Failing(jobs')
    BY <2>1 DEF Failing, SettleJob
  <2> QED
    BY <2>1, <2>2, FailingTurn
<1>7. CASE LinkLoss \/ ConnectFails \/ EndSession
  <2>1. RejectAllPending /\ UNCHANGED <<inboundQueue, lastPlayed, answered>>
    BY <1>7 DEF LinkLoss, ConnectFails, EndSession, adapter
  <2>2. Failing(jobs')
    BY <2>1 DEF RejectAllPending, Failing, SettleJob
  <2> QED
    BY <2>1, <2>2, FailingTurn
<1>8. CASE Reconnect \/ DeleteUnit
  <2>1. UNCHANGED <<inboundQueue, lastPlayed, answered, jobs>> /\ jobs = <<>>
    BY <1>8 DEF Reconnect, DeleteUnit, adapter
  <2> QED
    BY <1>1, <2>1, FailingTurn
<1>9. CASE Connect
  <2>1. jobs' = <<>> /\ inboundQueue' = <<>> /\ lastPlayed' = -1 /\ answered' = -1
    BY <1>9 DEF Connect, Start
  <2> QED
    BY <2>1 DEF InTurn, Playing, Arriving, Climbs
<1>10. CASE Disconnect
  <2>1. jobs' = <<>> /\ inboundQueue' = <<>> /\ UNCHANGED <<lastPlayed, answered>>
    BY <1>10 DEF Disconnect
  <2> QED
    BY <2>1 DEF InTurn, Playing, Arriving, Climbs
<1>11. CASE UNCHANGED vars
  <2>1. UNCHANGED <<inboundQueue, lastPlayed, answered, jobs>>
    BY <1>11 DEF vars
  <2> QED
    BY <2>1 DEF InTurn, Playing, Arriving, Climbs
<1> QED
  BY <1>2, <1>3, <1>4, <1>5, <1>6, <1>7, <1>8, <1>9, <1>10, <1>11 DEF Next

\* Within a connection the answers are played in the order of their numbers, none of them
\* twice, whatever is lost, late, rejected with its session or given up.
THEOREM AnswersPlayedInOrder == Spec => PlayedInOrder
<1>1. Init => IInv /\ InTurn
  BY InitSafe DEF Init, InTurn, Playing, Arriving, Climbs
<1>2. IInv /\ InTurn /\ [Next]_vars => IInv' /\ InTurn'
  BY NextSafe, NextTurn
<1>3. IInv /\ InTurn /\ [Next]_vars =>
        [lastPlayed' # lastPlayed => lastPlayed' > lastPlayed \/ lastPlayed' = -1]_vars
  BY NextTurn
<1> QED
  BY <1>1, <1>2, <1>3, PTL DEF Spec, PlayedInOrder

=============================================================================
