------------------------- MODULE UsbNeighborProofs -------------------------
(***************************************************************************)
(* Proofs about UsbNeighbor, for every number of sequences and pot         *)
(* positions and without the bounds that model checking needs.             *)
(***************************************************************************)
EXTENDS UsbNeighbor, SequenceTheorems, TLAPS

(***************************************************************************)
(* The strengthenings.  Baseline ties the two fields of the sequence check *)
(* to the history of the session; Switched says that a physical control in *)
(* the history is one the session still has; InOrder says which frames the *)
(* host is owed a reply for.                                               *)
(***************************************************************************)
Baseline ==
  /\ ~hasLastSequence => log = <<>>
  /\ hasLastSequence => /\ active
                        /\ log # <<>>
                        /\ log[Len(log)].seq = lastProcessedSequence

Switched ==
  \A i \in 1 .. Len(log) :
    log[i].pots = "physical" => usePhysicalAdc /\ hasPhysicalPots

InOrder ==
  /\ RepliesMatch
  /\ \A i \in 1 .. Len(rx) : owed[Len(tx) + i] = rx[i]

History == Baseline /\ AcceptedInSequence /\ Switched /\ ControlSource

IInv == TypeOK /\ AudioOwnership /\ History /\ InOrder


-----------------------------------------------------------------------------
(***************************************************************************)
(* Queues.                                                                 *)
(***************************************************************************)
OnWire == Frame \cup {Torn}

\* Dropping one element of a nonempty queue leaves a queue one shorter, with
\* the elements before that place where they were and the later ones moved up.
LEMMA WithoutFacts ==
  ASSUME NEW S, NEW s \in Seq(S), s # <<>>, NEW k \in Nat
  PROVE  /\ Without(s, k) \in Seq(S)
         /\ Len(Without(s, k)) = Len(s) - 1
         /\ \A j \in 1 .. Len(s) - 1 :
              Without(s, k)[j] = IF j < k THEN s[j] ELSE s[j + 1]
<1> DEFINE n == Len(s) - 1
           w == [j \in 1 .. n |-> IF j < k THEN s[j] ELSE s[j + 1]]
<1>1. n \in Nat
  BY EmptySeq, LenProperties
<1>2. \A j \in 1 .. n : (IF j < k THEN s[j] ELSE s[j + 1]) \in S
  BY ElementOfSeq, LenProperties
<1>3. w \in Seq(S) /\ Len(w) = n
  BY <1>1, <1>2, IsASeq, LenProperties
<1> QED
  BY <1>3 DEF Without

\* A frame that is taken off the line and gets no reply leaves every other frame
\* paired with its own reply.
LEMMA UnansweredInOrder ==
  ASSUME TypeOK, InOrder, rx # <<>>, rx' = Tail(rx), tx' = tx,
         owed' = Without(owed, Len(tx) + 1)
  PROVE  /\ rx' \in Seq(OnWire) /\ tx' \in Seq(Reply) /\ owed' \in Seq(OnWire)
         /\ InOrder'
<1>1. /\ rx \in Seq(OnWire) /\ tx \in Seq(Reply) /\ owed \in Seq(OnWire)
      /\ Len(rx) \in Nat \ {0} /\ Len(tx) \in Nat
      /\ Len(owed) = Len(tx) + Len(rx) /\ owed # <<>>
  BY EmptySeq, LenProperties DEF TypeOK, OnWire, InOrder, RepliesMatch
<1>2. /\ rx' \in Seq(OnWire) /\ Len(rx') = Len(rx) - 1
      /\ \A i \in 1 .. Len(rx) - 1 : rx'[i] = rx[i + 1]
  BY <1>1, HeadTailProperties
<1>3. /\ \A i \in 1 .. Len(tx) : Answers(owed[i], tx[i])
      /\ \A i \in 1 .. Len(rx) : owed[Len(tx) + i] = rx[i]
  BY DEF InOrder, RepliesMatch
<1>4. /\ owed' \in Seq(OnWire) /\ Len(owed') = Len(owed) - 1
      /\ \A j \in 1 .. Len(owed) - 1 :
           owed'[j] = IF j < Len(tx) + 1 THEN owed[j] ELSE owed[j + 1]
  <2> Len(tx) + 1 \in Nat
    BY <1>1
  <2> QED
    BY <1>1, WithoutFacts
<1>5. ASSUME NEW i \in 1 .. Len(tx) PROVE owed'[i] = owed[i]
  <2>1. i \in 1 .. Len(owed) - 1 /\ i < Len(tx) + 1
    BY <1>1
  <2> QED
    BY <1>4, <2>1
<1>6. ASSUME NEW i \in 1 .. Len(rx') PROVE owed'[Len(tx') + i] = rx'[i]
  <2>1. /\ i \in 1 .. Len(rx) - 1 /\ i + 1 \in 1 .. Len(rx)
        /\ Len(tx) + i \in 1 .. Len(owed) - 1
        /\ ~(Len(tx) + i < Len(tx) + 1)
        /\ (Len(tx) + i) + 1 = Len(tx) + (i + 1)
    BY <1>1, <1>2
  <2>2. owed'[Len(tx) + i] = owed[Len(tx) + (i + 1)]
    BY <1>4, <2>1
  <2> QED
    BY <1>2, <1>3, <2>1, <2>2
<1> QED
  BY <1>1, <1>2, <1>3, <1>4, <1>5, <1>6 DEF InOrder, RepliesMatch, Answers

\* A reply to the frame at the head of the receive buffer, sent or lost, keeps
\* every other frame paired with its own reply.
LEMMA WriteInOrder ==
  ASSUME TypeOK, InOrder, rx # <<>>, NEW r \in Reply, Answers(Head(rx), r),
         Write(r), UsbNeighborAssumption
  PROVE  /\ rx' \in Seq(OnWire) /\ tx' \in Seq(Reply) /\ owed' \in Seq(OnWire)
         /\ InOrder'
<1>1. /\ rx \in Seq(OnWire) /\ tx \in Seq(Reply) /\ owed \in Seq(OnWire)
      /\ Len(rx) \in Nat \ {0} /\ Len(tx) \in Nat
      /\ Len(owed) = Len(tx) + Len(rx) /\ owed # <<>>
  BY EmptySeq, LenProperties DEF TypeOK, OnWire, InOrder, RepliesMatch
<1>2. /\ rx' = Tail(rx) /\ rx' \in Seq(OnWire) /\ Len(rx') = Len(rx) - 1
      /\ \A i \in 1 .. Len(rx) - 1 : rx'[i] = rx[i + 1]
  BY <1>1, HeadTailProperties DEF Write
<1>3. Head(rx) = owed[Len(tx) + 1]
  BY <1>1 DEF InOrder
<1>4. /\ \A i \in 1 .. Len(tx) : Answers(owed[i], tx[i])
      /\ \A i \in 1 .. Len(rx) : owed[Len(tx) + i] = rx[i]
  BY DEF InOrder, RepliesMatch
<1>5. CASE Len(tx) < MaxTx
  <2>1. tx' = Append(tx, r) /\ owed' = owed
    BY <1>5 DEF Write
  <2>2. /\ tx' \in Seq(Reply) /\ Len(tx') = Len(tx) + 1
        /\ \A i \in 1 .. Len(tx) : tx'[i] = tx[i]
        /\ tx'[Len(tx) + 1] = r
    BY <1>1, <2>1, AppendProperties
  <2>3. ASSUME NEW i \in 1 .. Len(tx') PROVE Answers(owed[i], tx'[i])
    <3>1. CASE i \in 1 .. Len(tx)
      BY <1>4, <2>2, <3>1
    <3>2. CASE i = Len(tx) + 1
      BY <1>3, <2>2, <3>2
    <3> QED
      BY <1>1, <2>2, <3>1, <3>2
  <2>4. ASSUME NEW i \in 1 .. Len(rx') PROVE owed[Len(tx') + i] = rx'[i]
    <3>1. i \in 1 .. Len(rx) - 1 /\ i + 1 \in 1 .. Len(rx) /\ Len(tx') + i = Len(tx) + (i + 1)
      BY <1>1, <1>2, <2>2
    <3> QED
      BY <1>2, <1>4, <3>1
  <2>5. Len(owed') = Len(tx') + Len(rx')
    <3>1. Len(tx) \in Nat /\ Len(rx) \in Nat /\ Len(owed) = Len(tx) + Len(rx)
      BY <1>1
    <3>2. Len(owed') = Len(owed) /\ Len(tx') = Len(tx) + 1 /\ Len(rx') = Len(rx) - 1
      BY <1>2, <2>1, <2>2
    <3> QED
      BY <3>1, <3>2
  <2>6. RepliesMatch'
    BY <2>1, <2>3, <2>5 DEF RepliesMatch, Answers
  <2> QED
    BY <1>1, <1>2, <2>1, <2>2, <2>4, <2>6 DEF InOrder
<1>6. CASE ~(Len(tx) < MaxTx)
  BY <1>6, UnansweredInOrder DEF Write
<1> QED
  BY <1>5, <1>6

-----------------------------------------------------------------------------
(***************************************************************************)
(* Sessions.                                                               *)
(***************************************************************************)
\* A successor is a sequence number.
LEMMA Next32Type ==
  ASSUME NEW n \in Sequence PROVE Next32(n) \in Sequence
BY UsbNeighborAssumption DEF Sequence, Next32

\* Accepting an exchange that is in sequence extends the history by one entry
\* that fits: it succeeds the last one and its controls do not fall back.
LEMMA AcceptKeepsHistory ==
  ASSUME TypeOK, History, NEW f \in ExchangeFrame,
         NEW source \in {"none", "injected", "physical"},
         InSequence(hasLastSequence, f.seq), Accept(f, log, source), active',
         log # <<>> => UNCHANGED <<usePhysicalAdc, hasPhysicalPots>>,
         \/ source = "none"
         \/ source = PotSource /\ UNCHANGED <<usePhysicalAdc, hasPhysicalPots>>
  PROVE  /\ hasLastSequence' \in BOOLEAN /\ lastProcessedSequence' \in Sequence
         /\ out' \in Sequence \cup {NoSeq} /\ log' \in Seq(LogEntry)
         /\ History'
<1> DEFINE e == [seq |-> f.seq, cmd |-> f.cmd, pots |-> source]
<1>1. f.seq \in Sequence /\ e \in LogEntry
  BY DEF ExchangeFrame, LogEntry
<1>2. /\ hasLastSequence' = TRUE
      /\ lastProcessedSequence' = f.seq
      /\ out' = f.seq
      /\ log' = Append(log, e)
  BY DEF Accept
<1>3. /\ log \in Seq(LogEntry) /\ Len(log) \in Nat
      /\ log # <<>> => Len(log) \in Nat \ {0}
      /\ log = <<>> => Len(log) = 0
  BY EmptySeq, LenProperties DEF TypeOK
<1>4. /\ log' \in Seq(LogEntry) /\ Len(log') = Len(log) + 1
      /\ \A i \in 1 .. Len(log) : log'[i] = log[i]
      /\ log'[Len(log) + 1] = e
  BY <1>1, <1>2, <1>3, AppendProperties
<1> HIDE DEF e
<1>5. e.seq = f.seq /\ e.pots = source
  BY DEF e
<1>6. Baseline'
  <2>1. log' # <<>>
    BY <1>3, <1>4, EmptySeq
  <2> QED
    BY <1>2, <1>4, <1>5, <2>1 DEF Baseline
<1>7. AcceptedInSequence'
  <2>1. ASSUME NEW i \in 1 .. Len(log) PROVE log'[i + 1].seq = Next32(log'[i].seq)
    <3>1. CASE i \in 1 .. Len(log) - 1
      <4>1. i + 1 \in 1 .. Len(log)
        BY <1>3, <3>1
      <4> QED
        BY <1>4, <3>1, <4>1 DEF History, AcceptedInSequence
    <3>2. CASE i = Len(log)
      <4>1. hasLastSequence /\ log[i].seq = lastProcessedSequence
        BY <1>3, <3>2 DEF History, Baseline
      <4> QED
        BY <1>4, <1>5, <3>2, <4>1 DEF InSequence
    <3> QED
      BY <1>3, <3>1, <3>2
  <2>2. Len(log') - 1 = Len(log)
    BY <1>3, <1>4
  <2> QED
    BY <2>1, <2>2 DEF AcceptedInSequence, Next32
<1>8. ASSUME NEW i \in 1 .. Len(log'), log'[i].pots = "physical"
      PROVE  /\ usePhysicalAdc /\ hasPhysicalPots
             /\ UNCHANGED <<usePhysicalAdc, hasPhysicalPots>>
  <2>1. CASE i \in 1 .. Len(log)
    BY <1>3, <1>4, <1>8, <2>1 DEF History, Switched
  <2>2. CASE i = Len(log) + 1
    BY <1>4, <1>5, <1>8, <2>2 DEF PotSource
  <2> QED
    BY <1>3, <1>4, <2>1, <2>2
<1>9. Switched'
  BY <1>8 DEF Switched
<1>10. ControlSource'
  <2>1. ASSUME NEW i \in 1 .. Len(log'), log'[i].pots = "physical",
               NEW j \in i .. Len(log')
        PROVE  log'[j].pots # "injected"
    <3>1. CASE j \in 1 .. Len(log)
      <4>1. i \in 1 .. Len(log) /\ j \in i .. Len(log)
        BY <1>3, <1>4, <3>1
      <4> QED
        BY <1>4, <2>1, <4>1 DEF History, ControlSource
    <3>2. CASE j = Len(log) + 1
      BY <1>4, <1>5, <1>8, <2>1, <3>2 DEF PotSource
    <3> QED
      BY <1>3, <1>4, <3>1, <3>2
  <2> QED
    BY <1>8, <2>1 DEF ControlSource
<1> QED
  BY <1>1, <1>2, <1>4, <1>6, <1>7, <1>9, <1>10 DEF History

\* A new session, or none, has an empty history.
LEMMA EmptyHistory ==
  ASSUME hasLastSequence' = FALSE, log' = <<>>
  PROVE  log' \in Seq(LogEntry) /\ History'
<1>1. log' \in Seq(LogEntry) /\ Len(log') = 0
  BY EmptySeq
<1> QED
  BY <1>1 DEF History, Baseline, AcceptedInSequence, Switched, ControlSource

\* Without a new exchange the history stays good while the neighbor mode stays
\* on, whether pots have been read meanwhile or not.
LEMMA SameHistory ==
  ASSUME History, UNCHANGED <<hasLastSequence, lastProcessedSequence, log>>,
         active => active',
         log # <<>> => /\ usePhysicalAdc' = usePhysicalAdc
                       /\ hasPhysicalPots => hasPhysicalPots',
         log \in Seq(LogEntry)
  PROVE  History'
<1>1. log = <<>> => Len(log) = 0
  BY EmptySeq
<1>2. Baseline' /\ AcceptedInSequence'
  BY DEF History, Baseline, AcceptedInSequence, Next32
<1>3. Switched' /\ ControlSource'
  BY <1>1 DEF History, Switched, ControlSource
<1> QED
  BY <1>2, <1>3 DEF History

-----------------------------------------------------------------------------
(***************************************************************************)
(* Handlers.                                                               *)
(***************************************************************************)
SessionType ==
  /\ active \in BOOLEAN /\ usePhysicalAdc \in BOOLEAN /\ hasPhysicalPots \in BOOLEAN
  /\ hasLastSequence \in BOOLEAN /\ lastProcessedSequence \in Sequence
  /\ out \in Sequence \cup {NoSeq} /\ suspended \in BOOLEAN
  /\ log \in Seq(LogEntry)

WireType == rx \in Seq(OnWire) /\ tx \in Seq(Reply) /\ owed \in Seq(OnWire)

\* What every handler preserves, whichever loop calls it.
HandlerInv ==
  /\ SessionType /\ WireType
  /\ suspended = active
  /\ History
  /\ InOrder

\* The answer of an exchange that is refused or accepted is a reply to it.
LEMMA ResponseAnswers ==
  ASSUME NEW f \in ExchangeFrame, NEW o \in Sequence \cup {NoSeq},
         NEW status \in {"OK", "SEQ_GAP"}, status = "OK" => o = f.seq
  PROVE  /\ Response(f.cmd, f.seq, status, o) \in Reply
         /\ Answers(f, Response(f.cmd, f.seq, status, o))
BY DEF ExchangeFrame, Response, Reply, Answers, Accepted, IsExchange, Status, Command

\* So is an acknowledgement with the frame's own command.
LEMMA AckAnswers ==
  ASSUME NEW f \in Answered, NEW status \in Status
  PROVE  Ack(f.cmd, status) \in Reply /\ Answers(f, Ack(f.cmd, status))
<1>1. f.cmd \in Command
  BY DEF Answered, EnterFrame, ExchangeFrame, OtherFrame, Plain, Command
<1>2. 0 \in Sequence
  BY UsbNeighborAssumption DEF Sequence
<1> QED
  BY <1>1, <1>2 DEF Ack, Reply, Answers, Accepted, Status

\* Only an exchange frame has an exchange command.
LEMMA ExchangeCommand ==
  ASSUME NEW f \in OnWire, f.cmd \in {"EXCHANGE_USB", "LOOPBACK_USB"}
  PROVE  f \in ExchangeFrame
BY DEF OnWire, Frame, Answered, BadPrefix, EnterFrame, ExchangeFrame, OtherFrame, Plain, Torn

\* A handler leaves what it must: the types, the I2S ownership, the history of
\* the session and the pairing of frames and replies.
LEMMA HandlerSafe ==
  ASSUME TypeOK, HandlerInv, rx # <<>>, Handle(Head(rx))
  PROVE  HandlerInv'
<1> DEFINE f == Head(rx)
<1>1. f \in OnWire
  BY HeadTailProperties DEF TypeOK, OnWire
<1>2. ASSUME NEW r \in Reply, Answers(f, r), Write(r) PROVE WireType' /\ InOrder'
  BY <1>2, WriteInOrder, UsbNeighborAssumption DEF HandlerInv, WireType
<1>3. ASSUME NEW status \in Status, f \notin {Torn, BadPrefix}, Write(Ack(f.cmd, status))
      PROVE  WireType' /\ InOrder'
  <2>1. f \in Answered
    BY <1>1, <1>3 DEF OnWire, Frame
  <2> QED
    BY <1>2, <1>3, <2>1, AckAnswers
<1>4. ASSUME NEW o \in Sequence \cup {NoSeq}, NEW status \in {"OK", "SEQ_GAP"},
             status = "OK" => o = f.seq, f \in ExchangeFrame,
             Write(Response(f.cmd, f.seq, status, o))
      PROVE  WireType' /\ InOrder'
  BY <1>2, <1>4, ResponseAnswers
<1> HIDE DEF f
<1>5. CASE EnterUsb(f)
  <2>1. WireType' /\ InOrder'
    <3>1. f \notin {Torn, BadPrefix} /\ "OK" \in Status
      BY <1>5 DEF EnterUsb, Torn, BadPrefix, Plain, Status
    <3>2. Write(Ack(f.cmd, "OK"))
      BY <1>5 DEF EnterUsb
    <3> QED
      BY <1>3, <3>1, <3>2
  <2>2. History' /\ log' \in Seq(LogEntry)
    BY <1>5, EmptyHistory DEF EnterUsb
  <2>3. SessionType' /\ suspended' = active'
    BY <1>5, <2>2 DEF EnterUsb, HandlerInv, SessionType
  <2> QED
    BY <2>1, <2>2, <2>3 DEF HandlerInv
<1>6. CASE ExitUsb(f)
  <2>1. WireType' /\ InOrder'
    <3>1. f \notin {Torn, BadPrefix} /\ "OK" \in Status
      BY <1>6 DEF ExitUsb, Torn, BadPrefix, Plain, Status
    <3>2. Write(Ack(f.cmd, "OK"))
      BY <1>6 DEF ExitUsb
    <3> QED
      BY <1>3, <3>1, <3>2
  <2>2. History' /\ log' \in Seq(LogEntry)
    BY <1>6, EmptyHistory DEF ExitUsb
  <2>3. SessionType' /\ suspended' = active'
    BY <1>6, <2>2 DEF ExitUsb, HandlerInv, SessionType
  <2> QED
    BY <2>1, <2>2, <2>3 DEF HandlerInv
<1>7. ASSUME f \in ExchangeFrame, Refuse(f) PROVE WireType' /\ InOrder'
  <2>1. out \in Sequence \cup {NoSeq}
    BY DEF HandlerInv, SessionType
  <2> QED
    BY <1>4, <1>7, <2>1 DEF Refuse
<1>8. ASSUME f \in ExchangeFrame, NEW source, Accept(f, log, source)
      PROVE  WireType' /\ InOrder'
  <2>1. f.seq \in Sequence
    BY <1>8 DEF ExchangeFrame
  <2> QED
    BY <1>4, <1>8, <2>1 DEF Accept
<1>9. ASSUME f \in ExchangeFrame, Write(Ack(f.cmd, "NOT_ACTIVE")) \/ Write(Ack(f.cmd, "SHORT_READ"))
      PROVE  WireType' /\ InOrder'
  <2>1. f \notin {Torn, BadPrefix}
    BY <1>9 DEF ExchangeFrame, Torn, BadPrefix, Plain
  <2>2. "NOT_ACTIVE" \in Status /\ "SHORT_READ" \in Status
    BY DEF Status
  <2> QED
    BY <1>3, <1>9, <2>1, <2>2
<1>10. CASE ExchangeUsb(f)
  <2>1. f \in ExchangeFrame
    BY <1>1, <1>10, ExchangeCommand DEF ExchangeUsb
  <2>2. /\ UNCHANGED <<active, usePhysicalAdc, hasPhysicalPots, suspended>>
        /\ SessionType /\ suspended = active /\ History
    BY <1>10 DEF ExchangeUsb, HandlerInv
  <2>3. CASE /\ Write(Ack(f.cmd, "NOT_ACTIVE")) \/ Write(Ack(f.cmd, "SHORT_READ"))
             /\ UNCHANGED <<hasLastSequence, lastProcessedSequence, out, log>>
    <3>1. History'
      BY <2>2, <2>3, SameHistory DEF SessionType
    <3> QED
      BY <1>9, <2>1, <2>2, <2>3, <3>1 DEF HandlerInv, SessionType
  <2>4. CASE Refuse(f)
    <3>1. History'
      BY <2>2, <2>4, SameHistory DEF SessionType, Refuse
    <3> QED
      BY <1>7, <2>1, <2>2, <2>4, <3>1 DEF HandlerInv, SessionType, Refuse
  <2>5. CASE active /\ InSequence(hasLastSequence, f.seq) /\ Accept(f, log, PotSource)
    <3>1. PotSource \in {"none", "injected", "physical"}
      BY DEF PotSource
    <3>2. SessionType' /\ History'
      BY <2>1, <2>2, <2>5, <3>1, AcceptKeepsHistory DEF SessionType
    <3> QED
      BY <1>8, <2>1, <2>2, <2>5, <3>2 DEF HandlerInv
  <2> QED
    BY <1>10, <2>3, <2>4, <2>5 DEF ExchangeUsb
<1>11. CASE LoopbackUsb(f)
  <2>1. f \in ExchangeFrame
    BY <1>1, <1>11, ExchangeCommand DEF LoopbackUsb
  <2>2. /\ SessionType /\ History
        /\ active' = TRUE /\ suspended' = TRUE
        /\ usePhysicalAdc' = (active /\ usePhysicalAdc)
        /\ hasPhysicalPots' = (active /\ hasPhysicalPots)
    BY <1>11 DEF LoopbackUsb, HandlerInv
  <2>3. /\ hasLastSequence => active
        /\ ~active => log = <<>>
    BY <2>2 DEF History, Baseline
  <2>4. /\ (active /\ hasLastSequence) = hasLastSequence
        /\ (IF active THEN log ELSE <<>>) = log
    BY <2>2, <2>3 DEF SessionType
  <2>5. log # <<>> => UNCHANGED <<usePhysicalAdc, hasPhysicalPots>>
    BY <2>2, <2>3 DEF SessionType
  <2>6. CASE /\ Write(Ack(f.cmd, "SHORT_READ"))
             /\ UNCHANGED <<hasLastSequence, lastProcessedSequence, out, log>>
    <3>1. History'
      BY <2>2, <2>5, <2>6, SameHistory DEF SessionType
    <3> QED
      BY <1>9, <2>1, <2>2, <2>6, <3>1 DEF HandlerInv, SessionType
  <2>7. CASE Refuse(f)
    <3>1. History'
      BY <2>2, <2>5, <2>7, SameHistory DEF SessionType, Refuse
    <3> QED
      BY <1>7, <2>1, <2>2, <2>7, <3>1 DEF HandlerInv, SessionType, Refuse
  <2>8. CASE InSequence(hasLastSequence, f.seq) /\ Accept(f, log, "none")
    <3>1. SessionType' /\ History'
      BY <2>1, <2>2, <2>5, <2>8, AcceptKeepsHistory DEF SessionType
    <3> QED
      BY <1>8, <2>1, <2>2, <2>8, <3>1 DEF HandlerInv
  <2> QED
    BY <1>11, <2>4, <2>6, <2>7, <2>8 DEF LoopbackUsb
<1>12. CASE OtherCommand(f)
  <2>1. f \notin {Torn, BadPrefix} /\ OtherStatus(f.cmd) \in Status /\ Write(Ack(f.cmd, OtherStatus(f.cmd)))
    BY <1>12 DEF OtherCommand, OtherFrame, Torn, BadPrefix, Plain, OtherStatus, Status
  <2>2. UNCHANGED neighbor /\ SessionType /\ suspended = active /\ History
    BY <1>12 DEF OtherCommand, HandlerInv
  <2>3. SessionType' /\ suspended' = active' /\ History'
    BY <2>2, SameHistory DEF neighbor, SessionType
  <2> QED
    BY <1>3, <2>1, <2>3 DEF HandlerInv
<1>13. CASE ReadTimeout(f)
  <2>1. /\ rx' = <<>> /\ tx' = tx /\ owed' = SubSeq(owed, 1, Len(tx))
        /\ UNCHANGED neighbor /\ SessionType /\ suspended = active /\ History
    BY <1>13 DEF ReadTimeout, HandlerInv
  <2>2. SessionType' /\ suspended' = active' /\ History'
    BY <2>1, SameHistory DEF neighbor, SessionType
  <2>3. /\ owed \in Seq(OnWire) /\ Len(tx) \in Nat /\ Len(rx) \in Nat
        /\ Len(owed) = Len(tx) + Len(rx)
    BY LenProperties DEF HandlerInv, WireType, InOrder, RepliesMatch
  <2>4. \A i \in 1 .. Len(tx) : owed[i] \in OnWire /\ Answers(owed[i], tx[i])
    BY <2>3, ElementOfSeq DEF HandlerInv, InOrder, RepliesMatch
  <2>5. /\ owed' \in Seq(OnWire) /\ Len(owed') = Len(tx)
        /\ \A i \in 1 .. Len(tx) : owed'[i] = owed[i]
    BY <2>1, <2>3, <2>4, SubSeqProperties
  <2>6. rx' \in Seq(OnWire) /\ Len(rx') = 0
    BY <2>1, EmptySeq
  <2>7. RepliesMatch'
    BY <2>1, <2>3, <2>4, <2>5, <2>6 DEF RepliesMatch, Answers
  <2>8. InOrder'
    BY <2>6, <2>7 DEF InOrder
  <2> QED
    BY <2>1, <2>2, <2>5, <2>6, <2>8 DEF HandlerInv, WireType
<1>14. CASE BadLength(f)
  <2>1. /\ WireType' /\ InOrder'
        /\ UNCHANGED neighbor /\ SessionType /\ suspended = active /\ History
    BY <1>14, UnansweredInOrder DEF BadLength, HandlerInv, WireType
  <2>2. SessionType' /\ suspended' = active' /\ History'
    BY <2>1, SameHistory DEF neighbor, SessionType
  <2> QED
    BY <2>1, <2>2 DEF HandlerInv
<1> QED
  BY <1>5, <1>6, <1>10, <1>11, <1>12, <1>13, <1>14 DEF Handle, f

-----------------------------------------------------------------------------
(***************************************************************************)
(* Steps.                                                                  *)
(***************************************************************************)
\* What the handlers rely on holds in every state of IInv, and the parts of
\* the state that they leave alone have their types.
LEMMA HandlerInvHolds ==
  ASSUME IInv PROVE HandlerInv
BY DEF IInv, TypeOK, AudioOwnership, HandlerInv, SessionType, WireType, OnWire

\* The way back: the handlers' invariant with the loops' agreement on the mode.
LEMMA HandlerInvSuffices ==
  ASSUME HandlerInv',
         pc' \in {"loop", "service", "burst", "idle", "realtime"},
         pc' = "realtime" => active', pc' \in {"service", "idle"} => ~active',
         physicalPots' \in Pot, sketchPots' \in Pot, i2sPeriods' \in {0, 1},
         hostUp' \in BOOLEAN
  PROVE  IInv'
BY DEF IInv, TypeOK, AudioOwnership, HandlerInv, SessionType, WireType, OnWire

\* A smoothed reading stays between the positions of the pot.
LEMMA PotsUpdateType ==
  ASSUME sketchPots \in Pot, PotsUpdate PROVE sketchPots' \in Pot
BY DEF PotsUpdate, Between

\* One loop calls the handlers, whichever it is.
LEMMA PollSafe ==
  ASSUME IInv, rx # <<>>, Handle(Head(rx)),
         pc' \in {"loop", "burst", "idle", "realtime"},
         pc' = "realtime" => active', pc' = "idle" => ~active',
         UNCHANGED <<pots, i2sPeriods, hostUp>>
  PROVE  IInv'
<1>1. HandlerInv'
  BY HandlerInvHolds, HandlerSafe DEF IInv
<1> QED
  BY <1>1, HandlerInvSuffices DEF IInv, TypeOK, pots

\* The device's loops.
LEMMA DeviceSafe ==
  ASSUME IInv, Device PROVE IInv'
<1>1. HandlerInv /\ TypeOK
  BY HandlerInvHolds DEF IInv
<1>2. ASSUME UNCHANGED <<neighbor, wire>> PROVE HandlerInv'
  BY <1>1, <1>2 DEF HandlerInv, SessionType, WireType, History, Baseline,
     AcceptedInSequence, Switched, ControlSource, InOrder, RepliesMatch, Answers,
     Next32, neighbor, wire
<1>3. CASE LoopActive
  <2>1. sketchPots' \in Pot /\ physicalPots' \in Pot
    BY <1>1, <1>3, PotsUpdateType DEF LoopActive, TypeOK, pots
  <2>2. /\ UNCHANGED <<active, usePhysicalAdc, hasLastSequence, lastProcessedSequence,
                       out, suspended, log, i2sPeriods, wire, hostUp>>
        /\ active /\ pc' = "realtime"
    BY <1>3 DEF LoopActive
  <2>3. hasPhysicalPots' = TRUE \/ hasPhysicalPots' = hasPhysicalPots
    BY <1>3 DEF LoopActive
  <2>4. hasPhysicalPots' \in BOOLEAN /\ (hasPhysicalPots => hasPhysicalPots')
    BY <1>1, <2>3 DEF TypeOK
  <2>5. History'
    BY <1>1, <2>2, <2>4, SameHistory DEF HandlerInv, SessionType
  <2>6. WireType' /\ InOrder'
    BY <1>1, <2>2 DEF HandlerInv, WireType, InOrder, RepliesMatch, Answers, wire
  <2>7. HandlerInv'
    BY <1>1, <2>2, <2>4, <2>5, <2>6 DEF HandlerInv, SessionType
  <2> QED
    BY <1>1, <2>1, <2>2, <2>7, HandlerInvSuffices DEF TypeOK
<1>4. CASE LoopInactive
  BY <1>1, <1>2, <1>4, HandlerInvSuffices DEF LoopInactive, TypeOK, neighbor, pots
<1>5. CASE RealtimePoll
  BY <1>5, PollSafe DEF RealtimePoll
<1>6. CASE ServicePoll
  BY <1>6, PollSafe DEF ServicePoll
<1>7. CASE ServiceQuiet
  BY <1>1, <1>2, <1>7, HandlerInvSuffices
  DEF ServiceQuiet, TypeOK, neighbor, pots, IInv, AudioOwnership
<1>8. CASE BurstPoll
  BY <1>8, PollSafe DEF BurstPoll
<1>9. CASE BurstEnd
  BY <1>1, <1>2, <1>9, HandlerInvSuffices DEF BurstEnd, TypeOK, neighbor, pots
<1>10. CASE Idle
  <2>1. sketchPots' \in Pot
    BY <1>1, <1>10, PotsUpdateType DEF Idle, TypeOK
  <2> QED
    BY <1>1, <1>2, <1>10, <2>1, HandlerInvSuffices DEF Idle, TypeOK, neighbor
<1> QED
  BY <1>3, <1>4, <1>5, <1>6, <1>7, <1>8, <1>9, <1>10 DEF Device

\* The host's steps: they touch the line only.
LEMMA HostSafe ==
  ASSUME IInv, Host PROVE IInv'
<1>1. /\ HandlerInv /\ TypeOK /\ WireType /\ InOrder
      /\ Len(owed) = Len(tx) + Len(rx) /\ Len(tx) \in Nat /\ Len(rx) \in Nat
  BY HandlerInvHolds, LenProperties DEF IInv, HandlerInv, WireType, InOrder, RepliesMatch
<1>2. UNCHANGED <<pc, neighbor, pots, i2sPeriods>> /\ hostUp' \in BOOLEAN
  BY <1>1 DEF Host, HostSend, HostReceive, HostCrash, HostReopen, TypeOK
<1>3. SessionType' /\ suspended' = active' /\ History'
  BY <1>1, <1>2, SameHistory DEF HandlerInv, SessionType, neighbor
<1>4. ASSUME WireType', InOrder' PROVE IInv'
  BY <1>1, <1>2, <1>3, <1>4, HandlerInvSuffices
  DEF HandlerInv, IInv, TypeOK, AudioOwnership, neighbor, pots
<1>5. ASSUME NEW f \in OnWire, rx' = Append(rx, f), owed' = Append(owed, f), tx' = tx
      PROVE  IInv'
  <2>1. /\ rx' \in Seq(OnWire) /\ owed' \in Seq(OnWire)
        /\ Len(rx') = Len(rx) + 1 /\ Len(owed') = Len(owed) + 1
        /\ \A i \in 1 .. Len(rx) : rx'[i] = rx[i]
        /\ \A i \in 1 .. Len(owed) : owed'[i] = owed[i]
        /\ rx'[Len(rx) + 1] = f /\ owed'[Len(owed) + 1] = f
    BY <1>1, <1>5, AppendProperties DEF WireType
  <2>2. \A i \in 1 .. Len(tx) : owed'[i] = owed[i] /\ Answers(owed[i], tx[i])
    BY <1>1, <2>1 DEF InOrder, RepliesMatch
  <2>3. RepliesMatch'
    <3>1. Len(owed') = Len(tx') + Len(rx')
      BY <1>1, <1>5, <2>1
    <3> QED
      BY <1>5, <2>2, <3>1 DEF RepliesMatch, Answers
  <2>4. ASSUME NEW i \in 1 .. Len(rx') PROVE owed'[Len(tx) + i] = rx'[i]
    <3>1. CASE i \in 1 .. Len(rx)
      <4>1. Len(tx) + i \in 1 .. Len(owed) /\ owed[Len(tx) + i] = rx[i]
        BY <1>1, <3>1 DEF InOrder
      <4> QED
        BY <2>1, <3>1, <4>1
    <3>2. CASE i = Len(rx) + 1
      <4>1. Len(tx) + i = Len(owed) + 1
        BY <1>1, <3>2
      <4> QED
        BY <2>1, <3>2, <4>1
    <3> QED
      BY <1>1, <2>1, <3>1, <3>2
  <2> QED
    BY <1>1, <1>4, <1>5, <2>1, <2>3, <2>4 DEF WireType, InOrder
<1>6. CASE \E f \in Offered : HostSend(f)
  BY <1>5, <1>6, OfferedAssumption DEF HostSend, OnWire
<1>7. CASE HostReceive
  <2>1. /\ tx # <<>> /\ Len(tx) \in Nat \ {0} /\ owed # <<>>
        /\ tx' = Tail(tx) /\ owed' = Tail(owed) /\ rx' = rx
    BY <1>1, <1>7, EmptySeq DEF HostReceive, WireType
  <2>2. /\ tx' \in Seq(Reply) /\ owed' \in Seq(OnWire)
        /\ Len(tx') = Len(tx) - 1 /\ Len(owed') = Len(owed) - 1
        /\ \A i \in 1 .. Len(tx) - 1 : tx'[i] = tx[i + 1]
        /\ \A i \in 1 .. Len(owed) - 1 : owed'[i] = owed[i + 1]
    BY <1>1, <2>1, HeadTailProperties DEF WireType
  <2>3. ASSUME NEW i \in 1 .. Len(tx') PROVE Answers(owed'[i], tx'[i])
    <3>1. /\ i \in 1 .. Len(tx) - 1 /\ i \in 1 .. Len(owed) - 1
          /\ i + 1 \in 1 .. Len(tx)
      BY <1>1, <2>1, <2>2
    <3> QED
      BY <1>1, <2>2, <3>1 DEF InOrder, RepliesMatch
  <2>4. ASSUME NEW i \in 1 .. Len(rx) PROVE owed'[Len(tx') + i] = rx[i]
    <3>1. /\ Len(tx') + i \in 1 .. Len(owed) - 1
          /\ (Len(tx') + i) + 1 = Len(tx) + i
      BY <1>1, <2>1, <2>2
    <3>2. owed'[Len(tx') + i] = owed[Len(tx) + i]
      BY <2>2, <3>1
    <3> QED
      BY <1>1, <3>2 DEF InOrder
  <2>5. Len(owed') = Len(tx') + Len(rx')
    BY <1>1, <2>1, <2>2
  <2>6. RepliesMatch'
    BY <2>3, <2>5 DEF RepliesMatch, Answers
  <2> QED
    BY <1>1, <1>4, <2>1, <2>2, <2>4, <2>6 DEF WireType, InOrder
<1>8. CASE HostCrash
  <2>1. CASE UNCHANGED <<rx, owed>>
    BY <1>1, <1>4, <1>8, <2>1 DEF HostCrash, WireType, InOrder, RepliesMatch, Answers
  <2>2. CASE rx' = Append(rx, Torn) /\ owed' = Append(owed, Torn)
    BY <1>5, <1>8, <2>2 DEF HostCrash, OnWire
  <2> QED
    BY <1>8, <2>1, <2>2 DEF HostCrash
<1>9. CASE HostReopen
  <2>1. tx' = <<>> /\ owed' = rx /\ rx' = rx /\ Len(tx') = 0
    BY <1>9, EmptySeq DEF HostReopen
  <2>2. WireType'
    BY <1>1, <2>1, EmptySeq DEF WireType
  <2>3. RepliesMatch' /\ \A i \in 1 .. Len(rx') : owed'[Len(tx') + i] = rx'[i]
    BY <1>1, <2>1 DEF RepliesMatch
  <2> QED
    BY <1>4, <2>2, <2>3 DEF InOrder
<1> QED
  BY <1>6, <1>7, <1>8, <1>9 DEF Host

-----------------------------------------------------------------------------
(***************************************************************************)
(* Theorems.                                                               *)
(***************************************************************************)
LEMMA InitSafe ==
  ASSUME Init PROVE IInv
<1>1. 0 \in Sequence /\ 0 \in Pot
  BY UsbNeighborAssumption DEF Sequence, Pot
<1>2. TypeOK
  BY <1>1, EmptySeq DEF Init, TypeOK
<1>3. Len(<<>>) = 0
  BY EmptySeq
<1>4. History /\ InOrder
  BY <1>3 DEF Init, History, Baseline, AcceptedInSequence, Switched, ControlSource,
     InOrder, RepliesMatch
<1> QED
  BY <1>2, <1>4 DEF Init, IInv, AudioOwnership

\* Every step preserves the invariant.
LEMMA StepSafe ==
  ASSUME IInv, [Next]_vars PROVE IInv'
<1>1. CASE Next
  BY <1>1, DeviceSafe, HostSafe DEF Next
<1>2. CASE UNCHANGED vars
  BY <1>2 DEF vars, neighbor, pots, wire, IInv, TypeOK, AudioOwnership, History,
     Baseline, AcceptedInSequence, Switched, ControlSource, InOrder, RepliesMatch,
     Answers, Next32
<1> QED
  BY <1>1, <1>2

\* The inductive invariant: types, who drives the audio, the session's history
\* and the pairing of frames and replies, which no one of them is without the
\* others.
THEOREM Invariance == Spec => []IInv
<1>1. Init => IInv
  BY InitSafe
<1>2. IInv /\ [Next]_vars => IInv'
  BY StepSafe
<1> QED
  BY <1>1, <1>2, PTL DEF Spec

\* Every variable of the device and of the line keeps its type, with any number
\* of frames in flight.
THEOREM TypeCorrect == Spec => []TypeOK
<1>1. IInv => TypeOK
  BY DEF IInv
<1> QED
  BY <1>1, Invariance, PTL

\* Replies pair up with requests in order, whatever the host sends, whenever it
\* reads, dies and comes back: what the host's first-in first-out matching of
\* answers rests on.
THEOREM RepliesCorrect == Spec => []RepliesMatch
<1>1. IInv => RepliesMatch
  BY DEF IInv, InOrder
<1> QED
  BY <1>1, Invariance, PTL

\* The sequence check of the neighbor lets no exchange through twice and none
\* be skipped within a session, for sequences of any width.
THEOREM SequenceCorrect == Spec => []AcceptedInSequence
<1>1. IInv => AcceptedInSequence
  BY DEF IInv, History
<1> QED
  BY <1>1, Invariance, PTL

\* The I2S channels are suspended exactly while the neighbor mode is on, and
\* the loop the sketch is in agrees with the mode.
THEOREM OwnershipCorrect == Spec => []AudioOwnership
<1>1. IInv => AudioOwnership
  BY DEF IInv
<1> QED
  BY <1>1, Invariance, PTL

\* Once a session has used a physical reading it never uses the request's
\* controls again.
THEOREM ControlCorrect == Spec => []ControlSource
<1>1. IInv => ControlSource
  BY DEF IInv, History
<1> QED
  BY <1>1, Invariance, PTL

-----------------------------------------------------------------------------
(***************************************************************************)
(* What a step may not do.                                                 *)
(***************************************************************************)
Applied ==
  /\ Len(tx') > Len(tx) =>
       (Len(log') > Len(log) <=> Accepted(tx'[Len(tx')]))
  /\ Len(log') > Len(log) => suspended'
  /\ i2sPeriods' # i2sPeriods => ~active

Gap ==
  Len(tx') > Len(tx) /\ tx'[Len(tx')].status = "SEQ_GAP" =>
    /\ active
    /\ log # <<>>
    /\ tx'[Len(tx')].seq # Next32(log[Len(log)].seq)

\* The reply of a handler, if there is room for it, is the last one.
LEMMA WriteLast ==
  ASSUME NEW r \in Reply, Write(r), tx \in Seq(Reply), Len(tx') > Len(tx)
  PROVE  tx'[Len(tx')] = r
<1>1. tx' = Append(tx, r)
  BY DEF Write
<1> QED
  BY <1>1, AppendProperties

\* Steps that write no reply and extend no history.
LEMMA SilentStep ==
  ASSUME IInv, Len(tx') <= Len(tx), tx' \in Seq(Reply), UNCHANGED log,
         i2sPeriods' = i2sPeriods \/ ~active
  PROVE  Applied /\ Gap
<1>1. Len(tx) \in Nat /\ Len(tx') \in Nat /\ Len(log) \in Nat
  BY LenProperties DEF IInv, TypeOK
<1> QED
  BY <1>1 DEF Applied, Gap

\* Every handler satisfies both.
LEMMA HandlerAnswers ==
  ASSUME IInv, rx # <<>>, Handle(Head(rx)), UNCHANGED i2sPeriods
  PROVE  Applied /\ Gap
<1> DEFINE f == Head(rx)
<1>1. /\ f \in OnWire /\ tx \in Seq(Reply) /\ log \in Seq(LogEntry)
      /\ Len(log) \in Nat /\ Len(tx) \in Nat /\ out \in Sequence \cup {NoSeq}
      /\ Len(<<>>) = 0
  BY HeadTailProperties, LenProperties, EmptySeq DEF IInv, TypeOK, OnWire
<1> HIDE DEF f
<1>2. ASSUME f \notin {Torn, BadPrefix}, NEW status \in Status \ {"SEQ_GAP"}, Write(Ack(f.cmd, status)),
             log' = log \/ log' = <<>>
      PROVE  Applied /\ Gap
  <2>1. Ack(f.cmd, status) \in Reply
    BY <1>1, <1>2, AckAnswers DEF OnWire, Frame
  <2>2. ~(Len(log') > Len(log))
    BY <1>1, <1>2
  <2>3. Len(tx') > Len(tx) => tx'[Len(tx')] = Ack(f.cmd, status)
    BY <1>1, <1>2, <2>1, WriteLast
  <2> QED
    BY <1>2, <2>2, <2>3 DEF Applied, Gap, Ack, Accepted
<1>3. ASSUME f \in ExchangeFrame, Refuse(f), ~InSequence(hasLastSequence, f.seq)
      PROVE  Applied /\ Gap
  <2>1. Response(f.cmd, f.seq, "SEQ_GAP", out) \in Reply
    BY <1>1, <1>3, ResponseAnswers
  <2>2. Len(tx') > Len(tx) =>
          tx'[Len(tx')] = Response(f.cmd, f.seq, "SEQ_GAP", out)
    BY <1>1, <1>3, <2>1, WriteLast DEF Refuse
  <2>3. log' = log /\ ~(Len(log') > Len(log))
    BY <1>1, <1>3 DEF Refuse
  <2>4. active /\ log # <<>> /\ f.seq # Next32(log[Len(log)].seq)
    BY <1>3 DEF InSequence, IInv, History, Baseline
  <2> QED
    BY <2>2, <2>3, <2>4 DEF Applied, Gap, Response, Accepted
<1>4. ASSUME f \in ExchangeFrame, NEW source \in {"none", "injected", "physical"},
             Accept(f, log, source), suspended'
      PROVE  Applied /\ Gap
  <2>1. f.seq \in Sequence /\ [seq |-> f.seq, cmd |-> f.cmd, pots |-> source] \in LogEntry
    BY <1>4 DEF ExchangeFrame, LogEntry
  <2>2. Response(f.cmd, f.seq, "OK", f.seq) \in Reply
    BY <1>4, <2>1, ResponseAnswers
  <2>3. Len(tx') > Len(tx) => tx'[Len(tx')] = Response(f.cmd, f.seq, "OK", f.seq)
    BY <1>1, <1>4, <2>2, WriteLast DEF Accept
  <2>4. Len(log') > Len(log)
    BY <1>1, <1>4, <2>1, AppendProperties DEF Accept
  <2> QED
    BY <1>4, <2>3, <2>4 DEF Applied, Gap, Response, Accepted
<1>5. CASE EnterUsb(f)
  BY <1>2, <1>5 DEF EnterUsb, Torn, BadPrefix, Plain, Status
<1>6. CASE ExitUsb(f)
  BY <1>2, <1>6 DEF ExitUsb, Torn, BadPrefix, Plain, Status
<1>7. CASE ExchangeUsb(f)
  <2>1. f \in ExchangeFrame
    BY <1>1, <1>7, ExchangeCommand DEF ExchangeUsb
  <2>2. f \notin {Torn, BadPrefix} /\ "NOT_ACTIVE" \in Status \ {"SEQ_GAP"}
                 /\ "SHORT_READ" \in Status \ {"SEQ_GAP"}
    BY <2>1 DEF ExchangeFrame, Torn, BadPrefix, Plain, Status
  <2>3. active => suspended'
    BY <1>7 DEF ExchangeUsb, IInv, AudioOwnership
  <2>4. PotSource \in {"none", "injected", "physical"}
    BY DEF PotSource
  <2> QED
    BY <1>2, <1>3, <1>4, <1>7, <2>1, <2>2, <2>3, <2>4 DEF ExchangeUsb
<1>8. CASE LoopbackUsb(f)
  <2>1. f \in ExchangeFrame
    BY <1>1, <1>8, ExchangeCommand DEF LoopbackUsb
  <2>2. f \notin {Torn, BadPrefix} /\ "SHORT_READ" \in Status \ {"SEQ_GAP"}
    BY <2>1 DEF ExchangeFrame, Torn, BadPrefix, Plain, Status
  <2>3. /\ (active /\ hasLastSequence) = hasLastSequence
        /\ (IF active THEN log ELSE <<>>) = log
    BY DEF IInv, TypeOK, History, Baseline
  <2> QED
    BY <1>2, <1>3, <1>4, <1>8, <2>1, <2>2, <2>3 DEF LoopbackUsb
<1>9. CASE OtherCommand(f)
  <2>1. f \notin {Torn, BadPrefix} /\ OtherStatus(f.cmd) \in Status \ {"SEQ_GAP"} /\ log' = log
        /\ Write(Ack(f.cmd, OtherStatus(f.cmd)))
    BY <1>9 DEF OtherCommand, OtherFrame, Torn, BadPrefix, Plain, OtherStatus, Status, neighbor
  <2> QED
    BY <1>2, <2>1
<1>10. CASE ReadTimeout(f)
  BY <1>1, <1>10, SilentStep DEF ReadTimeout, neighbor
<1>11. CASE BadLength(f)
  BY <1>1, <1>11, SilentStep DEF BadLength, neighbor
<1> QED
  BY <1>5, <1>6, <1>7, <1>8, <1>9, <1>10, <1>11 DEF Handle, f

\* And so does every step of the device and the host.
LEMMA StepAnswers ==
  ASSUME IInv, [Next]_vars PROVE Applied /\ Gap
<1>1. /\ tx \in Seq(Reply) /\ Len(tx) \in Nat
  BY LenProperties DEF IInv, TypeOK
<1>2. ASSUME UNCHANGED <<neighbor, tx, i2sPeriods>> PROVE Applied /\ Gap
  BY <1>1, <1>2, SilentStep DEF neighbor
<1>3. CASE LoopActive
  BY <1>1, <1>3, SilentStep DEF LoopActive, wire
<1>4. CASE LoopInactive \/ ServiceQuiet \/ BurstEnd
  BY <1>2, <1>4 DEF LoopInactive, ServiceQuiet, BurstEnd, wire
<1>5. CASE RealtimePoll \/ ServicePoll \/ BurstPoll
  BY <1>5, HandlerAnswers DEF RealtimePoll, ServicePoll, BurstPoll
<1>6. CASE Idle
  <2>1. ~active
    BY <1>6 DEF Idle, IInv, AudioOwnership
  <2> QED
    BY <1>1, <1>6, <2>1, SilentStep DEF Idle, neighbor, wire
<1>7. CASE (\E f \in Offered : HostSend(f)) \/ HostCrash
  BY <1>2, <1>7 DEF HostSend, HostCrash
<1>8. CASE HostReceive
  BY <1>1, <1>8, SilentStep, HeadTailProperties DEF HostReceive, neighbor
<1>9. CASE HostReopen
  BY <1>1, <1>9, SilentStep, EmptySeq DEF HostReopen, neighbor
<1>10. CASE UNCHANGED vars
  BY <1>2, <1>10 DEF vars, wire
<1> QED
  BY <1>3, <1>4, <1>5, <1>6, <1>7, <1>8, <1>9, <1>10 DEF Next, Device, Host

\* An exchange is applied exactly when the host is told so, never while the
\* I2S channels run, and the module serves one of the two at a time.
THEOREM AppliedCorrect == Spec => AppliedIffOk
<1>1. IInv /\ [Next]_vars => Applied
  BY StepAnswers
<1> QED
  BY <1>1, Invariance, PTL DEF Spec, AppliedIffOk, Applied

\* A sequence gap is reported only within a session that has a baseline, and
\* only for a sequence that is not the successor of the last accepted one.
THEOREM GapCorrect == Spec => GapNeedsBaseline
<1>1. IInv /\ [Next]_vars => Gap
  BY StepAnswers
<1> QED
  BY <1>1, Invariance, PTL DEF Spec, GapNeedsBaseline, Gap

=============================================================================
