----------------------------- MODULE FrameLink -----------------------------
(***************************************************************************)
(* One host program and the device on a serial line, byte for byte: the    *)
(* page over Web Serial (web-serial-transport.js with its frame reader),   *)
(* the realtime tools (usb-transport.js), the bridge server's exchange     *)
(* (usb-relay.js has the same reader) and the offline tools                *)
(* (serial-transport.js).  Answers arrive in chunks of any size; bytes     *)
(* that belong to no frame, a silent device and reads that give up are     *)
(* part of it.                                                             *)
(***************************************************************************)
EXTENDS FrameProtocol, FiniteSets, FiniteSetsExt, SequencesExt

CONSTANTS
  MaxInner,   \* MAX_WIRE_INNER_BYTES, between 256 acks and 256 answers as in the code
  MaxOps,     \* bound: commands and exchanges
  Mishaps,    \* bound: bytes outside of frames and requests without an answer
  Cuts,       \* bound: chunks that leave bytes behind
  Lates,      \* bound: reads that give up
  Bads        \* bound: exchanges the device flags or refuses

MAX_INT == 2147483647

\* The readers accept the longest answer, and numbers and lengths fit into their four bytes.
ASSUME LinkAssumption ==
  /\ {MaxInner, MaxOps, Mishaps, Cuts, Lates, Bads} \subseteq Nat
  /\ StatusAt + 18 <= MaxInner /\ MaxInner <= MAX_INT /\ MaxOps <= MAX_INT

VARIABLES
  host,       \* which program
  session,    \* "closed", "entered", "active", "lost" or "over"
  ops,        \* commands and exchanges so far
  requests,   \* requests the device has not looked at
  said,       \* what the device has answered to each operation
  line,       \* bytes on the way to the host
  reader,     \* the buffer, the address it begins at, and the operations that wait
  left,       \* what the bounds leave
  trouble     \* history: what has gone wrong on the line

vars == <<host, session, ops, requests, said, line, reader, left, trouble>>

Hosts == {"webserial", "bridge", "realtime", "offline"}
Nothing == [command |-> -2]

Op(kind, at) == [kind |-> kind, at |-> at, result |-> Nothing]
Number(i) == i - 1
\* Stands for deterministicPattern: samples that tell the exchanges and the two directions apart.
PeriodOf(i) == [down |-> [j \in 1 .. BufferLen |-> (i + j) % 32768],
                up |-> [j \in 1 .. BufferLen |-> (300 + i) % 32768]]

TypeOK ==
  /\ host \in Hosts /\ session \in {"closed", "entered", "active", "lost", "over"}
  /\ Len(ops) <= MaxOps
  /\ \A i \in DOMAIN ops :
       /\ ops[i].kind \in {"enter", "query", "exchange", "exit"}
       /\ ops[i].at \in {"writing", "reading", "done", "failed"}
  /\ line \in Seq(0 .. 255) /\ reader.buffer \in Seq(0 .. 255) /\ reader.address \in Nat
  /\ \A k \in DOMAIN reader.waiters : reader.waiters[k] \in DOMAIN ops
  /\ "stale" \notin trouble =>
       /\ Len(reader.waiters) <= (IF host = "webserial" THEN 3 ELSE 1)
       /\ Cardinality({k \in DOMAIN reader.waiters : ops[reader.waiters[k]].kind = "exchange"}) <= 2
  /\ left \in [mishap : 0 .. Mishaps, cut : 0 .. Cuts, late : 0 .. Lates, bad : 0 .. Bads]
  /\ trouble \subseteq {"noise", "silent", "early", "late", "stale"}

Init ==
  /\ host \in Hosts /\ session = "closed" /\ ops = <<>> /\ requests = <<>> /\ said = <<>>
  /\ line = <<>> /\ reader = [buffer |-> <<>>, address |-> 0, waiters |-> <<>>]
  /\ left = [mishap |-> Mishaps, cut |-> Cuts, late |-> Lates, bad |-> Bads]
  /\ trouble = {}

-----------------------------------------------------------------------------
(***************************************************************************)
(* The frame readers.                                                      *)
(***************************************************************************)
\* tryTake: skips bytes that cannot begin a frame; [skip, frame] or no frame yet.
BadPrefix(bytes) == Get32(bytes, 0) = 0 \/ Get32(bytes, 0) > MaxInner
Skipped(bytes) ==
  LET Stops(k) == Len(bytes) - k < PREFIX \/ ~BadPrefix(SubSeq(bytes, k + 1, Len(bytes)))
  IN  CHOOSE k \in 0 .. Len(bytes) : Stops(k) /\ \A j \in 0 .. k - 1 : ~Stops(j)

\* Mutant: the frame is handed on with its prefix.
FaultyTryTake(r) ==
  LET k == Skipped(r.buffer)
      bytes == SubSeq(r.buffer, k + 1, Len(r.buffer))
      total == PREFIX + Get32(bytes, 0)
      rest == [r EXCEPT !.buffer = bytes, !.address = @ + k]
  IN  IF Len(bytes) < PREFIX \/ Len(bytes) < total
        THEN [taken |-> FALSE, reader |-> rest]
        ELSE [taken |-> TRUE, inner |-> SubSeq(bytes, 1, total),
              address |-> rest.address + PREFIX,
              reader |-> [rest EXCEPT !.buffer = SubSeq(bytes, total + 1, Len(bytes)),
                                      !.address = @ + total]]

TryTake(r) ==
  LET k == Skipped(r.buffer)
      bytes == SubSeq(r.buffer, k + 1, Len(r.buffer))
      total == PREFIX + Get32(bytes, 0)
      rest == [r EXCEPT !.buffer = bytes, !.address = @ + k]
  IN  IF Len(bytes) < PREFIX \/ Len(bytes) < total
        THEN [taken |-> FALSE, reader |-> rest]
        ELSE [taken |-> TRUE, inner |-> SubSeq(bytes, PREFIX + 1, total),
              address |-> rest.address + PREFIX,
              reader |-> [rest EXCEPT !.buffer = SubSeq(bytes, total + 1, Len(bytes)),
                                      !.address = @ + total]]

\* What taking n frames in a row gives: the frames and the reader after them.
Takes(r, n) ==
  LET take[k \in 0 .. n] ==
        IF k = 0 THEN [frames |-> <<>>, reader |-> r, more |-> TRUE]
        ELSE LET before == take[k - 1]
                 t == TryTake(before.reader)
             IN  IF ~before.more THEN before
                 ELSE [frames |-> IF t.taken THEN Append(before.frames, t) ELSE before.frames,
                       reader |-> t.reader, more |-> t.taken]
  IN  take[n]

\* flushWaiters of the page takes a frame before it looks whether anybody waits, and one more
\* behind the last waiter; that of the tools looks first.
WebFlush(r) == Takes(r, Len(r.waiters) + 1)
RealtimeFlush(r) == IF r.waiters = <<>> THEN Takes(r, 0) ELSE Takes(r, Len(r.waiters) + 1)
Flush(r) == IF host = "webserial" THEN WebFlush(r) ELSE RealtimeFlush(r)

\* readSyncedFrame of the offline tools: from the magic number on, as many bytes as asked for.
Wanted(i) == IF ops[i].kind = "exchange" THEN OFFLINE_SIZE ELSE ACK_SIZE
MagicAt(bytes) == {k \in 0 .. Len(bytes) - 4 : SubSeq(bytes, k + 1, k + 4) = Put32(MAGIC)}
OfflineExtract(r, i) ==
  LET k == IF MagicAt(r.buffer) = {} THEN Max({0, Len(r.buffer) - 3}) ELSE Min(MagicAt(r.buffer))
      bytes == SubSeq(r.buffer, k + 1, Len(r.buffer))
      rest == [r EXCEPT !.buffer = bytes, !.address = @ + k]
  IN  IF MagicAt(r.buffer) = {} \/ Len(bytes) < Wanted(i)
        THEN [frames |-> <<>>, reader |-> rest]
        ELSE [frames |-> <<[inner |-> SubSeq(bytes, 1, Wanted(i)), address |-> rest.address]>>,
              reader |-> [rest EXCEPT !.buffer = <<>>]]

-----------------------------------------------------------------------------
(***************************************************************************)
(* What an answer does to the operation that reads it.                     *)
(***************************************************************************)
Response(inner, address) ==
  CASE host = "webserial" -> HostResponse(inner, address)
    [] host = "bridge"    -> BridgeResponse(inner, address)
    [] host = "realtime"  -> RealtimeResponse(inner, address)
    [] OTHER              -> OfflineResponse(inner, address)

StatusIsOk(status) ==
  CASE host = "webserial" -> HostStatusIsOk(status)
    [] host = "bridge"    -> BridgeStatusIsOk(status)
    [] host = "realtime"  -> RealtimeStatusIsOk(status)
    [] OTHER              -> OfflineStatusIsOk(status)

Read(kind, f) == IF kind = "exchange" THEN Response(f.inner, f.address) ELSE Ack(f.inner)
Accepted(kind, result) ==
  result # Refused /\ IF kind = "exchange" THEN StatusIsOk(result.status) ELSE result.status = OK

\* An operation that was given up already takes no notice of its answer.  Over Web Serial
\* the code hands it to the oldest exchange that is still pending, and a bad status in it
\* is another link loss.  That is left out: after trouble "stale", which this takes, no
\* property says anything of results.
Settle(op, f) ==
  IF op.at # "reading" THEN op
  ELSE [op EXCEPT !.at = IF Accepted(op.kind, Read(op.kind, f)) THEN "done" ELSE "failed",
                  !.result = Read(op.kind, f)]

\* Web Serial gives up every exchange at the first one that fails (link loss) and when its
\* session is stopped; their waiters stay in the reader.
Web == host = "webserial"
Just(o, kind, at) ==
  \E i \in DOMAIN o :
    o[i].kind = kind /\ o[i].at = at /\ (i \in DOMAIN ops => ops[i].at \in {"writing", "reading"})
Lost(o) == Web /\ Just(o, "exchange", "failed")
Exited(o) == Just(o, "exit", "done") \/ Just(o, "exit", "failed")
GivenUp(o) ==
  [i \in DOMAIN o |-> IF (Lost(o) \/ (Web /\ Exited(o))) /\ o[i].kind = "exchange" /\ o[i].at = "reading"
                      THEN [o[i] EXCEPT !.at = "failed"] ELSE o[i]]

\* The bridge server goes on without a module kind and after a failed exchange; the realtime
\* tools leave the exchanges and still send EXIT; the offline tools end at any failure.
Session(o) ==
  CASE Exited(o)                                                         -> "over"
    [] Lost(o) \/ (Web /\ (Just(o, "enter", "failed") \/ Just(o, "query", "failed")))
         \/ (host = "realtime" /\ Just(o, "exchange", "failed"))         -> "lost"
    [] Just(o, "enter", "failed") \/ (host = "offline" /\ Just(o, "exchange", "failed")) -> "over"
    [] Just(o, "query", "done") \/ Just(o, "query", "failed")            -> "active"
    [] Just(o, "enter", "done") -> IF host \in {"webserial", "bridge"} THEN "entered" ELSE "active"
    [] OTHER                                                             -> session

Cleared(r) == [r EXCEPT !.buffer = <<>>, !.address = 0]
Stale(o, r) == \E k \in DOMAIN r.waiters : o[r.waiters[k]].at # "reading"

\* What follows when operations have ended as in o and the reader is left as r.
Ended(o, r) ==
  /\ ops' = GivenUp(o) /\ session' = Session(o)
  /\ reader' = IF Exited(o) /\ host \in {"bridge", "realtime"} THEN Cleared(r) ELSE r

\* The frames go to the waiters in turn; those behind the last waiter are gone.
Hand(r, frames) ==
  LET n == Min({Len(frames), Len(r.waiters)})
      o == [i \in DOMAIN ops |->
              LET k == {j \in 1 .. n : r.waiters[j] = i}
              IN  IF k = {} THEN ops[i] ELSE Settle(ops[i], frames[Min(k)])]
      after == [r EXCEPT !.waiters = SubSeq(@, n + 1, Len(@))]
  IN  /\ Ended(o, after)
      /\ trouble' = trouble \cup (IF Len(frames) > n THEN {"early"} ELSE {})
                            \cup (IF Stale(GivenUp(o), after) THEN {"stale"} ELSE {})

-----------------------------------------------------------------------------
(***************************************************************************)
(* The host: its operations, one after the other except that Web Serial    *)
(* has two exchanges in flight, and EXIT at any time.                      *)
(***************************************************************************)
Pending == {i \in DOMAIN ops : ops[i].at \in {"writing", "reading"}}
Commands == {i \in Pending : ops[i].kind # "exchange"}

InFlight == Cardinality(Pending \ Commands)

\* Mutant: one exchange too many in flight.
FaultyWebMay(kind) ==
  CASE kind = "enter"    -> Commands = {} /\ session \in {"closed", "lost"}
    [] kind = "query"    -> Commands = {} /\ session = "entered"
    [] kind = "exchange" -> Commands = {} /\ session = "active" /\ InFlight <= 2
    [] kind = "exit"     -> Commands = {} /\ session \in {"active", "lost"}

\* The page: startSession also reconnects, stopSession comes at any time after the adapter has
\* stopped asking (hardwareAdapter.stop comes first), relayExchange keeps maxInFlight.
WebMay(kind) ==
  CASE kind = "enter"    -> Commands = {} /\ session \in {"closed", "lost"}
    [] kind = "query"    -> Commands = {} /\ session = "entered"
    [] kind = "exchange" -> Commands = {} /\ session = "active" /\ InFlight < 2
    [] kind = "exit"     -> Commands = {} /\ session \in {"active", "lost"}

\* The bridge server relays one request at a time.
BridgeMay(kind) ==
  CASE kind = "enter" -> session = "closed"
    [] kind = "query" -> session = "entered"
    [] OTHER          -> session = "active"

\* acceptance.mjs: after a failed exchange it only leaves the mode.
RealtimeMay(kind) ==
  CASE kind = "enter"    -> session = "closed"
    [] kind = "exchange" -> session = "active"
    [] kind = "exit"     -> session \in {"active", "lost"}
    [] OTHER             -> FALSE

\* harness.mjs: a failure goes to the end, without EXIT.
OfflineMay(kind) ==
  CASE kind = "enter"               -> session = "closed"
    [] kind \in {"exchange", "exit"} -> session = "active"
    [] OTHER                        -> FALSE

MayBegin(kind) ==
  IF Web THEN WebMay(kind)
  ELSE Pending = {} /\ CASE host = "bridge" -> BridgeMay(kind) [] host = "realtime" -> RealtimeMay(kind)
                         [] OTHER -> OfflineMay(kind)

Offline == host = "offline"
HostFrame(kind, i) ==
  CASE kind = "enter" -> HostEnter [] kind = "query" -> HostQuery [] kind = "exit" -> HostExit
    [] OTHER -> HostExchange(Number(i), PeriodOf(i))
BridgeFrame(kind, i) ==
  CASE kind = "enter" -> BridgeEnter(1) [] kind = "query" -> BridgeQuery [] kind = "exit" -> BridgeExit
    [] OTHER -> BridgeExchange(Number(i), PeriodOf(i), HALF, HALF)
RealtimeFrame(kind, i) ==
  CASE kind = "enter" -> RealtimeEnter [] kind = "exit" -> RealtimeExit
    [] OTHER -> RealtimeExchange(19, Number(i), PeriodOf(i))
OfflineFrame(kind, i) ==
  CASE kind = "enter" -> OfflineEnter [] kind = "exit" -> OfflineExit
    [] OTHER -> OfflineExchange(3, Number(i), PeriodOf(i))
Bytes(kind, i) ==
  CASE Web -> HostFrame(kind, i) [] host = "bridge" -> BridgeFrame(kind, i)
    [] host = "realtime" -> RealtimeFrame(kind, i) [] OTHER -> OfflineFrame(kind, i)

\* readFrame: a frame that is already whole is taken at once, otherwise the operation waits.
\* readSyncedFrame of the offline tools begins with an empty buffer.
ReadFrame(i, o, r) ==
  LET t == TryTake(r)
      reading == [o EXCEPT ![i].at = "reading"]
  IN  IF Offline \/ ~t.taken
        THEN Ended(reading, [(IF Offline THEN Cleared(r) ELSE t.reader) EXCEPT !.waiters = Append(@, i)])
        ELSE Ended([reading EXCEPT ![i] = Settle(@, t)], t.reader)

\* The write goes out; enter empties the reader first.  A Web Serial exchange writes and reads
\* at once, everything else reads when the write has returned.
Begin(kind) ==
  /\ MayBegin(kind) /\ Len(ops) < MaxOps
  /\ LET i == Len(ops) + 1
         begun == Append(ops, Op(kind, "writing"))
     IN  /\ requests' = Append(requests, [op |-> i, bytes |-> Bytes(kind, i)])
         /\ said' = Append(said, Nothing)
         /\ IF Web /\ kind = "exchange" THEN ReadFrame(i, begun, reader)
            ELSE /\ ops' = begun /\ UNCHANGED session
                 /\ reader' = IF kind = "enter" THEN Cleared(reader) ELSE reader
  /\ UNCHANGED <<host, line, left, trouble>>

Written(i) ==
  /\ ops[i].at = "writing" /\ ReadFrame(i, ops, reader)
  /\ UNCHANGED <<host, requests, said, line, left, trouble>>

\* A read gives up: its waiter goes; the readers of the tools are emptied for it.
WebTimeout(r, i) == [r EXCEPT !.waiters = RemoveFirst(@, i)]
ToolTimeout(r, i) == Cleared(WebTimeout(r, i))
Timeout(i) ==
  /\ ops[i].at = "reading" /\ left.late > 0
  /\ left' = [left EXCEPT !.late = @ - 1]
  /\ LET r == IF Web THEN WebTimeout(reader, i) ELSE ToolTimeout(reader, i)
         o == [ops EXCEPT ![i].at = "failed"]
     IN  /\ Ended(o, r)
         /\ trouble' = trouble \cup {"late"} \cup (IF Stale(GivenUp(o), r) THEN {"stale"} ELSE {})
  /\ UNCHANGED <<host, requests, said, line>>

\* The timer of a read whose operation was given up.
StaleTimeout(i) ==
  /\ ops[i].at = "failed" /\ i \in ToSet(reader.waiters)
  /\ reader' = WebTimeout(reader, i)
  /\ UNCHANGED <<host, session, ops, requests, said, line, left, trouble>>

\* Mutant: the chunk replaces what the buffer holds.
FaultyDeliver(n) ==
  /\ n < Len(line) => left.cut > 0
  /\ line' = SubSeq(line, n + 1, Len(line))
  /\ left' = IF n < Len(line) THEN [left EXCEPT !.cut = @ - 1] ELSE left
  /\ LET r == [reader EXCEPT !.buffer = SubSeq(line, 1, n), !.address = 0]
         f == IF Offline THEN OfflineExtract(r, reader.waiters[1]) ELSE Flush(r)
     IN  IF Offline /\ reader.waiters = <<>>
           THEN /\ trouble' = trouble \cup {"early"} /\ UNCHANGED <<session, ops, reader>>
           ELSE Hand(f.reader, f.frames)
  /\ UNCHANGED <<host, requests, said>>

\* A chunk of n bytes arrives; the offline tools have no reader between two operations.
Deliver(n) ==
  /\ n < Len(line) => left.cut > 0
  /\ line' = SubSeq(line, n + 1, Len(line))
  /\ left' = IF n < Len(line) THEN [left EXCEPT !.cut = @ - 1] ELSE left
  /\ LET r == [reader EXCEPT !.buffer = @ \o SubSeq(line, 1, n), !.address = 0]
         f == IF Offline THEN OfflineExtract(r, reader.waiters[1]) ELSE Flush(r)
     IN  IF Offline /\ reader.waiters = <<>>
           THEN /\ trouble' = trouble \cup {"early"} /\ UNCHANGED <<session, ops, reader>>
           ELSE Hand(f.reader, f.frames)
  /\ UNCHANGED <<host, requests, said>>

-----------------------------------------------------------------------------
(***************************************************************************)
(* The device and the line.                                                *)
(***************************************************************************)
Statuses == {OK, OK + SEQ_GAP, OK + UNDERRUN}

Heard(q) == DeviceRequest(IF Offline THEN q.bytes ELSE SubSeq(q.bytes, PREFIX + 1, Len(q.bytes)))
AckOf(q, word, status) == [command |-> Heard(q).command, sequence |-> word, status |-> status]
EchoOf(q, status) ==
  LET r == [command |-> Heard(q).command, sequence |-> Heard(q).sequence, down |-> Heard(q).period.down,
            up |-> Heard(q).period.up, status |-> status]
  IN  IF Offline THEN r ELSE With(r, 7, 9)

Say(i, answer, bytes) ==
  /\ requests' = Tail(requests) /\ said' = [said EXCEPT ![i] = answer]
  /\ line' = line \o (IF Offline THEN bytes ELSE Wrap(bytes))
  /\ UNCHANGED <<host, session, ops, reader>>

\* Passthrough and loopback answer with the samples of the request, QUERY_MODULE with a kind.
Answer ==
  /\ requests # <<>>
  /\ LET q == Head(requests)
         kind == ops[q.op].kind
         word == IF kind = "query" THEN 2 ELSE 0
     IN  IF kind = "exchange"
           THEN \E s \in IF Offline \/ left.bad = 0 THEN {OK} ELSE Statuses :
                  /\ Say(q.op, EchoOf(q, s),
                         IF Offline THEN OfflineBytes(EchoOf(q, s)) ELSE ResponseBytes(EchoOf(q, s)))
                  /\ left' = IF s = OK THEN left ELSE [left EXCEPT !.bad = @ - 1]
           ELSE Say(q.op, AckOf(q, word, OK), AckBytes(Heard(q).command, word, OK)) /\ UNCHANGED left
  /\ UNCHANGED trouble

\* An exchange outside of the mode, or one that was read short, is answered with an ack.
Refuse ==
  /\ requests # <<>> /\ ops[Head(requests).op].kind = "exchange" /\ left.bad > 0
  /\ left' = [left EXCEPT !.bad = @ - 1]
  /\ LET q == Head(requests)
     IN  Say(q.op, AckOf(q, 0, NOT_ACTIVE), AckBytes(Heard(q).command, 0, NOT_ACTIVE))
  /\ UNCHANGED trouble

Silent ==
  /\ requests # <<>> /\ left.mishap > 0
  /\ requests' = Tail(requests) /\ left' = [left EXCEPT !.mishap = @ - 1]
  /\ trouble' = trouble \cup {"silent"}
  /\ UNCHANGED <<host, session, ops, said, line, reader>>

\* A byte that belongs to no frame: what the firmware prints.
Noise ==
  /\ left.mishap > 0 /\ line' = Append(line, 10)
  /\ left' = [left EXCEPT !.mishap = @ - 1] /\ trouble' = trouble \cup {"noise"}
  /\ UNCHANGED <<host, session, ops, requests, said, reader>>

Next ==
  \/ \E kind \in {"enter", "query", "exchange", "exit"} : Begin(kind)
  \/ \E i \in DOMAIN ops : Written(i) \/ Timeout(i) \/ StaleTimeout(i)
  \/ \E n \in 1 .. Len(line) : Deliver(n)
  \/ Answer \/ Refuse \/ Silent \/ Noise

Spec == Init /\ [][Next]_vars

-----------------------------------------------------------------------------
(***************************************************************************)
(* Properties.                                                             *)
(***************************************************************************)
\* An operation that succeeded holds the answer the device gave to it, field for field, and an
\* exchange gets back the samples it sent: the four copies of the frame layout agree with the
\* firmware, and stray bytes alone never make one answer pass for another.
ResultsTrue ==
  trouble \cap {"late", "silent", "stale", "early"} = {} =>
    \A i \in DOMAIN ops : ops[i].at = "done" =>
      /\ ops[i].result = said[i]
      /\ ops[i].kind = "exchange" =>
           /\ ops[i].result.sequence = Number(i)
           /\ ops[i].result.down = PeriodOf(i).down /\ ops[i].result.up = PeriodOf(i).up

\* On a line where nothing has gone wrong the buffer and the line hold exactly the answers nobody
\* has read yet, so the next read begins at a frame, whatever the chunks were.
Owed(i) == IF said[i] = Nothing \/ ops[i].at \in {"done", "failed"} THEN <<>>
           ELSE LET bytes == IF "down" \notin DOMAIN said[i]
                             THEN AckBytes(said[i].command, said[i].sequence, said[i].status)
                             ELSE IF Offline THEN OfflineBytes(said[i]) ELSE ResponseBytes(said[i])
                IN  IF Offline THEN bytes ELSE Wrap(bytes)
InStep ==
  trouble = {} =>
    reader.buffer \o line = FlattenSeq([i \in DOMAIN ops |-> Owed(i)])

\* On a line where nothing has gone wrong an operation fails only for what the device said of it.
Blamed(i) == said[i] # Nothing /\ ~Accepted(ops[i].kind, said[i])
FailsForCause ==
  trouble = {} =>
    \A i \in DOMAIN ops : ops[i].at = "failed" => Blamed(i)

=============================================================================
