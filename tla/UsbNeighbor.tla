---------------------------- MODULE UsbNeighbor ----------------------------
(***************************************************************************)
(* The ESP32 module as a USB neighbor: the sketch's loop(), the transport  *)
(* that polls the serial line and the neighbor state it drives             *)
(* (i2s_synths.ino, usb_transport.h, usb_neighbor.h), in the build that    *)
(* the module images use (BRIDGE_USE_SERIAL_FOR_AUDIO = 1).                *)
(*                                                                         *)
(* The device is one thread: a frame is read, handled and answered in one  *)
(* step, and pc says which loop does the reading.  The host is the most    *)
(* general one: it sends any frame at any time, may die in the middle of a *)
(* frame and may come back.  A buffer of samples is represented by the     *)
(* sequence number of the request it was computed from.                    *)
(*                                                                         *)
(* The fields processing, hasQueued, pendingOverrun and loopback of        *)
(* UsbNeighborState are left out: each handler that sets one also clears   *)
(* it and runs to completion before the next frame is read, so they are    *)
(* false whenever another handler tests them.                              *)
(***************************************************************************)
EXTENDS Naturals, Sequences

CONSTANTS
  SeqMod,   \* sequence numbers are 0 .. SeqMod-1 (a uint32_t in the code)
  MaxPot,   \* pot readings are 0 .. MaxPot
  Readings, \* the readings that the ADC returns
  MaxRx,    \* bound: frames the serial receive buffer holds
  MaxTx,    \* bound: replies the host has not read yet
  MaxLog,   \* bound: exchanges the host submits in one session
  Offered   \* the frames the host sends

ASSUME UsbNeighborAssumption ==
  /\ SeqMod \in Nat \ {0, 1}
  /\ MaxPot \in Nat
  /\ Readings \subseteq 0 .. MaxPot /\ Readings # {}
  /\ MaxRx \in Nat \ {0}
  /\ MaxTx \in Nat \ {0}
  /\ MaxLog \in Nat \ {0}

Sequence == 0 .. SeqMod - 1
Pot == 0 .. MaxPot
NoSeq == SeqMod                 \* buffers that hold no exchange's samples
Next32(s) == (s + 1) % SeqMod   \* expected = lastProcessedSequence + 1u

-----------------------------------------------------------------------------
(***************************************************************************)
(* Frames on the wire.  form: the enter mode of an ENTER_USB, whether an   *)
(* exchange is as long as an exchange must be, or nothing.  RUNT is a      *)
(* payload shorter than a header, BAD_MAGIC one with a foreign header,     *)
(* UNKNOWN an unassigned command; BAD_PREFIX is a length of zero, or one   *)
(* no frame has: what follows it is read as frames of their own.  TORN is  *)
(* the front part of an exchange whose sender died.                        *)
(***************************************************************************)
Plain(c) == [cmd |-> c, seq |-> 0, form |-> "plain"]
Torn == Plain("TORN")
EnterFrame == [cmd : {"ENTER_USB"}, seq : {0}, form : {"injected", "pwa_adc"}]
ExchangeFrame ==
  [cmd : {"EXCHANGE_USB", "LOOPBACK_USB"}, seq : Sequence, form : {"full", "short"}]
OtherFrame ==
  {Plain(c) : c \in {"EXIT_USB", "QUERY_MODULE", "UNKNOWN", "BAD_MAGIC", "RUNT"}}
Answered == EnterFrame \cup ExchangeFrame \cup OtherFrame
BadPrefix == Plain("BAD_PREFIX")
Frame == Answered \cup {BadPrefix}

ASSUME OfferedAssumption == Offered \subseteq Frame

Status == {"OK", "NOT_ACTIVE", "SHORT_READ", "BAD_CMD", "BAD_MAGIC",
           "BAD_LENGTH", "SEQ_GAP"}

(***************************************************************************)
(* A reply is an ack, whose sequence field is not an exchange's, or an     *)
(* exchange response, which carries the sequence of the request and the    *)
(* output buffers.                                                         *)
(***************************************************************************)
FaultyAck(c, s) ==      \* faulty variant: the sequence field is left unset
  [cmd |-> c, kind |-> "ack", seq |-> NoSeq, status |-> s, out |-> NoSeq]
Ack(c, s) == [cmd |-> c, kind |-> "ack", seq |-> 0, status |-> s, out |-> NoSeq]
Response(c, n, s, o) ==
  [cmd |-> c, kind |-> "response", seq |-> n, status |-> s, out |-> o]
Command == {"ENTER_USB", "EXIT_USB", "QUERY_MODULE", "UNKNOWN", "BAD_MAGIC",
            "RUNT", "EXCHANGE_USB", "LOOPBACK_USB"}
Reply == [cmd : Command, kind : {"ack", "response"}, seq : Sequence,
          status : Status, out : Sequence \cup {NoSeq}]
LogEntry == [seq : Sequence, cmd : {"EXCHANGE_USB", "LOOPBACK_USB"},
             pots : {"none", "injected", "physical"}]

VARIABLES
  pc,                \* which loop of the sketch is running
  active, usePhysicalAdc, hasPhysicalPots,
  hasLastSequence, lastProcessedSequence,
  out,               \* the exchange that downstreamOut and upstreamOut are of
  physicalPots,      \* the readings handed to the neighbor
  sketchPots,        \* sketch_pots_state, the smoothed readings
  suspended,         \* i2s_neighbors_suspended
  i2sPeriods,        \* parity of the periods the module processed from I2S
  rx,                \* the serial receive buffer
  tx,                \* replies the host has not read yet
  hostUp,            \* the host process runs
  owed,              \* history: frames sent that wait for a reply, or whose reply the host has not read
  log                \* history: exchanges accepted in this session

neighbor == <<active, usePhysicalAdc, hasPhysicalPots, hasLastSequence,
              lastProcessedSequence, out, suspended, log>>
pots == <<physicalPots, sketchPots>>
wire == <<rx, tx, owed>>
vars == <<pc, neighbor, pots, i2sPeriods, wire, hostUp>>

TypeOK ==
  /\ pc \in {"loop", "service", "burst", "idle", "realtime"}
  /\ active \in BOOLEAN
  /\ usePhysicalAdc \in BOOLEAN
  /\ hasPhysicalPots \in BOOLEAN
  /\ hasLastSequence \in BOOLEAN
  /\ lastProcessedSequence \in Sequence
  /\ out \in Sequence \cup {NoSeq}
  /\ suspended \in BOOLEAN
  /\ log \in Seq(LogEntry)
  /\ physicalPots \in Pot
  /\ sketchPots \in Pot
  /\ i2sPeriods \in {0, 1}
  /\ rx \in Seq(Frame \cup {Torn})
  /\ tx \in Seq(Reply)
  /\ owed \in Seq(Frame \cup {Torn})
  /\ hostUp \in BOOLEAN

Init ==
  /\ pc = "loop"
  /\ active = FALSE
  /\ usePhysicalAdc = FALSE
  /\ hasPhysicalPots = FALSE
  /\ hasLastSequence = FALSE
  /\ lastProcessedSequence = 0
  /\ out = NoSeq
  /\ suspended = FALSE
  /\ log = <<>>
  /\ physicalPots = 0
  /\ sketchPots = 0
  /\ i2sPeriods = 0
  /\ rx = <<>>
  /\ tx = <<>>
  /\ owed = <<>>
  /\ hostUp = TRUE

-----------------------------------------------------------------------------
(***************************************************************************)
(* Replies.  bridgeWriteExact reports a short write, but no caller looks   *)
(* at the result: with the host not reading, the reply is simply lost.     *)
(* It is lost as a whole here.  In the code its front part may be on the   *)
(* line, which only the drain of a host that opens the port anew clears;   *)
(* a host that stalls so long and goes on is left out.                     *)
(***************************************************************************)
Without(s, i) == [j \in 1 .. Len(s) - 1 |-> IF j < i THEN s[j] ELSE s[j + 1]]

Write(r) ==
  /\ rx' = Tail(rx)
  /\ IF Len(tx) < MaxTx
       THEN tx' = Append(tx, r) /\ owed' = owed
       ELSE tx' = tx /\ owed' = Without(owed, Len(tx) + 1)

(***************************************************************************)
(* One handler per command, on the frame at the head of rx.                *)
(***************************************************************************)
FaultyEnterReset(f) ==  \* faulty variant: the sequence baseline survives
  /\ f.cmd = "ENTER_USB"
  /\ active' = TRUE /\ suspended' = TRUE /\ log' = <<>>
  /\ usePhysicalAdc' = (f.form = "pwa_adc") /\ hasPhysicalPots' = FALSE
  /\ Write(Ack("ENTER_USB", "OK"))
  /\ UNCHANGED <<hasLastSequence, lastProcessedSequence, out>>

FaultyEnterSuspend(f) ==  \* faulty variant: only a PWA session stops I2S
  /\ f.cmd = "ENTER_USB"
  /\ active' = TRUE /\ log' = <<>> /\ hasLastSequence' = FALSE
  /\ suspended' = (suspended \/ f.form = "pwa_adc")
  /\ usePhysicalAdc' = (f.form = "pwa_adc") /\ hasPhysicalPots' = FALSE
  /\ Write(Ack("ENTER_USB", "OK"))
  /\ UNCHANGED <<lastProcessedSequence, out>>

EnterUsb(f) ==
  /\ f.cmd = "ENTER_USB"
  /\ active' = TRUE
  /\ usePhysicalAdc' = (f.form = "pwa_adc")
  /\ hasPhysicalPots' = FALSE
  /\ hasLastSequence' = FALSE
  /\ suspended' = TRUE
  /\ log' = <<>>
  /\ Write(Ack("ENTER_USB", "OK"))
  /\ UNCHANGED <<lastProcessedSequence, out>>

FaultyExitUsb(f) ==     \* faulty variant: the I2S channels are not enabled
  /\ f.cmd = "EXIT_USB"
  /\ active' = FALSE /\ hasLastSequence' = FALSE /\ log' = <<>>
  /\ Write(Ack("EXIT_USB", "OK"))
  /\ UNCHANGED <<usePhysicalAdc, hasPhysicalPots, lastProcessedSequence, out,
                 suspended>>

ExitUsb(f) ==
  /\ f.cmd = "EXIT_USB"
  /\ active' = FALSE
  /\ hasLastSequence' = FALSE
  /\ suspended' = FALSE
  /\ log' = <<>>
  /\ Write(Ack("EXIT_USB", "OK"))
  /\ UNCHANGED <<usePhysicalAdc, hasPhysicalPots, lastProcessedSequence, out>>

\* usbNeighborEvaluateSequence: the first exchange of a session sets the
\* baseline, a later one must be the successor of the last accepted one.
FaultyInSequence(known, n) ==  \* faulty variant: only repetitions are refused
  known => n # lastProcessedSequence
InSequence(known, n) == known => n = Next32(lastProcessedSequence)

FaultyPotSource ==      \* faulty variant: a reading serves one exchange
  IF usePhysicalAdc /\ hasPhysicalPots /\ ~hasLastSequence
    THEN "physical" ELSE "injected"
PotSource == IF usePhysicalAdc /\ hasPhysicalPots THEN "physical" ELSE "injected"

\* usbNeighborProcessExchange and usbNeighborBuildResponse for an exchange
\* that is in sequence, and for one that is not: then the response carries
\* the samples of the last exchange that was.
Accept(f, session, source) ==
  /\ hasLastSequence' = TRUE
  /\ lastProcessedSequence' = f.seq
  /\ out' = f.seq
  /\ log' = Append(session, [seq |-> f.seq, cmd |-> f.cmd, pots |-> source])
  /\ Write(Response(f.cmd, f.seq, "OK", f.seq))

FaultyRefuse(f) ==      \* faulty variant: lastStatus is not updated
  /\ Write(Response(f.cmd, f.seq, "OK", out))
  /\ UNCHANGED <<hasLastSequence, lastProcessedSequence, out, log>>

Refuse(f) ==
  /\ Write(Response(f.cmd, f.seq, "SEQ_GAP", out))
  /\ UNCHANGED <<hasLastSequence, lastProcessedSequence, out, log>>

FaultyExchangeUsb(f) ==  \* faulty variant: no ack unless the mode is active
  /\ f.cmd = "EXCHANGE_USB"
  /\ UNCHANGED <<active, usePhysicalAdc, hasPhysicalPots, suspended>>
  /\ IF active /\ f.form = "full"
       THEN IF InSequence(hasLastSequence, f.seq)
              THEN Accept(f, log, PotSource) ELSE Refuse(f)
       ELSE /\ rx' = Tail(rx)
            /\ UNCHANGED <<tx, owed, hasLastSequence, lastProcessedSequence, out, log>>

ExchangeUsb(f) ==
  /\ f.cmd = "EXCHANGE_USB"
  /\ UNCHANGED <<active, usePhysicalAdc, hasPhysicalPots, suspended>>
  /\ \/ /\ ~active \/ f.form = "short"
        /\ Write(Ack(f.cmd, IF ~active THEN "NOT_ACTIVE" ELSE "SHORT_READ"))
        /\ UNCHANGED <<hasLastSequence, lastProcessedSequence, out, log>>
     \/ /\ active /\ f.form = "full"
        /\ IF InSequence(hasLastSequence, f.seq)
             THEN Accept(f, log, PotSource)
             ELSE Refuse(f)

\* The self-test enters the neighbor mode by itself when it must, copies its
\* inputs instead of running the module, and leaves the mode entered.
LoopbackUsb(f) ==
  /\ f.cmd = "LOOPBACK_USB"
  /\ active' = TRUE
  /\ suspended' = TRUE
  /\ usePhysicalAdc' = (active /\ usePhysicalAdc)
  /\ hasPhysicalPots' = (active /\ hasPhysicalPots)
  /\ \/ /\ f.form = "short"
        /\ hasLastSequence' = (active /\ hasLastSequence)
        /\ log' = IF active THEN log ELSE <<>>
        /\ Write(Ack(f.cmd, "SHORT_READ"))
        /\ UNCHANGED <<lastProcessedSequence, out>>
     \/ /\ f.form = "full"
        /\ IF InSequence(active /\ hasLastSequence, f.seq)
             THEN Accept(f, IF active THEN log ELSE <<>>, "none")
             ELSE Refuse(f)

OtherStatus(c) ==
  CASE c = "QUERY_MODULE" -> "OK"
    [] c = "UNKNOWN"      -> "BAD_CMD"
    [] c = "BAD_MAGIC"    -> "BAD_MAGIC"
    [] OTHER              -> "BAD_LENGTH"

OtherCommand(f) ==
  /\ f \in OtherFrame /\ f.cmd # "EXIT_USB"
  /\ Write(Ack(f.cmd, OtherStatus(f.cmd)))
  /\ UNCHANGED neighbor

(***************************************************************************)
(* bridgeReadExact gives up five seconds after it started on a frame whose *)
(* rest does not come.  Control frames that arrive meanwhile are taken for *)
(* that rest, and the poll returns without a reply.  (USB packets are 64   *)
(* bytes: what is missing of an exchange is longer than a control frame.)  *)
(***************************************************************************)
ReadTimeout(f) ==
  /\ f = Torn
  /\ rx' = <<>>
  /\ owed' = SubSeq(owed, 1, Len(tx))
  /\ UNCHANGED <<neighbor, tx>>

\* bridgeReadLengthPrefixed takes the prefix off the line and gives up, without a reply.
BadLength(f) ==
  /\ f = BadPrefix
  /\ rx' = Tail(rx)
  /\ owed' = Without(owed, Len(tx) + 1)
  /\ UNCHANGED <<neighbor, tx>>

Handle(f) ==
  \/ EnterUsb(f) \/ ExitUsb(f) \/ ExchangeUsb(f) \/ LoopbackUsb(f)
  \/ OtherCommand(f) \/ ReadTimeout(f) \/ BadLength(f)

-----------------------------------------------------------------------------
(***************************************************************************)
(* potsUpdate: an exponential moving average, which moves towards the      *)
(* reading when at least one millisecond has passed.                       *)
(***************************************************************************)
Between(old, raw) ==
  IF old = raw THEN {old}
  ELSE {v \in Pot : (old < v /\ v <= raw) \/ (raw <= v /\ v < old)}

PotsUpdate == \E raw \in Readings : sketchPots' \in Between(sketchPots, raw)

\* loop() with the neighbor active: sample the pots if the session uses them
\* and a millisecond has passed, then stay in the realtime loop.
LoopActive ==
  /\ pc = "loop" /\ active
  /\ \/ /\ usePhysicalAdc
        /\ PotsUpdate
        /\ physicalPots' = sketchPots'
        /\ hasPhysicalPots' = TRUE
     \/ UNCHANGED <<pots, hasPhysicalPots>>
  /\ pc' = "realtime"
  /\ UNCHANGED <<active, usePhysicalAdc, hasLastSequence, lastProcessedSequence,
                 out, suspended, log, i2sPeriods, wire, hostUp>>

LoopInactive ==
  /\ pc = "loop" /\ ~active
  /\ pc' = "service"
  /\ UNCHANGED <<neighbor, pots, i2sPeriods, wire, hostUp>>

\* bridgeTransportRunUsbRealtimeLoop: one poll; an idle poll changes nothing.
RealtimePoll ==
  /\ pc = "realtime" /\ rx # <<>>
  /\ Handle(Head(rx))
  /\ pc' = IF active' THEN "realtime" ELSE "loop"
  /\ UNCHANGED <<pots, i2sPeriods, hostUp>>

\* bridgeTransportServiceActive, first pass: one frame, and a burst of more
\* only if that frame entered the neighbor mode.
ServicePoll ==
  /\ pc = "service" /\ rx # <<>>
  /\ Handle(Head(rx))
  /\ pc' = CASE ~active'                -> "idle"
             [] active' /\ rx' = <<>>   -> "loop"
             [] OTHER                   -> "burst"
  /\ UNCHANGED <<pots, i2sPeriods, hostUp>>

ServiceQuiet ==
  /\ pc = "service" /\ rx = <<>>
  /\ pc' = "idle"
  /\ UNCHANGED <<neighbor, pots, i2sPeriods, wire, hostUp>>

\* bridgeTransportPoll, whose loop does not look at active again.
BurstPoll ==
  /\ pc = "burst" /\ rx # <<>>
  /\ Handle(Head(rx))
  /\ UNCHANGED <<pc, pots, i2sPeriods, hostUp>>

\* The line is quiet, or a limit of 64 passes is reached.
BurstEnd ==
  /\ pc = "burst"
  /\ pc' = IF active THEN "loop" ELSE "idle"
  /\ UNCHANGED <<neighbor, pots, i2sPeriods, wire, hostUp>>

\* The rest of loop(): pots, then one I2S period unless the start-up mute or
\* a missing input buffer keeps the module out of it.
Idle ==
  /\ pc = "idle"
  /\ PotsUpdate \/ UNCHANGED sketchPots
  /\ i2sPeriods' \in IF suspended THEN {i2sPeriods} ELSE {i2sPeriods, 1 - i2sPeriods}
  /\ pc' = "loop"
  /\ UNCHANGED <<neighbor, physicalPots, wire, hostUp>>

Device == \/ LoopActive \/ LoopInactive \/ RealtimePoll \/ ServicePoll
          \/ ServiceQuiet \/ BurstPoll \/ BurstEnd \/ Idle

-----------------------------------------------------------------------------
(***************************************************************************)
(* The host, as the device sees it.  While the front part of a dead host's *)
(* frame blocks the line, its successor waits for the ack of ENTER_USB.    *)
(***************************************************************************)
Submitted == Len(log) + Len(SelectSeq(rx, LAMBDA f : f \in ExchangeFrame))

HostSend(f) ==
  /\ hostUp /\ Len(rx) < MaxRx
  /\ f \in ExchangeFrame => Submitted < MaxLog
  /\ (\E i \in 1 .. Len(rx) : rx[i] = Torn) => rx = <<Torn>> /\ f \in EnterFrame
  /\ rx' = Append(rx, f)
  /\ owed' = Append(owed, f)
  /\ UNCHANGED <<pc, neighbor, pots, i2sPeriods, tx, hostUp>>

HostReceive ==
  /\ hostUp /\ tx # <<>>
  /\ tx' = Tail(tx)
  /\ owed' = Tail(owed)
  /\ UNCHANGED <<pc, neighbor, pots, i2sPeriods, rx, hostUp>>

\* The host process dies, between two frames or inside one.
HostCrash ==
  /\ hostUp
  /\ hostUp' = FALSE
  /\ \/ UNCHANGED <<rx, owed>>
     \/ /\ Len(rx) < MaxRx
        /\ \A i \in 1 .. Len(rx) : rx[i] # Torn
        /\ rx' = Append(rx, Torn)
        /\ owed' = Append(owed, Torn)
  /\ UNCHANGED <<pc, neighbor, pots, i2sPeriods, tx>>

\* A new host opens the port and discards input until the line has been quiet
\* for half a second, three seconds at the least: the device has dealt with
\* every complete frame by then, but may still wait for the rest of a torn one.
HostReopen ==
  /\ ~hostUp
  /\ rx = <<>> \/ rx = <<Torn>>
  /\ hostUp' = TRUE
  /\ tx' = <<>>
  /\ owed' = rx
  /\ UNCHANGED <<pc, neighbor, pots, i2sPeriods, rx>>

Host == \/ \E f \in Offered : HostSend(f)
        \/ HostReceive \/ HostCrash \/ HostReopen

Next == Device \/ Host

Spec == Init /\ [][Next]_vars

\* The device's one thread never stops.
FairSpec == Spec /\ WF_vars(Device)

-----------------------------------------------------------------------------
(***************************************************************************)
(* Properties.                                                             *)
(***************************************************************************)
IsExchange(f) == f.cmd \in {"EXCHANGE_USB", "LOOPBACK_USB"}
Accepted(r) == r.kind = "response" /\ r.status = "OK"

Answers(f, r) ==
  /\ r.cmd = f.cmd
  /\ r.kind = "response" => IsExchange(f) /\ r.seq = f.seq
  /\ Accepted(r) => r.out = f.seq

\* The host matches replies to requests by their order alone (usb-relay.js
\* resolves the oldest waiter), so every frame that is answered must have its own, in
\* order, of its own command; an exchange's response echoes its sequence and,
\* when the status is OK, carries the samples computed from that very request.
RepliesMatch ==
  /\ Len(owed) = Len(tx) + Len(rx)
  /\ \A i \in 1 .. Len(tx) : Answers(owed[i], tx[i])

\* Within a session no exchange is applied twice and none is skipped, whatever
\* the host sends and through whichever loop the frames are read: the module's
\* delay lines and rings advance over consecutive periods.
AcceptedInSequence ==
  \A i \in 1 .. Len(log) - 1 : log[i + 1].seq = Next32(log[i].seq)

\* The I2S channels are off exactly while the neighbor mode is on, however the
\* mode was entered or left and in whichever loop, and the loops agree on it.
AudioOwnership ==
  /\ suspended = active
  /\ pc = "realtime" => active
  /\ pc \in {"service", "idle"} => ~active

\* The source of the controls only moves from the request's values to the
\* physical pots, never back, and only in a session that asked for them.
ControlSource ==
  \A i \in 1 .. Len(log) :
    log[i].pots = "physical" =>
      /\ usePhysicalAdc
      /\ \A j \in i .. Len(log) : log[j].pots # "injected"

\* An exchange counts as applied exactly when the host is told so: a response
\* with status OK and a new entry of the session's history come together, and
\* the module runs for USB and for I2S never in the same mode.
AppliedIffOk ==
  [][/\ Len(tx') > Len(tx) =>
          (Len(log') > Len(log) <=> Accepted(tx'[Len(tx')]))
     /\ Len(log') > Len(log) => suspended'
     /\ i2sPeriods' # i2sPeriods => ~active]_vars

\* A sequence gap is only ever reported against an exchange accepted in the
\* same session: a host that enters again, after a crash or a refused
\* exchange, can start from any sequence number.
GapNeedsBaseline ==
  [][Len(tx') > Len(tx) /\ tx'[Len(tx')].status = "SEQ_GAP" =>
       /\ active
       /\ log # <<>>
       /\ tx'[Len(tx')].seq # Next32(log[Len(log)].seq)]_vars

\* EXIT_USB brings the device back to its I2S neighbors, from every loop and
\* behind any other frames (return to normal operation without a reflash).
ExitPending == \E i \in 1 .. Len(rx) : rx[i].cmd = "EXIT_USB"
ExitRestoresI2S == ExitPending ~> ~suspended

\* "The operator holds a physical control at a steady position": with one
\* reading at the ADC for good, a session in which the host keeps sending gets
\* the value that the module works with there (hardware-module-bridge spec).
Steady == Readings = {MaxPot}
InPwaSession == active /\ usePhysicalAdc /\ hostUp
PotsApproachKnob ==
  Steady => (<>[]InPwaSession /\ []<>(rx # <<>>) => <>(physicalPots = MaxPot))

=============================================================================
