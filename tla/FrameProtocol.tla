--------------------------- MODULE FrameProtocol ---------------------------
(***************************************************************************)
(* The bytes of a frame, as the four copies of frame-protocol.js (page,    *)
(* bridge server, realtime and offline tools) and the firmware lay them    *)
(* out.  Numbers are little-endian, offsets count from 0 as in the code, a *)
(* control value is the pattern of its four bytes.                         *)
(***************************************************************************)
EXTENDS Integers, Sequences

CONSTANT BufferLen   \* BUFFER_LEN

ASSUME ProtocolAssumption == BufferLen \in Nat \ {0}

MAGIC == 826428744   \* 0x31424d48
HEADER == 6
PREFIX == 4
AudioBytes == 2 * BufferLen
StatusAt == HEADER + 4 + 2 * AudioBytes
ACK_SIZE == HEADER + 6
OFFLINE_SIZE == StatusAt + 2

OK == 1
NOT_ACTIVE == 4
OVERRUN == 16
UNDERRUN == 32
SEQ_GAP == 64
HasBit(status, bit) == (status \div bit) % 2 = 1

HALF == <<0, 0, 0, 63>>   \* 0.5 as a float32

\* What setUint16, setUint32, getUint16 and getUint32 of a DataView do.
Put16(n) == <<n % 256, (n \div 256) % 256>>
Put32(n) == Put16(n) \o Put16(n \div 65536)
Get16(bytes, offset) == bytes[offset + 1] + 256 * bytes[offset + 2]
Get32(bytes, offset) == Get16(bytes, offset) + 65536 * Get16(bytes, offset + 2)
Samples(bytes, offset) == [i \in 1 .. BufferLen |-> Get16(bytes, offset + 2 * (i - 1))]
Period(samples) == [j \in 1 .. AudioBytes |-> Put16(samples[(j + 1) \div 2])[2 - (j % 2)]]

-----------------------------------------------------------------------------
(***************************************************************************)
(* Frames of the host.                                                     *)
(***************************************************************************)
Header(command, mode) == Put32(MAGIC) \o <<command, mode>>
Wrap(inner) == Put32(Len(inner)) \o inner

BridgeEnter(mode) == Wrap(Header(17, mode))
BridgeQuery == Wrap(Header(21, 0))
HostEnter == Wrap(Header(17, 1))
HostQuery == Wrap(Header(21, 0))
RealtimeEnter == Wrap(Header(17, 0))
OfflineEnter == Header(1, 0)
BridgeExit == Wrap(Header(18, 0))
HostExit == Wrap(Header(18, 0))
RealtimeExit == Wrap(Header(18, 0))
OfflineExit == Header(2, 0)

Request(command, sequence, p, primary, secondary) ==
  Header(command, 0) \o Put32(sequence) \o Period(p.down) \o Period(p.up) \o primary \o secondary

BridgeExchange(sequence, p, primary, secondary) == Wrap(Request(19, sequence, p, primary, secondary))
HostExchange(sequence, p) == Wrap(Request(19, sequence, p, HALF, HALF))
RealtimeExchange(command, sequence, p) == Wrap(Request(command, sequence, p, HALF, HALF))
OfflineExchange(command, sequence, p) == Request(command, sequence, p, <<0, 0, 0, 0>>, <<0, 0, 0, 0>>)

-----------------------------------------------------------------------------
(***************************************************************************)
(* What the hosts read from an answer, Refused where they throw: a frame   *)
(* that is too short or has another magic, or one whose samples begin at   *)
(* an odd address, which Int16Array does not accept.                       *)
(***************************************************************************)
Refused == [command |-> -1]
Absent == -1
Sound(inner, size) == Len(inner) >= size /\ Get32(inner, 0) = MAGIC
Word(inner, offset) == IF offset + 4 <= Len(inner) THEN Get32(inner, offset) ELSE Absent

Common(inner) ==
  [command |-> inner[5], sequence |-> Get32(inner, HEADER),
   down |-> Samples(inner, HEADER + 4), up |-> Samples(inner, HEADER + 4 + AudioBytes),
   status |-> Get16(inner, StatusAt)]
With(response, time, processing) ==
  [command |-> response.command, sequence |-> response.sequence, down |-> response.down,
   up |-> response.up, status |-> response.status, time |-> time, processing |-> processing]

BridgeResponse(inner, address) ==
  IF ~Sound(inner, StatusAt + 6) \/ address % 2 = 1 THEN Refused
  ELSE With(Common(inner), Get32(inner, StatusAt + 2),
            Word(inner, IF StatusAt + 14 <= Len(inner) THEN StatusAt + 14 ELSE StatusAt + 6))

\* Mutant: takes the telemetry for the processing time.
FaultyHostResponse(inner, address) ==
  IF ~Sound(inner, StatusAt + 2) \/ address % 2 = 1 THEN Refused
  ELSE LET time == Word(inner, StatusAt + 2)
           next == IF time = Absent THEN StatusAt + 2 ELSE StatusAt + 6
       IN  With(Common(inner), IF time = Absent THEN 0 ELSE time,
                Word(inner, next))

HostResponse(inner, address) ==
  IF ~Sound(inner, StatusAt + 2) \/ address % 2 = 1 THEN Refused
  ELSE LET time == Word(inner, StatusAt + 2)
           next == IF time = Absent THEN StatusAt + 2 ELSE StatusAt + 6
       IN  With(Common(inner), IF time = Absent THEN 0 ELSE time,
                Word(inner, IF next + 8 <= Len(inner) THEN next + 8 ELSE next))

RealtimeResponse(inner, address) ==
  IF ~Sound(inner, StatusAt + 2) \/ address % 2 = 1 THEN Refused
  ELSE LET time == Word(inner, StatusAt + 2)
           next == IF time = Absent THEN StatusAt + 2 ELSE StatusAt + 6
           telemetry == IF next + 8 <= Len(inner) THEN next + 8 ELSE next
       IN  With(Common(inner), IF time = Absent THEN 0 ELSE time, Word(inner, telemetry))

OfflineResponse(bytes, address) ==
  IF ~Sound(bytes, OFFLINE_SIZE) \/ address % 2 = 1 THEN Refused ELSE Common(bytes)

Ack(inner) ==
  IF ~Sound(inner, ACK_SIZE) THEN Refused
  ELSE [command |-> inner[5], sequence |-> Get32(inner, HEADER),
        status |-> Get16(inner, HEADER + 4)]

BridgeStatusIsOk(status) ==
  HasBit(status, OK) /\ ~HasBit(status, OVERRUN) /\ ~HasBit(status, UNDERRUN) /\ ~HasBit(status, SEQ_GAP)
HostStatusIsOk(status) == HasBit(status, OK) /\ ~HasBit(status, SEQ_GAP)
RealtimeStatusIsOk(status) == BridgeStatusIsOk(status)
OfflineStatusIsOk(status) == status = OK

-----------------------------------------------------------------------------
(***************************************************************************)
(* The device: what it understands of a request, and its answers.          *)
(***************************************************************************)
DeviceRequest(inner) ==
  [command |-> inner[5], sequence |-> IF Len(inner) > HEADER THEN Get32(inner, HEADER) ELSE 0,
   period |-> IF Len(inner) > HEADER
              THEN [down |-> Samples(inner, HEADER + 4), up |-> Samples(inner, HEADER + 4 + AudioBytes)]
              ELSE <<>>]

AckBytes(command, word, status) == Header(command, 0) \o Put32(word) \o Put16(status)
OfflineBytes(r) == Header(r.command, 0) \o Put32(r.sequence) \o Period(r.down) \o Period(r.up)
                     \o Put16(r.status)
ResponseBytes(r) == OfflineBytes(r) \o Put32(r.time) \o HALF \o HALF \o Put32(r.processing)

=============================================================================
