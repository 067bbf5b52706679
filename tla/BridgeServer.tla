---------------------------- MODULE BridgeServer ----------------------------
(***************************************************************************)
(* The bridge server (server.mjs, usb-relay.js) between the WebSockets of  *)
(* its clients and the serial line of the device.                          *)
(*                                                                         *)
(* Node has one thread.  An event (a message, a chunk of bytes, a timer, a *)
(* write that is drained) runs to its end; then the promises it has        *)
(* settled go on, in that order (jobs).  startSession, stopSession and     *)
(* relayExchange wait in between: a command is first in writing, then in   *)
(* waiters, and several handlers may wait at once.                         *)
(*                                                                         *)
(* A client is a BridgeClient: it relays only while it believes its        *)
(* session active and numbers the exchanges of each session from zero.     *)
(* Its messages are processed in the order they were sent, so the model    *)
(* lets it send them at the moment the server takes them.                  *)
(***************************************************************************)
EXTENDS Integers, FiniteSets, SequencesExt

CONSTANTS
  Clients,     \* bound: connections, numbered as they come; none comes back
  Depth,       \* USB_PIPELINE_DEPTH
  QueueLimit,  \* USB_PIPELINE_DEPTH * 2
  Sessions,    \* bound: session starts asked for
  Requests,    \* bound: exchanges of one session
  Losses       \* bound: frames lost on the line

ASSUME BridgeAssumption ==
  /\ Clients \in Nat
  /\ Depth \in Nat \ {0} /\ QueueLimit \in Nat \ {0}
  /\ Sessions \in Nat /\ Requests \in Nat /\ Losses \in Nat

VARIABLES
  conn, view, next,       \* of each client: socket, sessionState, next number
  activeClient, sessionActive, lastModuleKind, relayQueue, usbInFlight,
  port, opening,          \* usbPort.isOpen, and the client whose start opens it
  writing, waiters, buffer, jobs,   \* sendAckCommand and relayExchange; the reader
  toDevice, line, device,
  starts, lost,           \* what the bounds count
  overlapped,             \* history: a session was started while another start waited
  epoch, answered         \* history: sessions that clients have seen, and the last
                          \* answer of each client's session

Client == 1 .. Clients
None == 0

client == <<conn, view, next>>
server == <<activeClient, sessionActive, lastModuleKind>>
relay == <<relayQueue, usbInFlight>>
usb == <<port, opening>>
wire == <<toDevice, line, device, lost>>
vars == <<client, server, relay, usb, writing, waiters, buffer, jobs, wire,
          starts, overlapped, epoch, answered>>

Number == 0 .. Requests - 1
Command == [what : {"enter", "query", "exit", "exchange"}, owner : Client,
            number : Number \cup {-1}, epoch : 0 .. Sessions]
\* What a read gives: an ack or a response, bytes that only look like one, or nothing.
Reply == [of : Command, status : {"ok", "gap", "refused", "garbage", "timeout"}]
Job == [of : Command, reply : Reply]
Control(what, c) == [what |-> what, owner |-> c, number |-> -1, epoch |-> 0]

TypeOK ==
  /\ conn \in [Client -> {"new", "open", "closed"}]
  /\ view \in [Client -> {"idle", "starting", "active"}]
  /\ next \in [Client -> 0 .. Requests]
  /\ activeClient \in Client \cup {None}
  /\ sessionActive \in BOOLEAN /\ lastModuleKind \in BOOLEAN
  /\ relayQueue \in Seq(Command) /\ Len(relayQueue) <= QueueLimit
  /\ usbInFlight \in 0 .. Depth
  /\ port \in BOOLEAN /\ opening \in Client \cup {None}
  /\ writing \in Seq(Command) /\ waiters \in Seq(Command) /\ toDevice \in Seq(Command)
  /\ buffer \in Seq(Reply) /\ line \in Seq(Reply)
  /\ jobs \in Seq(Job)
  /\ device \in [active : BOOLEAN, last : Number \cup {-1}]
  /\ starts \in 0 .. Sessions /\ lost \in 0 .. Losses
  /\ overlapped \in BOOLEAN /\ epoch \in 0 .. Sessions /\ answered \in [Client -> Number \cup {-1}]

Init ==
  /\ conn = [c \in Client |-> "new"] /\ view = [c \in Client |-> "idle"]
  /\ next = [c \in Client |-> 0]
  /\ activeClient = None /\ sessionActive = FALSE /\ lastModuleKind = FALSE
  /\ relayQueue = <<>> /\ usbInFlight = 0
  /\ port \in BOOLEAN /\ opening = None      \* attached on listening, if at all
  /\ writing = <<>> /\ waiters = <<>> /\ buffer = <<>> /\ jobs = <<>>
  /\ toDevice = <<>> /\ line = <<>> /\ device = [active |-> FALSE, last |-> -1]
  /\ starts = 0 /\ lost = 0
  /\ overlapped = FALSE /\ epoch = 0 /\ answered = [c \in Client |-> -1]

-----------------------------------------------------------------------------
(***************************************************************************)
(* The serial line (usb-relay.js).                                         *)
(***************************************************************************)
\* The next event.  Nobody can tell how long a command is on its way from how long
\* its reply is, so the device handles commands at once and the replies take time.
Ready == jobs = <<>> /\ toDevice = <<>>

\* writePort: the bytes are on their way before the promise is settled.
Write(commands) ==
  /\ writing' = writing \o commands
  /\ toDevice' = toDevice \o commands

NoWrite == UNCHANGED <<writing, toDevice>>

FaultyDrained ==   \* faulty variant: the newest waiter comes first
  /\ Ready /\ writing # <<>>
  /\ writing' = Tail(writing)
  /\ waiters' = <<Head(writing)>> \o waiters
  /\ UNCHANGED <<client, server, relay, usb, buffer, jobs, wire, starts, overlapped,
                 epoch, answered>>

\* A write is drained: readFrame takes a frame from the buffer or waits.
Drained ==
  /\ Ready /\ writing # <<>>
  /\ writing' = Tail(writing)
  /\ \/ /\ buffer # <<>>
        /\ jobs' = <<[of |-> Head(writing), reply |-> Head(buffer)]>>
        /\ buffer' = Tail(buffer)
        /\ UNCHANGED waiters
     \/ /\ buffer = <<>>
        /\ waiters' = Append(waiters, Head(writing))
        /\ UNCHANGED <<buffer, jobs>>
  /\ UNCHANGED <<client, server, relay, usb, wire, starts, overlapped, epoch, answered>>

\* onData and flushWaiters: frames go to the waiters in order; when the waiters
\* run out, one frame more is taken from the buffer and forgotten.
Arrive ==
  /\ Ready
  /\ \E k \in 1 .. Len(line) :
       LET frames == buffer \o SubSeq(line, 1, k)
           n == IF Len(frames) < Len(waiters) THEN Len(frames) ELSE Len(waiters)
       IN  /\ line' = SubSeq(line, k + 1, Len(line))
           /\ jobs' = [i \in 1 .. n |-> [of |-> waiters[i], reply |-> frames[i]]]
           /\ waiters' = SubSeq(waiters, n + 1, Len(waiters))
           /\ buffer' = IF waiters = <<>> THEN frames
                        ELSE SubSeq(frames, n + 2, Len(frames))
  /\ UNCHANGED <<client, server, relay, usb, writing, toDevice, device, lost,
                 starts, overlapped, epoch, answered>>

\* The 15 s timer of a waiter, the oldest first.  By then its own command has been
\* handled and what came back has arrived: the device waits five seconds for a frame
\* at most, so a reply that takes longer than the timer is left out.  (With it, an
\* ENTER that the server has given up could still be obeyed.)  It empties the buffer
\* for everyone: the rest of a frame that was half there is skipped, or taken for a
\* frame that may swallow what follows.
Expire ==
  /\ Ready /\ waiters # <<>>
  /\ \A i \in 1 .. Len(line) : line[i].of # Head(waiters)
  /\ jobs' = <<[of |-> Head(waiters), reply |-> [of |-> Head(waiters), status |-> "timeout"]]>>
  /\ waiters' = Tail(waiters)
  /\ buffer' = <<>>
  /\ \/ line' = line
     \/ /\ line # <<>>
        /\ \/ line' = Tail(line)
           \/ \E k \in 2 .. Len(line) + 1 : 
                line' = <<[Head(line) EXCEPT !.status = "garbage"]>> \o SubSeq(line, k, Len(line))
  /\ UNCHANGED <<client, server, relay, usb, writing, toDevice, device, lost,
                 starts, overlapped, epoch, answered>>

-----------------------------------------------------------------------------
(***************************************************************************)
(* The device, as UsbNeighbor has it, and what the line loses.             *)
(***************************************************************************)
InSequence(n) == device.last = -1 \/ n = device.last + 1

Device ==
  /\ jobs = <<>> /\ toDevice # <<>>
  /\ LET c == Head(toDevice)
         status == IF c.what # "exchange" \/ (device.active /\ InSequence(c.number)) THEN "ok"
                   ELSE IF device.active THEN "gap" ELSE "refused"
     IN  /\ toDevice' = Tail(toDevice)
         /\ device' = CASE c.what = "enter" -> [active |-> TRUE, last |-> -1]
                        [] c.what = "exit"  -> [active |-> FALSE, last |-> -1]
                        [] c.what = "exchange" /\ status = "ok" -> [device EXCEPT !.last = c.number]
                        [] OTHER -> device
         /\ \/ line' = Append(line, [of |-> c, status |-> status]) /\ lost' = lost
            \/ lost < Losses /\ line' = line /\ lost' = lost + 1
  /\ UNCHANGED <<client, server, relay, usb, writing, waiters, buffer, jobs,
                 starts, overlapped, epoch, answered>>

Lose ==
  /\ jobs = <<>> /\ toDevice # <<>> /\ lost < Losses
  /\ toDevice' = Tail(toDevice) /\ lost' = lost + 1
  /\ UNCHANGED <<client, server, relay, usb, writing, waiters, buffer, jobs,
                 line, device, starts, overlapped, epoch, answered>>

-----------------------------------------------------------------------------
(***************************************************************************)
(* Exchanges (server.mjs).                                                 *)
(***************************************************************************)
\* drainRelayQueue, with the queue and the count that its caller has left.
Drain(queue, inFlight) ==
  LET room == Depth - inFlight
      n == IF ~sessionActive THEN 0 ELSE IF Len(queue) < room THEN Len(queue) ELSE room
  IN  /\ relayQueue' = SubSeq(queue, n + 1, Len(queue))
      /\ usbInFlight' = inFlight + n
      /\ Write(SubSeq(queue, 1, n))

FaultyNewest(queue) == queue   \* faulty variant: the queue has no limit
\* enqueueRelay: the queue drops its oldest request, of which its client hears nothing.
Newest(queue) == IF Len(queue) > QueueLimit THEN Tail(queue) ELSE queue

Exchange(c) ==
  /\ Ready
  /\ conn[c] = "open" /\ view[c] = "active" /\ next[c] < Requests
  /\ next' = [next EXCEPT ![c] = @ + 1]
  /\ IF sessionActive
       THEN Drain(Newest(Append(relayQueue,
                    [what |-> "exchange", owner |-> c, number |-> next[c], epoch |-> epoch])),
                  usbInFlight)
       ELSE UNCHANGED <<relay, writing, toDevice>>
  /\ UNCHANGED <<conn, view, server, usb, waiters, buffer, jobs, line, device, lost,
                 starts, overlapped, epoch, answered>>

IsAnswer(reply) == reply.status = "ok" /\ reply.of.what = "exchange"

FaultyCount(job) ==   \* faulty variant: only an answer counts as the end
  /\ job.of.what = "exchange" /\ UNCHANGED answered
  /\ Drain(relayQueue, IF IsAnswer(job.reply) THEN usbInFlight - 1 ELSE usbInFlight)
  /\ UNCHANGED <<client, server, usb, buffer, epoch>>
FaultyFinally(job) ==   \* faulty variant: the queue is not drained again
  /\ job.of.what = "exchange" /\ usbInFlight' = usbInFlight - 1
  /\ UNCHANGED <<client, server, usb, buffer, relayQueue, epoch, answered>> /\ NoWrite

FaultyOwner(job) ==   \* faulty variant: the answer goes to the client of the moment
  /\ job.of.what = "exchange"
  /\ answered' = IF IsAnswer(job.reply) /\ activeClient # None
                   THEN [answered EXCEPT ![activeClient] = job.reply.of.number] ELSE answered
  /\ Drain(relayQueue, usbInFlight - 1)
  /\ UNCHANGED <<client, server, usb, buffer, epoch>>

\* relayExchange goes on: the answer, or an error, goes to the client that asked,
\* and the next request is taken from the queue.
Relayed(job) ==
  /\ job.of.what = "exchange"
  /\ LET c == job.of.owner
     IN  answered' = IF IsAnswer(job.reply) /\ conn[c] = "open"
                       THEN [answered EXCEPT ![c] = job.reply.of.number] ELSE answered
  /\ Drain(relayQueue, usbInFlight - 1)
  /\ UNCHANGED <<client, server, usb, buffer, epoch>>

-----------------------------------------------------------------------------
(***************************************************************************)
(* Sessions (server.mjs).                                                  *)
(***************************************************************************)
\* What sendAckCommand makes of whatever arrived.  In the place of the status an
\* answer to an exchange has a sample, which may have any value.
MayPass(reply) == reply.status \in {"ok", "gap"}
MayFail(reply) == ~(reply.status = "ok" /\ reply.of.what # "exchange")

Connect(c) ==
  /\ Ready /\ conn[c] = "new" /\ \A d \in 1 .. c - 1 : conn[d] # "new"
  /\ \/ /\ activeClient # None
        /\ conn' = [conn EXCEPT ![c] = "closed"]
        /\ UNCHANGED activeClient
     \/ /\ activeClient = None
        /\ conn' = [conn EXCEPT ![c] = "open"]
        /\ activeClient' = c
  /\ UNCHANGED <<view, next, sessionActive, lastModuleKind, relay, usb, writing, waiters,
                 buffer, jobs, wire, starts, overlapped, epoch, answered>>

\* enterUsbNeighborMode
Enter(c) == buffer' = <<>> /\ Write(<<Control("enter", c)>>)

StartPending ==
  \/ opening # None
  \/ \E i \in 1 .. Len(writing \o waiters) : (writing \o waiters)[i].what \in {"enter", "query"}

\* startSession up to its first await.
Start(c) ==
  /\ Ready /\ conn[c] = "open" /\ view[c] = "idle" /\ starts < Sessions
  /\ starts' = starts + 1
  /\ overlapped' = (overlapped \/ StartPending)
  /\ view' = [view EXCEPT ![c] = "starting"]
  /\ \/ /\ sessionActive \/ (~port /\ opening # None)      \* an error for the client
        /\ UNCHANGED <<opening, buffer>> /\ NoWrite
     \/ /\ ~sessionActive /\ port
        /\ Enter(c) /\ UNCHANGED opening
     \/ /\ ~sessionActive /\ ~port /\ opening = None
        /\ opening' = c
        /\ UNCHANGED buffer /\ NoWrite
  /\ UNCHANGED <<conn, next, server, relay, port, waiters, jobs, line, device, lost,
                 epoch, answered>>

\* openAudioPort, which drains the line, succeeds or fails.
Opened ==
  /\ Ready /\ opening # None
  /\ opening' = None
  /\ \/ port' = TRUE /\ Enter(opening)
     \/ UNCHANGED <<port, buffer>> /\ NoWrite
  /\ UNCHANGED <<client, server, relay, waiters, jobs, line, device, lost, starts,
                 overlapped, epoch, answered>>

Entered(job) ==
  /\ job.of.what = "enter"
  /\ \/ MayPass(job.reply) /\ Write(<<[job.of EXCEPT !.what = "query"]>>)
     \/ MayFail(job.reply) /\ NoWrite
  /\ UNCHANGED <<client, server, relay, usb, buffer, epoch, answered>>

\* queryModuleKind is settled, one way or the other: the session is active.
Started(job) ==
  /\ job.of.what = "query"
  /\ \/ /\ MayPass(job.reply)
        /\ lastModuleKind' \in IF job.reply.of.what = "exchange" THEN BOOLEAN ELSE {TRUE}
     \/ MayFail(job.reply) /\ UNCHANGED lastModuleKind
  /\ sessionActive' = TRUE
  /\ LET c == job.of.owner
     IN  IF conn[c] = "open" /\ lastModuleKind' /\ view[c] # "active"
           THEN /\ view' = [view EXCEPT ![c] = "active"]
                /\ next' = [next EXCEPT ![c] = 0]
                /\ answered' = [answered EXCEPT ![c] = -1]
                /\ epoch' = epoch + 1
           ELSE UNCHANGED <<view, next, answered, epoch>>
  /\ UNCHANGED <<conn, activeClient, relay, usb, buffer>> /\ NoWrite

FaultyStopSession(c) ==   \* faulty variant: the queue is not emptied
  IF sessionActive THEN Write(<<Control("exit", c)>>) /\ UNCHANGED relayQueue
                   ELSE UNCHANGED relayQueue /\ NoWrite

\* stopSession up to its await.
StopSession(c) ==
  IF sessionActive
    THEN relayQueue' = <<>> /\ Write(<<Control("exit", c)>>)
    ELSE UNCHANGED relayQueue /\ NoWrite

Stop(c) ==
  /\ Ready /\ conn[c] = "open" /\ view[c] # "idle"
  /\ view' = [view EXCEPT ![c] = "idle"]
  /\ StopSession(c)
  /\ UNCHANGED <<conn, next, server, usbInFlight, usb, waiters, buffer, jobs, line, device,
                 lost, starts, overlapped, epoch, answered>>

Close(c) ==
  /\ Ready /\ conn[c] = "open"
  /\ conn' = [conn EXCEPT ![c] = "closed"]
  /\ view' = [view EXCEPT ![c] = "idle"] /\ next' = [next EXCEPT ![c] = 0]
  /\ answered' = [answered EXCEPT ![c] = -1]
  /\ activeClient' = None
  /\ relayQueue' = <<>>
  /\ IF sessionActive THEN Write(<<Control("exit", c)>>) ELSE NoWrite
  /\ UNCHANGED <<sessionActive, lastModuleKind, usbInFlight, usb, waiters, buffer,
                 jobs, line, device, lost, starts, overlapped, epoch>>

\* exitUsbNeighborMode is settled, one way or the other: the session is over.
Stopped(job) ==
  /\ job.of.what = "exit"
  /\ \/ MayPass(job.reply) /\ buffer' = <<>>
     \/ MayFail(job.reply) /\ UNCHANGED buffer
  /\ sessionActive' = FALSE /\ lastModuleKind' = FALSE
  /\ view' = [view EXCEPT ![job.of.owner] = "idle"]
  /\ UNCHANGED <<conn, next, activeClient, relay, usb, epoch, answered>> /\ NoWrite

\* The promise settled first goes on.
Run ==
  /\ jobs # <<>>
  /\ jobs' = Tail(jobs)
  /\ LET job == Head(jobs)
     IN  Relayed(job) \/ Entered(job) \/ Started(job) \/ Stopped(job)
  /\ UNCHANGED <<waiters, line, device, lost, starts, overlapped>>

-----------------------------------------------------------------------------
Next ==
  \/ Drained \/ Arrive \/ Expire \/ Opened \/ Run
  \/ Device \/ Lose
  \/ \E c \in Client : Connect(c) \/ Start(c) \/ Exchange(c) \/ Stop(c) \/ Close(c)

Spec == Init /\ [][Next]_vars

-----------------------------------------------------------------------------
(***************************************************************************)
(* Properties.  sessionActive is only set when ENTER and QUERY are over, so *)
(* a start that comes meanwhile runs beside the first: then the second one *)
(* may let a session begin whose device has left, and what is said of a    *)
(* session below is not true of it.                                        *)
(***************************************************************************)
Many(s, kinds) == Cardinality({i \in 1 .. Len(s) : s[i].what \in kinds})
Of(js) == [i \in 1 .. Len(js) |-> js[i].of]
\* Commands of these kinds that a handler waits for.
Load(kinds) == Many(writing, kinds) + Many(waiters, kinds) + Many(Of(jobs), kinds)

\* usbInFlight counts the exchanges that wait in drainRelayQueue, across lost
\* replies, timeouts, answers to the wrong waiter and ended sessions: it is never
\* set back, so an error of one would take a place in the pipeline for good.
InFlightExact == usbInFlight = Load({"exchange"})

\* A request waits in the relay queue only for a full pipeline in an active session:
\* only the end of an exchange drains the queue, so one that is left without would
\* stay there, to be sent in a later session.
NoStuckJob == relayQueue # <<>> /\ ~overlapped => sessionActive /\ usbInFlight = Depth

\* A client that relays does so in an active session: the EXIT of the stop message and
\* that of the closed socket, both on their way when the next client starts, do not end
\* its session.  When nothing is on its way the device is in the mode of an active session.
SessionAgrees ==
  ~overlapped =>
    /\ \A c \in Client : view[c] = "active" => sessionActive
    /\ sessionActive /\ writing = <<>> /\ waiters = <<>> /\ Ready /\ line = <<>> => device.active

\* A client gets the answers to its own session's exchanges only, in the order of its
\* numbers: shifted waiters, late answers and a line full of an earlier session never
\* show through.  (What SlotAdapter assumes of its transport.)
AnswersInOrder ==
  [][\A c \in Client :
       answered'[c] # answered[c] /\ answered'[c] >= 0 /\ ~overlapped =>
         /\ answered'[c] > answered[c]
         /\ Head(jobs).reply.of.owner = c /\ Head(jobs).reply.of.epoch = epoch]_vars

\* An exchange is written to the device within the session of the client that sent it, and
\* never behind the EXIT of that session, for whose answer sessionActive still waits.  Starts
\* that overlap break it: the queue of an ended session is sent in a later one.
Pending == ToSet(writing) \cup ToSet(waiters) \cup {job.of : job \in ToSet(jobs)}
RelayedInSession ==
  [][~overlapped => \A i \in Len(toDevice) + 1 .. Len(toDevice') :
       toDevice'[i].what = "exchange" =>
         toDevice'[i].epoch = epoch /\ \A c \in Pending : c.what # "exit"]_vars

=============================================================================
