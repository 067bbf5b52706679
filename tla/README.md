# Verification of i2s_synths

The repository holds the firmware of a chain of ESP32 audio modules, a browser
simulator that runs the same modules as WebAssembly, and a bridge that puts one
real module into the simulated chain over USB. This directory specifies the
parts of it whose behaviour depends on the order of events, in TLA+: the
modules are checked with TLC on small instances, and what matters most about
them is proved with TLAPS for every value of the constants.

Paths in this file are relative to the repository's root.

## 1. Inventory

### Firmware (`src/`, one thread per module, plus the DMA interrupts)

| Component | State | Operations | What makes it correct |
|---|---|---|---|
| Sketch loop (`i2s_synths.ino`) | smoothed pots, "I2S suspended", which loop runs | `loop()` | a period is processed either for I2S or for USB; EXIT brings I2S back |
| USB neighbor (`src/hardware_bridge/`) | mode, sequence baseline, pot snapshot, output buffers | ENTER, EXIT, EXCHANGE, LOOPBACK, QUERY; read a frame, write a reply | replies in order and paired, no exchange applied twice or skipped, a session starts from any sequence number |
| Pots (`src/input/pots.h`) | smoothed readings | `potsUpdate` | the controls follow the knob |
| Merger (`src/modules/merger.h`) | two rings | upstream and downstream period, setup | the rings are drop-oldest queues, padding ends the underruns |
| Delay (`src/modules/delay.h`) | tape, span, two crossfade stages | upstream and downstream period, setup | reads stay on the tape, a span change does not replay or skip |
| I2S streaming (`src/streaming/`) | per direction: last input, preload, counters shared with the interrupts | process, process muted, suspend, resume | the counters agree with the DMA queue, each input processed once |
| Cutoff, debug tone, passthrough | one filter or oscillator | one period | arithmetic |

### Simulator (`sim/host/`, one JavaScript thread; `await` and callbacks interleave)

| Component | State | Operations | What makes it correct |
|---|---|---|---|
| Chain scheduler | last outputs of the units, delay line of the hardware slot | `setSlots`, `processBuffer`, `reset` | which period of a neighbor a unit hears |
| Hardware slot adapter | outbound queue, submitted window, playback queue, sequence, depth | `pushPeriod`, `popOutputs`, `_tickExchange`, start, stop | frames go out in order and once, what is played is in device order |
| Bridge client | socket, pending exchanges, control waiters, session state | connect, start and stop session, reconnect, `relayExchange`, the socket's events | each response reaches its own request, no promise hangs |
| Web Serial transport, frame reader | port, reader loop, waiters | the same interface over a serial port | the same |
| Session manager | kind of transport, retry count, timer | start, stop, reconnect, auto retry | retries are bounded, one transport owns the port |
| Page (`main.js`) | units, their modules, hardware unit, rebuild in progress | connect, disconnect, reconnect; add, delete, move and retype units; start, stop and rebuild audio | the session ends with its operations, the scheduler has the chain that is shown |
| Audio engine | context, nodes, microphone, playback queue | start, stop, firmware buffer | one context with all its nodes, or none |

### Bridge server (`sim/hardware-bridge/`, one Node thread)

| Component | State | Operations | What makes it correct |
|---|---|---|---|
| `server.mjs` | session owner, relay queue, in-flight count | start and stop session, exchange, close | one session at a time, the port is left in I2S mode |
| `usb-relay.js` | port, frame reader, waiters | open, drain, enter, exit, exchange | frames match waiters |

The parts interact through the wire (page, WebSocket, server, serial line,
device), through callbacks of the transports (`onStateChange`, `onFatal`) and
through the shared counters of the interrupts. The hard behaviours are the
frames that wait in the device's serial buffer while its loops change, lost
replies, hosts that die within a frame, responses after a timeout, promises
that settle in another order than they were made, two sample clocks that drift,
and rings that wrap. `PROJECT.json` lists them at their lines ("hazards").

## 2. Modules

### UsbNeighbor: the device side of the USB bridge

One action per command (`EnterUsb`, `ExitUsb`, `ExchangeUsb`, `LoopbackUsb`,
`OtherCommand`) and one per loop that reads frames. The device has one thread,
so reading, handling and answering a frame is one step; `pc` is the loop that
does it: `realtime` is `bridgeTransportRunUsbRealtimeLoop`, `service` and
`burst` are `bridgeTransportServiceActive` and `bridgeTransportPoll` (which does
not look at the mode again between two frames), `loop` and `idle` the rest of
`loop()`. The host is the most general one: any frame at any time, replies
unread for ever, death between two frames or within one (`HostCrash` leaves a
`Torn` frame on the line, on which the device waits for five seconds,
`ReadTimeout`), and another host later (`HostReopen`, modelled from the way
`usb-relay.js` drains the line). A frame whose length prefix no frame has is taken
off the line without a reply (`BadLength`; what follows it is read as frames of their
own, which the general host may send anyway). A reply that cannot be written is lost
(`Write`), and the host is then owed none.
A buffer of samples is the number of the request it was computed from, which is
all that "its own samples" needs. `owed` and `log` are history variables.

Left out: the fields `processing`, `hasQueued`, `pendingOverrun` and `loopback`,
which the handlers set and clear within one step, so no other handler ever sees
them set; timing telemetry; text. A short write loses the whole reply here; in the code
its front part may stay on the line, and a host that stalls so long and then goes on
would read the next reply out of step. A host that opens the port anew drains it.

### MergerRing, MergerQueues, Merger: two clocks and two rings

`MergerRing` has the ring operations of `merger.h` as operators on a record of
the array and its indices. The code has the ring twice, line by line, so the
operators take the ring as an argument. `Merger` has one action per direction
and `moduleSetup`; the order of the directions is free (two I2S clocks).
`MergerQueues` is the abstract specification: two first-in first-out queues that
forget the oldest samples, without any array. `QueuesSpec` says that `Merger`
implements it under the mapping `Contents`. Gain, compressor and mixing are
arithmetic on samples and are left out: `downstreamMix` and `upstreamMix` are
what a period takes from the ring. The default capacity is a multiple of the
period, so that the second `memcpy` only runs when `MERGER_RING_CAPACITY` is
overridden; the run takes a capacity that is no multiple.

### ChainWiring, ChainScheduler: the sweep over the chain

`processBuffer` goes once through the slots, from the right to the left, and
overwrites the outputs of the units in place (`prevDsOut`, `prevUsOut`). In
`ChainScheduler` every turn of that loop is an action (`Step`), so that a turn
reads what the turns before it have left. `SetSlots` is a rebuild: it clears the
links and the delay lines and fits them to the new chain. The two delay lines of
the hardware slot are `Newest(Append(line, value), depth)`; `Newest` is in
`BoundedQueue`, because the slot's queues are cut in the same way. A buffer is a
value that a unit may put out; the conversion between integers and floats, the
levels and the stress flags are left out. So is a chain without units, which the
page does not start.

`ChainWiring` is the abstract specification: a synchronous network in which all
units hear their inputs at once: downstream the outputs of the last period,
upstream those of this one. `WiringSpec` says that the sweep implements it. It is what makes the
in-place loop correct, and it shows which unit hears which period.

### SlotAdapter: the hardware slot and its exchanges

JavaScript has one thread. A task (the interval timer, a period of the chain, an
event of the socket, a click) runs to its end; then the callbacks of the promises
it settled run, in the order they were settled. The variable `jobs` is that
queue, and a task starts only when it is empty. An exchange in flight is a run of
`_tickExchange` that waits in `_submitExchange`: when it is settled it first
does the rest of `_submitExchange` (`Settle`), then goes on with its loop
(`GoOn`), at the end of the queue. This is where the order matters: settled
exchanges of an ended connection go on like any other, find frames in the queues
and hand them to the transport.

| Action | Code |
|---|---|
| `Tick`, `GoOn`, `Submit`, `Settle` | `hardware-slot-adapter.js`, `_tickExchange` and `_submitExchange` |
| `ChainPeriod` | `pushPeriod` and `popOutputs`, called once a period by the scheduler |
| `Respond`, `Expire`, `LinkLoss`, `Reconnect` | `bridge-client.js`: an answer (matched by its number, else given to the oldest request), the 15 s timer, `onclose`, `reconnect` |
| `Connect`, `ConnectFails`, `DeleteUnit`, `Disconnect`, `EndSession` | `main.js`: `connectHardware`, its failure, `deleteUnit`, `disconnectHardware` before and after its awaits |

The transport is as general as the slot sees it: answers come in the order of
the device, any of them may be lost (and with it every later one, as after a
gap). A frame is the number of its period. Underruns and round-trip times are
not counted; the model may widen the window or deepen the rings after any
answer, which the code does after some. `sent`, `answered` and `lastPlayed` are
history variables.

Left out: the branch of `_submitExchange` for an answer with a sequence gap. It
cannot run: `usb-relay.js:187` and `web-serial-transport.js:319` turn every
status other than OK into an error before the answer gets to the slot. Clicks
while a disconnect waits for the transport are left out, too. `ConnectFails` is one
step: the page waits in between, but all that can come there is an answer, as if it
had come before.

The model shows an effect that no property states, because nothing in the
repository promises otherwise: a new period takes the free front place
(`pendingOutbound`) while older ones are still in `outboundQueue`, and overtakes
them.

### BridgeServer: the server between WebSockets and the serial line

Node has one thread. An event (a message, a chunk of bytes, a timer, a drained
write) runs to its end; then the promises it settled go on in order (`jobs`,
`Run`). The functions that wait are cut at their awaits: a command of
`sendAckCommand` or `relayExchange` is first in `writing`, then in `waiters`, and
any number of handlers may wait at once.

| Action | Code |
|---|---|
| `Drained`, `Arrive`, `Expire` | `usb-relay.js`: `readFrame` after `writePort`, `onData` with a chunk of any number of frames, the 15 s timer with its `reset` |
| `Exchange`, `Relayed` | `server.mjs`: `enqueueRelay`, `drainRelayQueue` |
| `Start`, `Opened`, `Entered`, `Started` | `startSession` from await to await |
| `Stop`, `Close`, `Stopped` | the stop message, the closed socket, `stopSession` |
| `Connect` | a connection, refused while another one is active |
| `Device`, `Lose` | the device as in `UsbNeighbor`, and a line that loses a request or a reply |

A frame is a record of the command it answers and a status. What a byte stream
does with it is in `FrameLink`; here a reset in the middle of a frame leaves
nothing, or a frame of "garbage" that may swallow those behind it. A client
relays while it believes its session active and numbers its exchanges from zero,
as `bridge-client.js` does. `epoch` and `answered` are history variables.

`overlapped` says that a start was asked for while another one was between its
awaits. `sessionActive` is set at the very end of `startSession`, so the second
one passes its test. Then a session can begin whose device has left the mode, and
the queue of an ended session is sent in a later one: `NoStuckJob`,
`SessionAgrees`, `AnswersInOrder` and `RelayedInSession` are only stated for runs
without it. `InFlightExact` holds in all of them.

A reply that takes longer than the 15 seconds of its waiter is left out
(`Expire`): the device waits five seconds for a frame at most, and then answers or is
silent. Without this assumption `SessionAgrees` fails: the server gives up an ENTER
that the device still obeys.

Left out: unplugging the device, the signal handler, the messages for ping and
the list of ports. A port that is attached when the server begins to listen is an
initial state.

### HardwareSession: buttons, session manager, two transports

An operation (connect, disconnect, reconnect, automatic retry) is an async
function; `op[t].at` is where it is. In the labels of `Running` it goes on at
once, in those of `Waiting` it waits for a socket, a port, an answer or a timer
while clicks and events change the page under it. Two operations may run at once:
nothing in `main.js` disables the buttons while one waits.

| Action | Code |
|---|---|
| `ConnectHardware`, `DisconnectHardware`, `ReconnectHardware`, `SelectTransport`, `Left`, `Fail` | `main.js` |
| `Begin`, `Succeed`, `Again`, `Stopped`, `AutoRetry`, and the operators `Cancelled`, `Scheduled`, `HandleLinkLoss` | `hardware-session-manager.js` |
| `Connect`, `Ask`, `Send`, `StartTimeout`, `StartedMsg`, `SocketOpens`, `SocketCloses`, `Stop`, `Leave` | `bridge-client.js` (`Connect`, `Ask`, `Stop` and `Leave` for both transports) |
| `PortOpens`, `Acks`, `Exited`, `PortGone`, `SerialLinkLoss`, and the operators `TornDown`, `Unopened`, `Fresh` | `web-serial-transport.js` |
| `HeldPortPulled` | the browser closes an open port when its device goes |

`serial` is the page's port object and the browser's port behind it together. The
transport never takes the frame reader's lock off `port.readable`
(`web-serial-frame-reader.js:88`), so the browser refuses the `port.close()` of
`_teardownPort` (`web-serial-transport.js:219`); the error is swallowed and the object
forgotten. The port is "held" then: still open, with no object for it. Opening it again
fails, and a failed reconnect leaves an object of a port it cannot use ("locked"). The
model has one device, so `requestPort` always gives the same port. Only when the device
goes does the browser close the port.

`overlapped` says that operations met, or that the late close of an old socket
met a newer session (`bridge-client.js:100` does not look which socket closes).
`ActiveOwnsPort`, `AdapterFollows` and `AllReleased` are stated for runs without
it; with it a second Connect leaks a socket and takes the waiter of the first, and
the slot of a degraded session stays connected. `OpsEnd` holds in all runs.
The model shows that no retry is scheduled at all without overlap (section 6),
and that the limit of three retries never ends them with it, because
`_scheduleAutoRetry` calls `cancelAutoRetry`, which sets the count to zero
(`hardware-session-manager.js:60`).

Left out: the answer "stopped" to the end of a bridge session (the page does not wait
for it and closes the socket next, so it is delivered to nobody); a status message that
this server does not send; the manager that `reconnectHardware` makes for a degraded
unit without one, which takes more clicks than the bound. A module of another kind that
answers a connect is disconnected twice in the code, by `handleFatalDisconnect` and by
the `catch` of `connectHardware` (`main.js:809`), side by side; both do the same and the
model does it once (`Succeed`). Over Web Serial a click could come between the two ends;
that is left out.

### FrameProtocol, FrameLink: the bytes on the line

`FrameProtocol` has the four copies of `frame-protocol.js` and the firmware's own
layout, byte for byte: builders and parsers of page, bridge server, realtime and
offline tools side by side, each with its own idea of a good status. `Put16`, `Put32`,
`Get16` and `Get32` are the little-endian accessors of a `DataView`. `FrameLink`
puts one of the four programs on a line with the device: the readers with their
buffer, their waiters and their resynchronisation, the order of commands of each
program, and a device that answers what it could parse. Chunks are cut anywhere;
stray bytes, silence, refused exchanges and reads that give up happen within
their bounds. `MaxInner` is 8000 where the code has 33000: with a period of one
sample it lies between the same two lengths (an ack and a response, both read from
the second byte of their prefix on), which is all the readers tell apart.

A behaviour is one session; over Web Serial the page may come back after a lost
link, with the waiters of the old session still in the reader
(`web-serial-transport.js:176` rejects promises but leaves the waiters). The
model shows more such effects, which `trouble` names and the properties are
premised on: a stray byte makes a plausible length that swallows the next ack;
an odd number of them makes a response whose samples cannot be read; the offline
tools lose what arrives between two reads. The answer of an exchange that was given up is
ignored here (`Settle`), where the code hands it to the oldest exchange that is pending in
the new session (`web-serial-transport.js:334`), or takes its bad status for a lost link
(lines 310-311); that is trouble "stale", after which nothing is claimed of results. `InStep` and `FailsForCause` are stated for
a line on which nothing has gone wrong, `ResultsTrue` with stray bytes as well.

### PageAudio: units, modules and the audio engine

The handlers of the page from await to await: loading a WASM module, opening and
closing an `AudioContext`, its worklets, the microphone. `ops` are the handlers
that have begun; every node of the engine is known by the number of its context,
so that a node of an old context, or a context that nobody closes, shows. `slots`
is what `syncBindingsToScheduler` told the scheduler last.

| Action | Code |
|---|---|
| `NewContext`, `Resumed`, `ChainLoaded`, `PlaybackLoaded`, `MicAnswers`, `WorkletFails`, `StopEngine`, `Closed` | `audio-engine.js`: `start`, `stop` and what they call |
| `StartClick`, `Rebuild`, `AfterStop`, `Started`, `Failed` | `main.js`: `onStartClick`, `rebuildAudioIfRunning` |
| `AddUnit`, `DeleteUnit`, `ChangeModule`, `SetHardwareDesignated`, `Drop`, `ToggleLoopback`, `Loaded`, `LoadFails` | `main.js`, the units |

The premises of the properties are the kinds of `trouble`: "overlap" (Start is
clicked while a rebuild or a stop is on its way: a second context replaces the
first, the end of the close takes the new nodes away, a microphone stream stays
on), "failed" (a start that throws leaves its context open), "cut" (the last unit
is deleted while a handler starts or stops the engine), "crossed" (loads of a unit end in another order
than they began, or under a unit that was made a hardware slot meanwhile),
"unloaded" (a load that fails leaves the new name with the old module).

Left out: the flags of the hardware connection (`HardwareSession`), pots, the
state of a drag, the playback queue and the worklet.

## 3. Runs

| Run | Bounds | What it shows |
|---|---|---|
| `usb_neighbor` | 3 sequence numbers, 2 frames in the receive buffer, 1 unread reply, 2 exchanges of a session | seven safety properties and `ExitRestoresI2S` over 1.2 million states, with every kind of frame the device tells apart. Two frames in the buffer suffice for a frame to be read by another loop than its predecessor; one unread reply for a lost reply between two others; two exchanges of three numbers for a session across the wrap |
| `pots` | one knob position, 1 frame | violation, see section 6 |
| `merger` | capacity 5, periods of 2 samples, 2 periods of jitter | both rings overflow, wrap inside a period and run empty in both orders, 271 thousand states |
| `chain` | chains of two and three units, buffers of two values, small ring depths | type correctness, the alignment of the delay lines and the refinement, in every order of rebuilding, mic, loopback and growing rings. Three units have an interior unit, a left and a right one |
| `slot_adapter` | rings of one and two frames, two requests at once, five periods of a connection | 285 thousand states. Five periods overflow the deeper ring with two requests in flight; two requests suffice for an answer that settles the other one |
| `drop_oldest` | the same | violation, see section 6 |
| `bridge_server` | two connections, two sessions, seven exchanges of a session, one loss; `Depth` and `QueueLimit` are those of the code | 3.1 million states. Two connections for the one that closes while the next one starts; seven exchanges fill the pipeline (2), the relay queue (4) and drop one; one loss shifts every later answer |
| `hardware_session` | two operations at once, two sockets, four clicks, three retries as in the code | 155 thousand states, safety and `OpsEnd`. Two operations for one that changes what another waits for; two sockets for the old one that closes late; four clicks for connect, disconnect and connect again with one more in between |
| `degraded` | the same | violation, see section 6 |
| `port_closed` | the same | violation, see section 6 |
| `frame_link` | periods of one sample, five operations, one each of stray byte or silence, cut chunk, early read and bad status | 828 thousand states. Five operations are enter, query, two exchanges in flight and exit; one mishap is enough to bring reader and line out of step |
| `page_audio` | two units, two modules, four clicks, one load that fails | 1.3 million states. Two units for an order and a sole survivor; four clicks for a rebuild that meets another one during a start |

Fairness of the slot: `FairSpec` of `SlotAdapter` assumes that the browser runs
settled callbacks and the timers that are due: strong fairness for the interval
timer, which is only looked at between other tasks and only does something while
the session is active; weak fairness for callbacks and for the 15 s timer of a
request. Nothing is assumed of the device, the link or the user.

Fairness of the device: `FairSpec` of `UsbNeighbor` assumes weak fairness of the device's steps only. The
device is one thread in an endless loop, and none of its waits is unbounded (a
frame that never gets whole is given up after five seconds). Nothing is assumed
of the host.

Fairness of the session: `Fairness` of `HardwareSession` assumes weak fairness for
the script (`Continue`), and strong fairness for what the browser, the user or a
timer settles (`Resume`, and the sockets that open or close): each wait for the
device has a timer, a dialog for a port is answered or cancelled, and the event
loop comes to each of them again and again although a task in between disables it
for a moment. Nothing is assumed of clicks, retries, the server's answers or the
link.

`CHECK_DEADLOCK` is off in `bridge_server`, `hardware_session`, `degraded`,
`port_closed`, `frame_link` and `page_audio`: there the user may stop, all connections may be
used up and a session may be over, and then the system really stops. It is on in
all other runs.

Larger bounds were tried without an error: `bridge_server` with three sessions
of three exchanges, `hardware_session` with three sockets and five clicks (safety
only), and, as far as the time went, `page_audio` with five clicks and
`frame_link` with two mishaps or two cut chunks.

## 4. Proofs

Every theorem holds for every value of the constants that their assumptions
allow, without the state bounds of the runs.

`UsbNeighborProofs`: the invariant `IInv` has four parts. `TypeOK` and
`AudioOwnership` are inductive together. `History` adds `Baseline` (the sequence
number the device remembers is that of the last entry of the session's log, or
the log is empty) to `AcceptedInSequence`, which says nothing of the state by
itself, and `Switched` (an exchange with physical pots in the log means the
session still has them) to `ControlSource`. `InOrder` adds to `RepliesMatch`
which frames the unanswered ones are: those in the receive buffer. Each handler
keeps all parts (`HandlerSafe`), each loop only chooses a handler (`DeviceSafe`),
the host's steps touch the wire alone (`HostSafe`). The action properties
`AppliedIffOk` and `GapNeedsBaseline` follow step by step from `IInv`.

`MergerProofs`: first the ring, then the module. `PushFacts` and `PopFacts` say
what a push and a pop do to `Contents`; they rest on `FilledFacts` (the two
copies put every sample into its place, across the end of the array) and
`DropIsSuffix`. The refinement `QueuesSpec` follows from them action by action.
`UnderrunsStop` needs an inductive invariant that ties the counts of both rings to
the history: with room for the jitter, the count of the first ring is
`(skew + 2 underruns)` periods.

`ChainProofs`: `Aligned` says that both delay lines of the hardware slot are the
newest part of one history; `PushAligned` shows that a push keeps it whatever the
two depths are. The refinement needs `Sweep`, what the links hold in the middle of
a pass: new outputs on the side that has been visited, old ones on the other.
`Lag` is `HardwareLag` with `Aligned`. What `Newest` returns (`NewestFacts`) is proved in
the two modules that need it.

`SlotAdapterProofs`: `TypeOK` and `NoHostGap` do not stand by themselves. The
invariant adds `Counted`. While the slot is connected it is `CountExact`. After
it has stopped, the count starts from zero below the requests that are still in
flight; the invariant says that all that waits in the transport and all jobs
belong to these strays, and so none of their loops can find the transport full
and spend a number. `Idle` (only an active session has requests waiting) makes the
next connection start clean, and `LastSent` ties the next number to the log. The
lemmas before it count settled exchanges in a queue of jobs with a bijection.
`PlayedInOrder` has its own invariant: what waits in the inbound queue climbs, lies
above what was played last and not above the last answer (`Playing`), and the one
answer that has been settled and has not gone on is newer than all of it (`Arriving`).

`BridgeServerProofs`: `TypeOK` needs that the count never gets below zero, and
`InFlightExact` that every job of an exchange was counted, so the two are one
invariant with `Queued` (only exchanges wait in the relay queue) and `Begun` (the
session clients have seen, the starts between two awaits and the open port are
together no more than the starts asked for, which bounds `epoch`). The
lemmas about `Many` say what a step of the reader does to a count of
commands: taking from the head of a sequence and appending to another one moves
it, and `Arrive` moves a whole prefix from the waiters to the jobs (`Moved`).

Its second half goes on from that invariant to the sessions. The center is
`Awaited`, the commands that handlers wait for, in the order in which they will go
on: those of the jobs, of the waiters and of the writes. The steps of the reader move
a command from one of the three to the next and leave `Awaited` as it is
(`JoinDrained`, `JoinServedAll` ...), a write appends to it, a settled promise takes
its first element. The invariant `SInv` says of it, when no two starts overlap:
a start is the last command there is and no session is active beside it
(`Starting`); with an EXIT on its way the relay queue is empty and nobody relays
(`Leaving`); and a client that relays does so in an active session, whose requests
alone are in the queue (`Relaying`, with `NoStuckJob`). This needs `Turn` (nobody waits
while a frame is in the buffer: otherwise a drained write would overtake the waiters)
and `OneClient`. `RelayedInSession` follows: only `drainRelayQueue` writes exchanges, and
when it has any, no EXIT is awaited.

Its third part adds what is on the line (`LInv`). The replies that the jobs bring, those in
the buffer and on the line and the commands on their way to the device are `Coming`, in the
order in which handlers will see them, with the relay queue behind them. Losses shift them, so
no handler can count on its own reply. What holds is `Served`: the answers *embed* in the
commands that wait for them (`Embeds`: order is kept, and a reply comes to a waiter not later
than its own). So a waiter gets its own reply or that of a later command, and the last one its
own or none: a start, which waits last while no starts overlap, is never taken to have worked by
a reply to something else (`OwnReply`). That gives the mode of the device (`Following`): either
it relays and no EXIT is on its way to it (`Kept`), or no ENTER is answered, no QUERY is
awaited, and the session is over or told to end (`Apart`). `SessionAgrees` is the first part of
`Relaying` and `Following` with an empty line. `AnswersInOrder` comes from `Numbered`: the
exchanges in `Coming` rise in number, belong to the session of the moment and to one client,
and are newer than the last answer; every step only loses some of them (`Tamer`) or adds the
next number at the end (`ExchangeNumbered`). When a session begins nothing waits, hence by
`Served` nothing comes: a late answer of the session before cannot appear in it. `Timely` says
that a timeout goes on alone, which is what keeps the order of `Coming` when the buffer is
emptied. This is the promise that `SlotAdapter` takes from its transport (`PlayedInOrder`).

`PageAudioProofs` has all five properties of `PageAudio`, each from an inductive
invariant beside `Typed`, the form of the types that the steps keep. `Typed` has
what `TypeOK` needs and does not say: numbers of contexts and units that handlers hold
are numbers there are, and `Rebuilds` ties `rebuildInProgress` to one handler from its
stop of the engine to its end. `Sole` widens `SoleUnit` from the running engine to
every handler in it. `Synced` and `Sound` carry `SlotsFollow`: the scheduler has the
units, or a module is on its way whose handler will tell it; a unit has the module it
is named for, or waits for it. `Orderly` carries `ShownAsRunning`: without an overlap
at most one handler is in the engine, and while it is, the engine does not run, its
context is open and the one the handler awaits, nodes are made in it in the order of
the awaits, and the button is what the end of the handler expects. So no start loses
its context and no close is refused, and a start that fails has a worklet that did not
load. A rebuild that finds `rebuildInProgress` set finds a stopped engine, which is
why skipping it loses nothing. `Neat` goes on from there to `EngineWhole`: without a
failure no context but the engine's is open, and a source is left only to the handler
that closes it. Two lemmas per invariant do most of the work, one for a handler
outside the engine and one for the handler in it (`OutsideOrderly`, `InsideOrderly`).

`HardwareSessionProofs` has three invariants. `Sound` has the types and the places: an
operation is only where its kind of operation can be (`Shape`: no retry is ever at the
dialog of a disconnect), holds a manager where it needs one, and the waiter of the bridge
client is an operation that waits for a start. `Budget` bounds the retries of a manager
by the operations that try on it (`Triers`): `operatorReconnect` counts up when an
operation begins to try, and the count is forgotten before the try is over. So the bound
that `TypeOK` gives the count needs fewer operations at once than `AUTO_RETRY_MAX`, which
is the hypothesis of `SessionTyped`; with three operations at once TLC finds a count of
four after three retries. `Calm` is for the three other properties. It says that nothing
has met (at most one operation is busy) and reads off from its place what both transports
hold: `BridgeAt` and `SerialAt` give for each `await` the session state, the socket or
port and the owner of the port, and the other transport has nothing (`BridgeClear`,
`SerialClear`). Between operations the unit is `Off` or `On`. It is needed because the
properties speak of moments between operations only, and say nothing of the middle of a
connect or of a failure halfway. One lemma per action says that the operation arrives
where the table expects it; the late events of a socket are those of the one socket that
is alive (`OldSockets`), unless they count as a meeting. `NeverDegraded` comes from the
same invariant: see `degraded` in section 6. `NeverClosed` needs no invariant: no step but
the loss of the device takes an open port to a closed one, see `port_closed`. The constants are assumed to be what
JavaScript gives: finitely many operations, none of which is the value that stands for
nobody.

`FrameLinkProofs` begins with bytes. `AnswersRead` needs no run: for every length of a
period and every content, what the firmware lays out is what the four parsers give back
(`Laid` says which field lies where, `Holds` that a part of a sequence is another one). It
rests on the digits: `Put32` and `Get32` are inverse to each other below 2^32.

The readers are recursive functions: a flush takes frame after frame (`Takes`), and the
line is the concatenation of all answers (`FlattenSeq`). What they compute is proved by the
least number for which it fails: `Least` (a set of numbers has a least element, from
`WellFoundedInduction`) and `UpTo`, which says of a *set* what an induction says of a
predicate, so that no theorem takes an operator. `LinkTypes` has the inductive invariant
`LinkInv`. `TypeOK` bounds the waiters, which needs `Queueing` (waiters rise in number, and
are just the operations that read, unless Web Serial gave some up) and `OneByOne` (only
exchanges over Web Serial run beside others, and only two of them). `Asked` says which
requests the device has not looked at: those of the last operations.

The other three come from `TruthInv`, which adds `Kept`, true whatever goes wrong, and
`Clean`, true while nothing does. `Kept` says that the device answers in the order of the
operations, and only what was asked (`Told`), that whoever reads is among the waiters
(`EachWaits`), and which operations a state of the session allows (`InSession`: no answer to
an exchange finds the session closed). `Clean` says that buffer and line are, byte for byte, the
answers owed, in order, with the buffer at an even address (`Match`), and that what has ended has
ended with what was said of it (`Truthful`). None of this is inductive alone: `Match` is what makes
the next read begin at a prefix, `Asked` and `Told` give that prefix the length of
one answer, `Queueing` hands the answer to the operation it is for, and `Truthful` needs
the samples to be readable there, hence the address. The offline reader skips to a magic number
and takes a frame by the size of the command it waits for; that this is the frame it is owed needs
the same facts. At the center are `FlushFacts` and `FlushRight`: a flush takes as many whole
frames as somebody waits for and the buffer has, however the chunks were cut.

The proof changed the model in three places. `Just` looked for an operation that begins and ends
in one step among those before it, where it is not. `InStep` and `FailsForCause` had exceptions for
a session that is over or lost, which the invariant does not need; they have none any more.
`LinkAssumption` says what
the readers must accept (the longest answer fits into `MaxInner`) and that numbers and
lengths fit into four bytes, which the code's 33000 and its counters grant. Samples of
`PeriodOf` are 15 bits wide, as `deterministicPattern` masks them.

TLC alone: the liveness properties `ExitRestoresI2S`, `NoWedge` and `OpsEnd` (the prover has
no rules for liveness under fairness), and `ResultsTrue` after stray bytes. `LinkResults` has it
for a line on which nothing has gone wrong. With stray bytes it depends on the constants: enough of
them before a prefix make a plausible length of any size, and noise can then fill up a short
answer to one that parses. The run allows one stray byte, with which this cannot happen.

## 5. What is not modelled

`PROJECT.json` lists every component with its status. Arithmetic on samples
(filters, oscillators, compressors, level meters), drawing, logging, build
scripts and the programs that measure the others from outside have no state that
other parts share. The `offline_neighbor.h` variant is not in the module images.

The I2S streaming with its interrupts and the tape of the delay module have such
state, and are not modelled yet (section 7). The playback queue and the worklet of
the audio engine are left out: they belong to two threads that share nothing but
messages of samples.

## 6. Findings

`pots` (`PotsApproachKnob`): within a session that asked for the physical pots
the device samples them at most once, before it enters the realtime loop
(`i2s_synths.ino:88`, `usb_transport.h:305`). The specification of the bridge
(`openspec/specs/hardware-module-bridge/spec.md:418-422`) says that the smoothed
value approaches the knob's position over multiple periods.

`chain` (`WiringSpec`): the upstream pass goes from the right to the left and has
overwritten `prevUsOut[slot + 1]` (`sim/host/chain-scheduler.js:238`) when the slot to
the left reads it (line 180). Every unit hears the upstream output of its right neighbor
in the same period, which is what `ChainWiring` says and the run and the theorem
`Refinement` confirm; `openspec/specs/module-chain-simulator/spec.md:216` says it is
delayed by at least one period.

`drop_oldest` (`DropsOldest`): when the device is slow, `pushPeriod` drops from
`outboundQueue` (`sim/host/hardware-slot-adapter.js:130`) while the front place keeps
an older frame; `openspec/specs/hardware-module-bridge/spec.md:534` says that the
oldest exchange that is not in flight is discarded.

`degraded` (`LossIsRetried`): `_handleLinkLoss` acts only on an active session
(`sim/host/hardware-session-manager.js:46`), but both transports have left that state
when they call it (`sim/host/bridge-client.js:107`,
`sim/host/web-serial-transport.js:180`). The page does show that the connection is lost,
with a banner and a Reconnect button, from the transport's state (`sim/host/main.js:206`,
693, 708). But no automatic retry is scheduled, and the click on Reconnect returns at once,
because the unit was not marked degraded (`main.js:818`).
The operator guide (`sim/HARDWARE_OPERATOR.md:95`) tells the operator
to click it or to wait for up to three retries, `sim/README.md:198` says the same in
short. The theorem `NeverDegraded` says that this is so whatever the link does: until
operations meet, no retry is ever due and no unit rests marked as degraded.

`port_closed` (`PortIsClosed`): `_teardownPort` closes a port whose reader is locked
(`sim/host/web-serial-transport.js:219`, `sim/host/web-serial-frame-reader.js:88`); Web
Serial refuses that, and the error is swallowed. After a disconnect the browser keeps the
port open: no other program gets it, and the next connection to it fails in `open` (lines
98 and 242) until the device is unplugged or the page reloaded.
`sim/HARDWARE_OPERATOR.md:71` says to disconnect before an upload or the serial monitor, and line 103 to
disconnect and connect again after a mismatch of the sequence. `AllReleased` says what the
page does give up, `NeverClosed` that no step of the page ever closes an open port.

## 7. Plan

Done: `UsbNeighbor`, `Merger`, `ChainScheduler`, `SlotAdapter`, `BridgeServer`,
`HardwareSession`, `PageAudio` and `FrameLink` with their proofs.

Left, in this order:

1. `I2SPipeline`: main loop and interrupts; each input is processed once, the
   counters agree with the DMA queue.
2. `DelayTape`: the tape, its span changes and crossfades; reads and writes stay on
   the tape for any capacity.
