---------------------------- MODULE SlotAdapter ----------------------------
(***************************************************************************)
(* The hardware slot of the simulated chain (hardware-slot-adapter.js): it *)
(* turns the periods of the chain into exchanges with the device and plays *)
(* what comes back.                                                        *)
(*                                                                         *)
(* The page has one thread.  A task (a timer, a period of the chain, an    *)
(* event of the transport, a click) runs to its end, then the callbacks of *)
(* the promises it has settled run one after the other: jobs is that queue, *)
(* and a task only starts when it is empty.  An exchange in flight is a    *)
(* run of _tickExchange that waits in _submitExchange; it looks neither at *)
(* connected nor at the session again when it goes on.                     *)
(*                                                                         *)
(* The transport is seen from here: it takes requests while its session is *)
(* active; answers reach it in the order of the device, some are lost, and *)
(* a request that gets none is given up after 15 seconds.                  *)
(***************************************************************************)
EXTENDS Integers, FiniteSets, SequencesExt, BoundedQueue

CONSTANTS
  RingDepth,      \* DEFAULT_RING_DEPTH
  AdaptiveDepth,  \* ADAPTIVE_RING_DEPTH
  Pipeline,       \* the requests a transport takes at once
  Periods         \* bound: periods of the chain in one connection

ASSUME AdapterAssumption ==
  /\ RingDepth \in Nat \ {0} /\ AdaptiveDepth \in Nat /\ RingDepth <= AdaptiveDepth
  /\ Pipeline \in Nat \ {0}
  /\ Periods \in Nat

VARIABLES
  connected,       \* and its timer, which start and stop set together
  pendingOutbound, outboundQueue, inboundQueue,
  sequence, inFlightCount, maxInFlight, maxInbound,
  jobs,
  session,             \* of the transport: sessionState
  pendingBySequence,   \* of the transport, oldest first
  slotted,         \* the scheduler has a connected hardware slot
  leaving,         \* disconnectHardware waits for the transport
  period,          \* the number of the chain's period, which stands for its buffers
  sent,            \* history: the requests of this session of the device
  answered,        \* history: the last of them whose answer has arrived
  lastPlayed       \* history: the sequence number played last, since start

queues == <<pendingOutbound, outboundQueue>>
settings == <<maxInFlight, maxInbound>>
page == <<slotted, leaving, period>>
vars == <<connected, queues, inboundQueue, sequence, inFlightCount, settings,
          jobs, session, pendingBySequence, page, sent, answered, lastPlayed>>

None == 0
Frame == 1 .. Periods
Request == [sequence : Nat, frame : Frame]

\* A settled exchange with the sequence number of its answer (or of the request
\* that gets none), and a tick that goes on with its loop.
SettleJob(ok, number) == [do |-> "settle", ok |-> ok, sequence |-> number]
LoopJob == [do |-> "loop", ok |-> FALSE, sequence |-> 0]
Job == [do : {"settle", "loop"}, ok : BOOLEAN, sequence : Nat]

TypeOK ==
  /\ connected \in BOOLEAN /\ slotted \in BOOLEAN /\ leaving \in BOOLEAN
  /\ pendingOutbound \in Frame \cup {None}
  /\ outboundQueue \in Seq(Frame) /\ Len(outboundQueue) <= maxInbound
  /\ inboundQueue \in Seq(Nat) /\ Len(inboundQueue) <= maxInbound
  /\ sequence \in Nat
  /\ inFlightCount \in -Pipeline .. Pipeline
  /\ maxInFlight \in {1, Pipeline}
  /\ maxInbound \in {RingDepth, AdaptiveDepth}
  /\ jobs \in Seq(Job)
  /\ session \in {"disconnected", "active", "degraded"}
  /\ pendingBySequence \in Seq(Request) /\ Len(pendingBySequence) <= Pipeline
  /\ period \in 1 .. Periods + 1
  /\ sent \in Seq(Request)
  /\ answered \in Nat \cup {-1} /\ lastPlayed \in Nat \cup {-1}

Init ==
  /\ connected = FALSE
  /\ pendingOutbound = None /\ outboundQueue = <<>> /\ inboundQueue = <<>>
  /\ sequence = 0 /\ inFlightCount = 0 /\ maxInFlight = 1 /\ maxInbound = RingDepth
  /\ jobs = <<>>
  /\ session = "disconnected" /\ pendingBySequence = <<>>
  /\ slotted = FALSE /\ leaving = FALSE /\ period = 1
  /\ sent = <<>> /\ answered = -1 /\ lastPlayed = -1

-----------------------------------------------------------------------------
(***************************************************************************)
(* Exchanges.                                                              *)
(***************************************************************************)
HasFrame == pendingOutbound # None \/ outboundQueue # <<>>
NextFrame == IF pendingOutbound # None THEN pendingOutbound ELSE Head(outboundQueue)

FaultySubmit(rest) ==   \* faulty variant: the transport takes one request less
  LET request == [sequence |-> sequence, frame |-> NextFrame]
  IN  /\ pendingOutbound' = None
      /\ outboundQueue' = IF pendingOutbound # None THEN outboundQueue ELSE Tail(outboundQueue)
      /\ sequence' = sequence + 1
      /\ inFlightCount' = inFlightCount + 1
      /\ IF session = "active" /\ Len(pendingBySequence) < Pipeline - 1
           THEN /\ pendingBySequence' = Append(pendingBySequence, request)
                /\ sent' = Append(sent, request)
                /\ jobs' = rest
           ELSE /\ jobs' = Append(rest, SettleJob(FALSE, sequence))
                /\ UNCHANGED <<pendingBySequence, sent>>

\* A turn of the loop of _tickExchange takes a frame and a number and hands them
\* to relayExchange, which refuses them without a session or with too many
\* requests waiting; rest are the jobs that are still to run.
Submit(rest) ==
  LET request == [sequence |-> sequence, frame |-> NextFrame]
  IN  /\ pendingOutbound' = None
      /\ outboundQueue' = IF pendingOutbound # None THEN outboundQueue ELSE Tail(outboundQueue)
      /\ sequence' = sequence + 1
      /\ inFlightCount' = inFlightCount + 1
      /\ IF session = "active" /\ Len(pendingBySequence) < Pipeline
           THEN /\ pendingBySequence' = Append(pendingBySequence, request)
                /\ sent' = Append(sent, request)
                /\ jobs' = rest
           ELSE /\ jobs' = Append(rest, SettleJob(FALSE, sequence))
                /\ UNCHANGED <<pendingBySequence, sent>>

FaultyTurn(rest) ==     \* faulty variant: one exchange too many
  IF inFlightCount <= maxInFlight /\ HasFrame
    THEN Submit(rest)
    ELSE /\ jobs' = rest
         /\ UNCHANGED <<queues, sequence, inFlightCount, pendingBySequence, sent>>

Turn(rest) ==
  IF inFlightCount < maxInFlight /\ HasFrame
    THEN Submit(rest)
    ELSE /\ jobs' = rest
         /\ UNCHANGED <<queues, sequence, inFlightCount, pendingBySequence, sent>>

\* The interval timer.
Tick ==
  /\ jobs = <<>>
  /\ connected /\ session = "active"
  /\ Turn(<<>>)
  /\ UNCHANGED <<connected, inboundQueue, settings, session, page, answered, lastPlayed>>

\* The rest of _submitExchange: an answer is kept for playback, and may widen the
\* window (slow answers) or the queues (underruns); then the loop is to go on.
Settle ==
  LET job == Head(jobs)
  IN  /\ job.do = "settle"
      /\ IF job.ok
           THEN /\ maxInFlight' \in {maxInFlight, Pipeline}
                /\ inboundQueue' = Newest(Append(inboundQueue, job.sequence), maxInbound)
                /\ maxInbound' \in {maxInbound, AdaptiveDepth}
           ELSE UNCHANGED <<inboundQueue, settings>>
      /\ inFlightCount' = inFlightCount - 1
      /\ jobs' = Append(Tail(jobs), LoopJob)
      /\ UNCHANGED <<connected, queues, sequence, session, pendingBySequence, page,
                     sent, answered, lastPlayed>>

GoOn ==
  /\ Head(jobs).do = "loop"
  /\ Turn(Tail(jobs))
  /\ UNCHANGED <<connected, inboundQueue, settings, session, page, answered, lastPlayed>>

RunJob == jobs # <<>> /\ (Settle \/ GoOn)

-----------------------------------------------------------------------------
(***************************************************************************)
(* The chain.                                                              *)
(***************************************************************************)
\* A period of the chain: pushPeriod, which lets the oldest frames of the queue
\* go, and popOutputs.
ChainPeriod ==
  /\ jobs = <<>>
  /\ slotted
  /\ period <= Periods
  /\ period' = period + 1
  /\ IF pendingOutbound = None
       THEN pendingOutbound' = period /\ UNCHANGED outboundQueue
       ELSE /\ outboundQueue' = Newest(Append(outboundQueue, period), maxInbound)
            /\ UNCHANGED pendingOutbound
  /\ IF inboundQueue # <<>>
       THEN inboundQueue' = Tail(inboundQueue) /\ lastPlayed' = Head(inboundQueue)
       ELSE UNCHANGED <<inboundQueue, lastPlayed>>
  /\ UNCHANGED <<connected, sequence, inFlightCount, settings, jobs, session,
                 pendingBySequence, slotted, leaving, sent, answered>>

-----------------------------------------------------------------------------
(***************************************************************************)
(* The transport.                                                          *)
(***************************************************************************)
adapter == <<connected, queues, inboundQueue, sequence, inFlightCount, settings, lastPlayed>>

\* An answer settles the request with its number, or the oldest one when that
\* one waits no longer.
Waiting(number) ==
  CHOOSE i \in DOMAIN pendingBySequence :
    \/ pendingBySequence[i].sequence = number
    \/ i = 1 /\ \A k \in DOMAIN pendingBySequence : pendingBySequence[k].sequence # number

Respond ==
  /\ jobs = <<>>
  /\ \E number \in {request.sequence : request \in Range(sent)} :
       /\ number > answered
       /\ answered' = number
       /\ IF pendingBySequence = <<>>
            THEN UNCHANGED <<jobs, pendingBySequence>>
            ELSE /\ jobs' = <<SettleJob(TRUE, number)>>
                 /\ pendingBySequence' = RemoveAt(pendingBySequence, Waiting(number))
  /\ UNCHANGED <<adapter, session, page, sent>>

\* The oldest request has waited for 15 seconds.
Expire ==
  /\ jobs = <<>>
  /\ pendingBySequence # <<>>
  /\ jobs' = <<SettleJob(FALSE, Head(pendingBySequence).sequence)>>
  /\ pendingBySequence' = Tail(pendingBySequence)
  /\ UNCHANGED <<adapter, session, page, sent, answered>>

\* _rejectAllPending
RejectAllPending ==
  /\ jobs' = [i \in 1 .. Len(pendingBySequence) |-> SettleJob(FALSE, pendingBySequence[i].sequence)]
  /\ pendingBySequence' = <<>>

FaultyLinkLoss ==   \* faulty variant: the adapter's timer stops with the link
  /\ jobs = <<>>
  /\ session = "active"
  /\ session' = "degraded"
  /\ connected' = FALSE
  /\ RejectAllPending
  /\ UNCHANGED <<queues, inboundQueue, sequence, inFlightCount, settings, lastPlayed,
                 page, sent, answered>>

\* The socket closes or the port is gone.
LinkLoss ==
  /\ jobs = <<>>
  /\ session = "active"
  /\ session' = "degraded"
  /\ RejectAllPending
  /\ UNCHANGED <<adapter, page, sent, answered>>

\* A new session of the device; the adapter has gone on all the time.
Reconnect ==
  /\ jobs = <<>>
  /\ session = "degraded" /\ ~leaving
  /\ session' = "active"
  /\ sent' = <<>>
  /\ UNCHANGED <<adapter, jobs, pendingBySequence, page, answered>>

-----------------------------------------------------------------------------
(***************************************************************************)
(* The page.                                                               *)
(***************************************************************************)
FaultyStart ==    \* faulty variant: the answers of before stay, and their depth
  /\ connected' = TRUE
  /\ pendingOutbound' = None /\ outboundQueue' = <<>>
  /\ sequence' = 0 /\ inFlightCount' = 0 /\ maxInFlight' = 1
  /\ lastPlayed' = -1
  /\ UNCHANGED <<inboundQueue, maxInbound>>

Start ==
  /\ connected' = TRUE
  /\ pendingOutbound' = None /\ outboundQueue' = <<>> /\ inboundQueue' = <<>>
  /\ sequence' = 0 /\ inFlightCount' = 0 /\ maxInFlight' = 1 /\ maxInbound' = RingDepth
  /\ lastPlayed' = -1

\* connectHardware: a session, then start, then the scheduler's slot.
Connect ==
  /\ jobs = <<>>
  /\ session # "active" /\ ~slotted
  /\ session' = "active" /\ slotted' = TRUE
  /\ sent' = <<>> /\ answered' = -1
  /\ period' = 1
  /\ Start
  /\ UNCHANGED <<jobs, pendingBySequence, leaving>>

\* connectHardware of another unit while the session of a deleted one goes on:
\* the transport refuses, and the page disconnects it.  The page waits in between; all
\* that can come then is an answer, as if it had come before.
ConnectFails ==
  /\ jobs = <<>>
  /\ session # "disconnected" /\ ~slotted
  /\ session' = "disconnected"
  /\ RejectAllPending
  /\ UNCHANGED <<adapter, page, sent, answered>>

\* deleteUnit does not disconnect the hardware.
DeleteUnit ==
  /\ jobs = <<>>
  /\ slotted /\ ~leaving
  /\ slotted' = FALSE
  /\ UNCHANGED <<adapter, jobs, session, pendingBySequence, leaving, period, sent,
                 answered>>

\* disconnectHardware, handleFatalDisconnect: the adapter stops (stop), and the
\* scheduler keeps its slot until the transport has left the session.
Disconnect ==
  /\ jobs = <<>>
  /\ slotted /\ ~leaving
  /\ leaving' = TRUE
  /\ connected' = FALSE
  /\ pendingOutbound' = None /\ outboundQueue' = <<>> /\ inboundQueue' = <<>>
  /\ inFlightCount' = 0
  /\ UNCHANGED <<sequence, settings, jobs, session, pendingBySequence, slotted, period,
                 sent, answered, lastPlayed>>

FaultyEndSession ==   \* faulty variant: requests outlive their session
  /\ jobs = <<>>
  /\ leaving
  /\ leaving' = FALSE /\ slotted' = FALSE
  /\ session' = "disconnected"
  /\ UNCHANGED <<adapter, jobs, pendingBySequence, period, sent, answered>>

\* The transport's stopSession and disconnect are done.
EndSession ==
  /\ jobs = <<>>
  /\ leaving
  /\ leaving' = FALSE /\ slotted' = FALSE
  /\ session' = "disconnected"
  /\ RejectAllPending
  /\ UNCHANGED <<adapter, period, sent, answered>>

Next ==
  \/ Tick \/ RunJob \/ ChainPeriod
  \/ Respond \/ Expire \/ LinkLoss \/ Reconnect
  \/ Connect \/ ConnectFails \/ DeleteUnit \/ Disconnect \/ EndSession

Spec == Init /\ [][Next]_vars

\* The browser runs settled callbacks at once and its timers when they are due:
\* that of the slot and those of the requests.
Fairness == SF_vars(Tick) /\ WF_vars(RunJob) /\ WF_vars(Expire)

FairSpec == Spec /\ Fairness

-----------------------------------------------------------------------------
(***************************************************************************)
(* Properties.                                                             *)
(***************************************************************************)
\* The exchanges of js that are settled but have not gone on.
Settled(js) == {i \in DOMAIN js : js[i].do = "settle"}

\* The exchanges in flight are those that wait in the transport and those that
\* are settled but have not gone on.  A count that is too low would offer the
\* transport a request it refuses, one that is too high would stop the slot.
CountExact ==
  connected => inFlightCount = Len(pendingBySequence) + Cardinality(Settled(jobs))

\* The host never makes a gap in the numbers of a session: the device answers a
\* gap with an error to this and to every later exchange.
NoHostGap ==
  \A i \in 1 .. Len(sent) - 1 : sent[i + 1].sequence = sent[i].sequence + 1

\* What the device put out is played in its order, and nothing of an earlier
\* connection is played.
PlayedInOrder == [][lastPlayed' # lastPlayed => lastPlayed' > lastPlayed \/ lastPlayed' = -1]_vars

\* While the session lasts, also after a link loss and a reconnect, a frame does
\* not wait for ever in the front place.
NoWedge ==
  \A f \in Frame :
    pendingOutbound = f ~> pendingOutbound # f \/ session # "active" \/ leaving \/ ~slotted

\* "The oldest non-in-flight pending exchange is discarded" when there are too
\* many (the specification of the bridge, spec.md:534).
DropsOldest ==
  [][period' = period + 1 =>
       \A old, f \in Frame :
         /\ old \in Range(outboundQueue) /\ old \notin Range(outboundQueue')
         /\ f = pendingOutbound'
         => old < f]_vars

=============================================================================
