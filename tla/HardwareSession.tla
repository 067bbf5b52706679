-------------------------- MODULE HardwareSession --------------------------
(***************************************************************************)
(* The hardware session of the page: the buttons of the hardware unit      *)
(* (main.js), the session manager (hardware-session-manager.js) and the    *)
(* two transports (bridge-client.js, web-serial-transport.js), which share *)
(* one device.                                                             *)
(*                                                                         *)
(* An operation is an async function: it runs until it waits for a socket, *)
(* a port, an answer or a timer, and goes on later, in a page that may     *)
(* have changed.  at is where an operation is; in the labels of Running it *)
(* goes on at once, before anything else happens, in those of Waiting it   *)
(* waits.  Nothing disables the Connect button and the choice of the       *)
(* transport while an operation waits, so operations overlap.              *)
(***************************************************************************)
EXTENDS Integers, FiniteSets, Sequences

CONSTANTS
  Ops,          \* operations that may run at once
  AutoRetryMax, \* AUTO_RETRY_MAX
  Sockets,      \* bound: sockets opened
  Clicks        \* bound: clicks of the user

NoOne == "none"

ASSUME SessionAssumption ==
  /\ Ops # {} /\ IsFiniteSet(Ops) /\ NoOne \notin Ops
  /\ AutoRetryMax \in Nat /\ Sockets \in Nat /\ Clicks \in Nat

VARIABLES
  unit,             \* hardwareConnected, hardwareDegraded and transportKind
  adapter,          \* of the slot: connected, and whether its timer runs
  activeTransport,
  managers, manager,   \* all session managers, and hardwareSessionManager
  portHolder,
  state, fatal,     \* of each transport: sessionState, fatalError
  bridge,           \* the bridge's ws, _hadActiveSession and _sessionWaiter
  serial,           \* the Web Serial port, see PortState
  sockets,
  op,
  clicks,           \* what the bound counts
  overlapped        \* history: operations met, or a late event met another session

page == <<unit, adapter, activeTransport>>
links == <<portHolder, state, fatal, bridge, serial, sockets>>
vars == <<page, managers, manager, links, op, clicks, overlapped>>

Kind == {"bridge", "webserial"}
State == {"disconnected", "connecting", "active", "degraded", "reconnecting"}
Running == {"connect", "again", "begin", "ask", "send", "succeed", "stop", "stopped", "leave",
            "left", "fail"}
Waiting == {"socket", "port", "start", "ack", "exit", "gone"}
Mismatch == {"mismatch", "refused"}

\* The page's port object and the browser's port behind it, of one device.
PortState == {"none",    \* no object, and the port is closed
              "closed",  \* an object whose port is not open
              "open",
              "lost",    \* opened, and the device is gone
              "locked",  \* an object whose port an earlier connection has left open
              "held"}    \* no object, and the port has been left open
SocketState == {"new", "connecting", "open", "asked", "askedTwice", "closing", "closed"}
Idle == [do |-> "nothing", at |-> "idle", next |-> "idle", manager |-> 0, on |-> "bridge",
         socket |-> 0]

TypeOK ==
  /\ unit \in [connected : BOOLEAN, degraded : BOOLEAN, kind : Kind]
  /\ adapter \in [connected : BOOLEAN, timer : BOOLEAN]
  /\ activeTransport \in Kind
  /\ managers \in Seq([transport : Kind, count : 0 .. AutoRetryMax, timer : BOOLEAN])
  /\ manager \in 0 .. Len(managers)
  /\ portHolder \in Kind \cup {NoOne}
  /\ state \in [Kind -> State] /\ fatal \in [Kind -> BOOLEAN]
  /\ bridge \in [ws : 0 .. Sockets, had : BOOLEAN, waiter : Ops \cup {NoOne}]
  /\ serial \in PortState
  /\ sockets \in [1 .. Sockets -> SocketState]
  /\ op \in [Ops -> [do : {"nothing", "connect", "mismatch", "refused", "reconnect", "retry", "disconnect"},
                     at : Running \cup Waiting \cup {"idle"}, next : Running \cup {"idle"}, manager : 0 .. Len(managers),
                     on : Kind, socket : 0 .. Sockets]]
  /\ clicks \in 0 .. Clicks /\ overlapped \in BOOLEAN

Init ==
  /\ unit = [connected |-> FALSE, degraded |-> FALSE, kind |-> "bridge"]
  /\ adapter = [connected |-> FALSE, timer |-> FALSE]
  /\ activeTransport = "bridge" /\ managers = <<>> /\ manager = 0
  /\ portHolder = NoOne
  /\ state = [k \in Kind |-> "disconnected"] /\ fatal = [k \in Kind |-> FALSE]
  /\ bridge = [ws |-> 0, had |-> FALSE, waiter |-> NoOne]
  /\ serial = "none" /\ sockets = [i \in 1 .. Sockets |-> "new"]
  /\ op = [t \in Ops |-> Idle]
  /\ clicks = 0 /\ overlapped = FALSE

Settled == \A t \in Ops : op[t].at \notin Running
Busy == \E t \in Ops : op[t].at # "idle"

Goto(t, label) == op' = [op EXCEPT ![t].at = label]
End(t) == op' = [op EXCEPT ![t] = Idle]
Released(k) == IF portHolder = k THEN NoOne ELSE portHolder

-----------------------------------------------------------------------------
(***************************************************************************)
(* What the manager tells the page (onStateChange of connectHardware).     *)
(***************************************************************************)
FaultyOnStateChange(new) ==
  /\ unit' = CASE new = "degraded"     -> [unit EXCEPT !.connected = TRUE, !.degraded = TRUE]
               [] new = "active"       -> [unit EXCEPT !.connected = TRUE, !.degraded = FALSE]
               [] new = "disconnected" -> [unit EXCEPT !.connected = FALSE, !.degraded = FALSE]
               [] OTHER                -> unit
  /\ adapter' = IF new \in {"active", "degraded"} THEN [adapter EXCEPT !.connected = TRUE]
                ELSE adapter
OnStateChange(new) ==
  /\ unit' = CASE new = "degraded"     -> [unit EXCEPT !.connected = TRUE, !.degraded = TRUE]
               [] new = "active"       -> [unit EXCEPT !.connected = TRUE, !.degraded = FALSE]
               [] new = "disconnected" -> [unit EXCEPT !.connected = FALSE, !.degraded = FALSE]
               [] OTHER                -> unit
  /\ adapter' = CASE new = "degraded" -> [adapter EXCEPT !.connected = TRUE]
                  [] new = "active"   -> [connected |-> TRUE, timer |-> TRUE]
                  [] OTHER            -> adapter

NoChange == UNCHANGED <<unit, adapter>>

\* cancelAutoRetry, which also forgets the retries so far, and _scheduleAutoRetry.
Cancelled(m) == [managers EXCEPT ![m].count = 0, ![m].timer = FALSE]
FaultyScheduled(m) == [managers EXCEPT ![m].timer = TRUE]
Scheduled(m) ==
  IF managers[m].count < AutoRetryMax
    THEN [managers EXCEPT ![m].count = 0, ![m].timer = TRUE]
    ELSE managers

FaultyHandleLinkLoss(after) ==
  /\ state' = IF manager = 0 THEN after ELSE state
  /\ NoChange /\ UNCHANGED managers
\* _handleLinkLoss of the current manager, called by a transport that has set its state
\* already: after is what sessionState is then.
HandleLinkLoss(after) ==
  LET k == managers[manager].transport
  IN  IF manager # 0 /\ after[k] = "active"
        THEN /\ state' = [after EXCEPT ![k] = "degraded"]
             /\ OnStateChange("degraded")
             /\ managers' = IF fatal[k] THEN managers ELSE Scheduled(manager)
        ELSE state' = after /\ NoChange /\ UNCHANGED managers

-----------------------------------------------------------------------------
(***************************************************************************)
(* The user.                                                               *)
(***************************************************************************)
Click(t) ==
  /\ Settled /\ op[t] = Idle /\ clicks < Clicks
  /\ clicks' = clicks + 1
  /\ overlapped' = (overlapped \/ Busy)

SetTransport(k) == IF manager = 0 THEN managers ELSE [managers EXCEPT ![manager].transport = k]

ConnectHardware(t) ==
  /\ Click(t) /\ ~unit.connected
  /\ activeTransport' = unit.kind
  /\ managers' = Append(SetTransport(unit.kind),
                        [transport |-> unit.kind, count |-> 0, timer |-> FALSE])
  /\ manager' = Len(managers')
  /\ op' = [op EXCEPT ![t] = [Idle EXCEPT !.do = "connect", !.at = "connect",
                              !.manager = manager', !.on = unit.kind]]
  /\ UNCHANGED <<unit, adapter, links>>

DisconnectHardware(t) ==
  /\ Click(t) /\ (unit.connected \/ unit.degraded)
  /\ adapter' = [connected |-> FALSE, timer |-> FALSE]
  /\ managers' = IF manager = 0 THEN managers ELSE Cancelled(manager)
  /\ op' = [op EXCEPT ![t] = [Idle EXCEPT !.do = "disconnect", !.at = "stop", !.manager = manager,
              !.on = IF manager = 0 THEN activeTransport ELSE managers[manager].transport]]
  /\ UNCHANGED <<unit, activeTransport, manager, links>>

\* reconnectHardware.  The manager it makes for a degraded unit without one is left out: that
\* takes more overlapping clicks than the bound allows.
ReconnectHardware(t) ==
  /\ Click(t) /\ unit.degraded /\ manager # 0
  /\ op' = [op EXCEPT ![t] = [Idle EXCEPT !.do = "reconnect", !.at = "again",
                              !.manager = manager, !.on = managers[manager].transport]]
  /\ UNCHANGED <<page, managers, manager, links>>

AutoRetry(t, m) ==
  /\ Settled /\ op[t] = Idle /\ managers[m].timer
  /\ managers' = [managers EXCEPT ![m].timer = FALSE]
  /\ op' = IF state[managers[m].transport] # "degraded" THEN op
           ELSE [op EXCEPT ![t] = [Idle EXCEPT !.do = "retry", !.at = "again",
                                   !.manager = m, !.on = managers[m].transport]]
  /\ overlapped' = (overlapped \/ Busy)
  /\ UNCHANGED <<page, manager, links, clicks>>

SelectTransport(k) ==
  /\ Settled /\ clicks < Clicks /\ ~unit.connected /\ ~unit.degraded /\ unit.kind # k
  /\ clicks' = clicks + 1
  /\ overlapped' = (overlapped \/ Busy)
  /\ unit' = [unit EXCEPT !.kind = k]
  /\ activeTransport' = k
  /\ managers' = SetTransport(k)
  /\ UNCHANGED <<adapter, manager, links, op>>

-----------------------------------------------------------------------------
(***************************************************************************)
(* connect of the transports, and their reconnect.                         *)
(***************************************************************************)
\* BridgeClient.connect with another socket.  Beyond the bound the server refuses.
NewSocket(t, next) ==
  \/ \E i \in 1 .. Sockets :
       /\ sockets[i] = "new" /\ \A j \in 1 .. i - 1 : sockets[j] # "new"
       /\ sockets' = [sockets EXCEPT ![i] = "connecting"]
       /\ bridge' = [bridge EXCEPT !.ws = i]
       /\ op' = [op EXCEPT ![t].at = "socket", ![t].next = next, ![t].socket = i]
       /\ UNCHANGED state
  \/ /\ \A i \in 1 .. Sockets : sockets[i] # "new"
     /\ bridge' = [bridge EXCEPT !.ws = 0, !.had = FALSE]
     /\ state' = IF fatal["bridge"] THEN state ELSE [state EXCEPT !["bridge"] = "disconnected"]
     /\ Goto(t, "fail") /\ UNCHANGED sockets

WsOpen == bridge.ws # 0 /\ sockets[bridge.ws] \in {"open", "asked", "askedTwice"}
Move(t, label) == Goto(t, label) /\ UNCHANGED <<bridge, sockets, state>>

Connect(t) ==
  LET next == IF op[t].do = "connect" THEN "begin" ELSE "ask"
  IN  /\ op[t].at = "connect"
      /\ \/ /\ op[t].on = "bridge"
            /\ \/ portHolder = "webserial" /\ Move(t, "fail")
               \/ portHolder # "webserial" /\ WsOpen /\ Move(t, next)
               \/ portHolder # "webserial" /\ ~WsOpen /\ NewSocket(t, next)
            /\ UNCHANGED portHolder
         \/ /\ op[t].on = "webserial" /\ portHolder = "bridge"
            /\ Move(t, "fail") /\ UNCHANGED portHolder
         \/ /\ op[t].on = "webserial" /\ portHolder # "bridge"
            /\ op' = [op EXCEPT ![t].at = "port", ![t].next = next]
            /\ portHolder' = "webserial"
            /\ state' = [state EXCEPT !["webserial"] =
                           IF op[t].do = "connect" THEN "connecting" ELSE @]
            /\ UNCHANGED <<bridge, sockets>>
      /\ UNCHANGED <<page, managers, manager, fatal, serial, clicks, overlapped>>

\* _teardownPort: nobody takes the reader off port.readable (web-serial-frame-reader.js:88),
\* so the browser refuses to close a port that is open.  The error is swallowed, and only the
\* object is forgotten.
TornDown(p) == IF p \in {"open", "locked", "held"} THEN "held" ELSE "none"

\* operatorReconnect and reconnect of the transport: Web Serial asks for a port again unless
\* the one it has can still be read.
Fresh(k) == k = "webserial" /\ serial \notin {"open", "locked"}

Again(t) ==
  LET k == op[t].on
      again == state[k] \in {"degraded", "reconnecting"} /\ ~fatal[k]
  IN  /\ op[t].at = "again"
      /\ IF again
           THEN /\ managers' = [managers EXCEPT ![op[t].manager].count = @ + 1]
                /\ state' = [state EXCEPT ![k] = "reconnecting"]
                /\ serial' = IF Fresh(k) THEN TornDown(serial) ELSE serial
                /\ portHolder' = IF Fresh(k) THEN Released(k) ELSE portHolder
                /\ Goto(t, IF k = "bridge" \/ Fresh(k) THEN "connect" ELSE "ask")
                /\ NoChange
           ELSE /\ End(t)
                /\ IF op[t].do = "reconnect" /\ ~fatal[k] THEN OnStateChange("active") ELSE NoChange
                /\ UNCHANGED <<managers, state, serial, portHolder>>
      /\ UNCHANGED <<activeTransport, manager, fatal, bridge, sockets, clicks, overlapped>>

\* What a failed reconnect leaves: the dialog was cancelled, or the port was not opened.
Unopened(p) == CASE p = "none" -> {"none", "closed"}
                 [] p = "held" -> {"held", "locked"}
                 [] OTHER      -> {p}

\* requestPort, open and _drainBoot.  A port that is still open cannot be opened.
PortOpens(t) ==
  /\ Settled /\ op[t].at = "port"
  /\ \/ /\ serial \in {"none", "closed", "lost"} /\ serial' = "open"
        /\ Goto(t, op[t].next) /\ UNCHANGED <<portHolder, state>>
     \/ /\ op[t].do = "connect" /\ Goto(t, "fail")
        /\ serial' = TornDown(serial) /\ portHolder' = Released("webserial")
        /\ state' = [state EXCEPT !["webserial"] = "disconnected"]
     \/ /\ op[t].do # "connect" /\ Goto(t, "fail")
        /\ serial' \in Unopened(serial) /\ UNCHANGED <<portHolder, state>>
  /\ UNCHANGED <<page, managers, manager, fatal, bridge, sockets, clicks, overlapped>>

\* startSession of the manager, whoever it is by now.
Begin(t) ==
  /\ op[t].at = "begin"
  /\ op' = [op EXCEPT ![t] =
       IF manager = 0 THEN [@ EXCEPT !.at = "fail"]
       ELSE [@ EXCEPT !.at = "ask", !.manager = manager, !.on = managers[manager].transport]]
  /\ managers' = IF manager = 0 THEN managers ELSE Cancelled(manager)
  /\ UNCHANGED <<page, manager, links, clicks, overlapped>>

\* The port object has a reader: port and frameReader are both there.
Reading == {"open", "lost"}

\* startSession of the transport, up to the command.
Ask(t) ==
  /\ op[t].at = "ask"
  /\ \/ /\ op[t].on = "bridge"
        /\ \/ portHolder = "webserial" /\ Move(t, "fail")
           \/ portHolder # "webserial" /\ WsOpen /\ Move(t, "send")
           \/ portHolder # "webserial" /\ ~WsOpen /\ NewSocket(t, "send")
     \/ op[t].on = "webserial" /\ serial \notin Reading /\ Move(t, "fail")
     \/ /\ op[t].on = "webserial" /\ serial \in Reading /\ Goto(t, "ack")
        /\ state' = [state EXCEPT !["webserial"] = "connecting"]
        /\ UNCHANGED <<bridge, sockets>>
  /\ UNCHANGED <<page, managers, manager, portHolder, fatal, serial, clicks, overlapped>>

\* The bridge client sends session/start and waits for the answer, or for the timeout.
Send(t) ==
  /\ op[t].at = "send" /\ WsOpen
  /\ state' = [state EXCEPT !["bridge"] = "connecting"]
  /\ bridge' = [bridge EXCEPT !.waiter = t]
  /\ sockets' = [sockets EXCEPT ![bridge.ws] = IF @ = "open" THEN "asked" ELSE "askedTwice"]
  /\ Goto(t, "start")
  /\ UNCHANGED <<page, managers, manager, portHolder, fatal, serial, clicks, overlapped>>

-----------------------------------------------------------------------------
(***************************************************************************)
(* Events of the links.                                                    *)
(***************************************************************************)
SocketOpens(s) ==
  /\ Settled /\ sockets[s] = "connecting"
  /\ sockets' = [sockets EXCEPT ![s] = "open"]
  /\ op' = [t \in Ops |-> IF op[t].at = "socket" /\ op[t].socket = s
                            THEN [op[t] EXCEPT !.at = op[t].next] ELSE op[t]]
  /\ UNCHANGED <<page, managers, manager, portHolder, state, fatal, bridge, serial, clicks,
                 overlapped>>

\* onerror and onclose, of this socket or of an older one.
SocketCloses(s) ==
  /\ Settled /\ sockets[s] \notin {"new", "closed"}
  /\ sockets' = [sockets EXCEPT ![s] = "closed"]
  /\ op' = [t \in Ops |-> IF op[t].at = "socket" /\ op[t].socket = s
                            THEN [op[t] EXCEPT !.at = "fail"] ELSE op[t]]
  /\ bridge' = [bridge EXCEPT !.had = FALSE]
  /\ IF bridge.had /\ ~fatal["bridge"]
       THEN HandleLinkLoss([state EXCEPT !["bridge"] = "degraded"])
       ELSE /\ state' = IF fatal["bridge"] THEN state
                        ELSE [state EXCEPT !["bridge"] = "disconnected"]
            /\ NoChange /\ UNCHANGED managers
  /\ overlapped' = (overlapped \/ (bridge.had /\ s # bridge.ws))
  /\ UNCHANGED <<activeTransport, manager, portHolder, fatal, serial, clicks>>

\* "started": the session is active, whoever holds the port.
StartedMsg(s) ==
  /\ Settled /\ sockets[s] \in {"asked", "askedTwice"}
  /\ sockets' = [sockets EXCEPT ![s] = IF @ = "asked" THEN "open" ELSE "asked"]
  /\ state' = [state EXCEPT !["bridge"] = "active"]
  /\ bridge' = [bridge EXCEPT !.had = TRUE, !.waiter = NoOne]
  /\ portHolder' = IF portHolder = NoOne THEN "bridge" ELSE portHolder
  /\ IF bridge.waiter = NoOne THEN UNCHANGED <<op, fatal>>
     ELSE /\ fatal' = [fatal EXCEPT !["bridge"] = FALSE]
          /\ Goto(bridge.waiter, "succeed")
  /\ UNCHANGED <<page, managers, manager, serial, clicks, overlapped>>

FaultyStartTimeout(t) ==
  /\ Settled /\ op[t].at = "start" /\ bridge.waiter = t
  /\ bridge' = [bridge EXCEPT !.waiter = NoOne]
  /\ state' = [state EXCEPT !["bridge"] = "disconnected"]
  /\ Goto(t, "fail")
  /\ UNCHANGED <<page, managers, manager, portHolder, fatal, serial, sockets, clicks, overlapped>>

\* The ten seconds are over; the waiter that is dropped may be of another operation.
StartTimeout(t) ==
  /\ Settled /\ op[t].at = "start"
  /\ bridge' = [bridge EXCEPT !.waiter = NoOne]
  /\ state' = [state EXCEPT !["bridge"] = "disconnected"]
  /\ Goto(t, "fail")
  /\ UNCHANGED <<page, managers, manager, portHolder, fatal, serial, sockets, clicks, overlapped>>

\* The answers to ENTER_USB and QUERY_MODULE over Web Serial.
Acks(t) ==
  /\ Settled /\ op[t].at = "ack"
  /\ \/ /\ serial = "open" /\ Goto(t, "succeed")
        /\ state' = [state EXCEPT !["webserial"] = "active"]
        /\ fatal' = [fatal EXCEPT !["webserial"] = FALSE]
     \/ Goto(t, "fail") /\ UNCHANGED <<state, fatal>>
  /\ UNCHANGED <<page, managers, manager, portHolder, bridge, serial, sockets, clicks, overlapped>>

\* The device of a port that was left open is pulled out: the browser closes the port.
HeldPortPulled ==
  /\ Settled /\ serial \in {"held", "locked"}
  /\ serial' = IF serial = "held" THEN "none" ELSE "closed"
  /\ UNCHANGED <<page, managers, manager, portHolder, state, fatal, bridge, sockets, op, clicks,
                 overlapped>>

\* The Web Serial device is pulled out, or an exchange with it fails.
SerialLinkLoss ==
  /\ Settled /\ serial = "open" /\ serial' \in {"open", "lost"}
  /\ IF state["webserial"] = "active" /\ ~fatal["webserial"]
       THEN HandleLinkLoss([state EXCEPT !["webserial"] = "degraded"])
       ELSE /\ serial' = "lost"
            /\ NoChange /\ UNCHANGED <<managers, state>>
  /\ UNCHANGED <<activeTransport, manager, portHolder, fatal, bridge, sockets, op, clicks,
                 overlapped>>

-----------------------------------------------------------------------------
(***************************************************************************)
(* How an operation ends.                                                  *)
(***************************************************************************)
\* The session is active; the device is of the unit's kind or of another one, and is always
\* of another one for the automatic retry, which names no kind.  A connection to another kind
\* is ended twice, by handleFatalDisconnect and by the catch of connectHardware, side by side;
\* both do the same, and here it is done once.
Succeed(t) ==
  /\ op[t].at = "succeed"
  /\ \/ /\ op[t].do # "retry"
        /\ OnStateChange("active")
        /\ managers' = IF op[t].do = "connect" THEN managers
                       ELSE [managers EXCEPT ![op[t].manager].count = 0]
        /\ End(t)
     \/ /\ op' = [op EXCEPT ![t].at = IF op[t].do = "connect" THEN "stop" ELSE "stopped",
                            ![t].do = IF @ = "connect" THEN "mismatch" ELSE "refused"]
        /\ NoChange /\ UNCHANGED managers
  /\ UNCHANGED <<activeTransport, manager, links, clicks, overlapped>>

Active == {"connecting", "active", "disconnected"}

\* stopSession of the transport: the bridge client does not wait for the answer, "stopped".
\* Nor is there one: the operation closes the socket before the next event, unless another
\* one has taken its manager away, and a socket that closes delivers nothing.
Stop(t) ==
  LET k == op[t].on
  IN  /\ op[t].at = "stop"
      /\ \/ k = "webserial" /\ serial \in Reading /\ Goto(t, "exit") /\ UNCHANGED links
         \/ /\ k = "bridge" /\ ~WsOpen /\ Goto(t, "stopped") /\ UNCHANGED links
         \/ /\ k = "webserial" => serial \notin Reading
            /\ k = "bridge" => WsOpen
            /\ bridge' = IF k = "bridge" THEN [bridge EXCEPT !.had = FALSE] ELSE bridge
            /\ portHolder' = IF k = "bridge" THEN Released(k) ELSE portHolder
            /\ state' = [state EXCEPT ![k] = IF @ \in Active THEN "disconnected" ELSE @]
            /\ Goto(t, "stopped") /\ UNCHANGED <<fatal, serial, sockets>>
      /\ UNCHANGED <<page, managers, manager, clicks, overlapped>>

\* EXIT_USB is answered, or not.
Exited(t) ==
  /\ Settled /\ op[t].at = "exit" /\ Goto(t, "stopped")
  /\ state' = [state EXCEPT !["webserial"] = IF @ \in Active THEN "disconnected" ELSE @]
  /\ UNCHANGED <<page, managers, manager, portHolder, fatal, bridge, serial, sockets, clicks,
                 overlapped>>

\* After stopSession: the page is told the state; a module of another kind is fatal.
Stopped(t) ==
  LET k == op[t].on
  IN  /\ op[t].at = "stopped"
      /\ IF op[t].do \in Mismatch
           THEN /\ fatal' = [fatal EXCEPT ![k] = TRUE]
                /\ state' = [state EXCEPT ![k] = "disconnected"]
                /\ bridge' = IF k = "bridge" THEN [bridge EXCEPT !.had = FALSE] ELSE bridge
                /\ portHolder' = IF k = "bridge" THEN Released(k) ELSE portHolder
                /\ adapter' = [connected |-> FALSE, timer |-> FALSE] /\ UNCHANGED unit
           ELSE OnStateChange(state[k]) /\ UNCHANGED <<fatal, state, bridge, portHolder>>
      /\ Goto(t, "leave")
      /\ UNCHANGED <<activeTransport, managers, manager, serial, sockets, clicks, overlapped>>

FaultyGone(k) ==
  /\ state' = [state EXCEPT ![k] = "disconnected"]
  /\ fatal' = [fatal EXCEPT ![k] = FALSE] /\ UNCHANGED portHolder
Gone(k) ==
  /\ portHolder' = Released(k)
  /\ state' = [state EXCEPT ![k] = "disconnected"]
  /\ fatal' = [fatal EXCEPT ![k] = FALSE]

\* disconnect of the manager there is now, or of the transport if there never was one.  The
\* reconnect that found a module of another kind schedules its next try behind it.
Leave(t) ==
  LET k == IF manager = 0 THEN activeTransport ELSE managers[manager].transport
  IN  /\ op[t].at = "leave"
      /\ managers' = IF op[t].do = "refused"
                      THEN [managers EXCEPT ![op[t].manager].count = 0, ![op[t].manager].timer = TRUE]
                    ELSE IF manager = 0 THEN managers ELSE Cancelled(manager)
      /\ IF manager = 0 /\ op[t].manager # 0
           THEN /\ IF op[t].do \in Mismatch THEN Goto(t, "left") ELSE End(t)
                /\ UNCHANGED <<portHolder, state, fatal, bridge, sockets>>
         ELSE IF k = "bridge"
           THEN /\ sockets' = IF bridge.ws = 0 \/ sockets[bridge.ws] = "closed" THEN sockets
                              ELSE [sockets EXCEPT ![bridge.ws] = "closing"]
                /\ bridge' = [bridge EXCEPT !.ws = 0, !.had = FALSE]
                /\ Gone(k)
                /\ op' = [op EXCEPT ![t].at = "left", ![t].on = k]
           ELSE /\ op' = [op EXCEPT ![t].at = "gone", ![t].on = k]
                /\ UNCHANGED <<portHolder, state, fatal, bridge, sockets>>
      /\ UNCHANGED <<page, manager, serial, clicks, overlapped>>

\* Web Serial: EXIT_USB once more, then the port is given up.
PortGone(t) ==
  /\ Settled /\ op[t].at = "gone" /\ Goto(t, "left")
  /\ serial' = TornDown(serial) /\ Gone("webserial")
  /\ UNCHANGED <<page, managers, manager, bridge, sockets, clicks, overlapped>>

Left(t) ==
  /\ op[t].at = "left" /\ End(t)
  /\ OnStateChange("disconnected")
  /\ manager' = 0
  /\ UNCHANGED <<activeTransport, managers, links, clicks, overlapped>>

\* The operation fails: connectHardware gives everything up, a reconnect is tried again.
Fail(t) ==
  LET m == op[t].manager  k == op[t].on
  IN  /\ op[t].at = "fail"
      /\ \/ /\ op[t].do = "connect"
            /\ IF manager = 0 THEN End(t) ELSE Goto(t, "leave")
            /\ UNCHANGED <<managers, state>>
         \/ /\ op[t].do \in {"reconnect", "retry"} /\ End(t)
            /\ state' = [state EXCEPT ![k] = "degraded"]
            /\ managers' = Scheduled(m)
      /\ UNCHANGED <<page, manager, portHolder, fatal, bridge, serial, sockets, clicks, overlapped>>

-----------------------------------------------------------------------------
Continue(t) ==
  \/ Connect(t)
  \/ Again(t)
  \/ Begin(t)
  \/ Ask(t)
  \/ Send(t)
  \/ Succeed(t)
  \/ Stop(t)
  \/ Stopped(t)
  \/ Leave(t)
  \/ Left(t)
  \/ Fail(t)

Resume(t) == PortOpens(t) \/ StartTimeout(t) \/ Acks(t) \/ Exited(t) \/ PortGone(t)

Next ==
  \/ \E t \in Ops : \/ ConnectHardware(t) \/ DisconnectHardware(t) \/ ReconnectHardware(t)
                    \/ Continue(t) \/ Resume(t)
  \/ \E t \in Ops, m \in 1 .. Len(managers) : AutoRetry(t, m)
  \/ \E k \in Kind : SelectTransport(k)
  \/ \E s \in 1 .. Sockets : SocketOpens(s) \/ SocketCloses(s) \/ StartedMsg(s)
  \/ SerialLinkLoss
  \/ HeldPortPulled

(***************************************************************************)
(* The script goes on, the browser settles a socket, the user chooses a    *)
(* port or cancels, and every wait for the device has a timer.  The event  *)
(* loop serves each of them between tasks, again and again: strong         *)
(* fairness, because a task in between disables it for a moment.           *)
(***************************************************************************)
Fairness ==
  /\ \A t \in Ops : WF_vars(Continue(t)) /\ SF_vars(Resume(t))
  /\ \A s \in 1 .. Sockets : SF_vars(sockets[s] \in {"connecting", "closing"}
                                       /\ (SocketOpens(s) \/ SocketCloses(s)))

Spec == Init /\ [][Next]_vars /\ Fairness

-----------------------------------------------------------------------------
(***************************************************************************)
(* An active session has its link, and holds the port the transports share *)
(* (hardware-transport.js:30-48, bridge-client.js:237, web-serial-         *)
(* transport.js:154), as long as operations do not meet.                   *)
(***************************************************************************)
ActiveOwnsPort ==
  Settled /\ ~overlapped => \A k \in Kind : state[k] = "active" =>
    /\ portHolder = k
    /\ IF k = "bridge" THEN WsOpen /\ bridge.had ELSE serial = "open"

(***************************************************************************)
(* Once every operation has ended the slot asks for periods exactly while  *)
(* the page shows the unit as connected (main.js:780, 803, 835, 851), and  *)
(* it has a session manager then.                                          *)
(***************************************************************************)
AdapterFollows ==
  ~Busy /\ ~overlapped => (adapter.timer <=> unit.connected) /\ (unit.connected <=> manager # 0)

(***************************************************************************)
(* A unit that is not connected has left nothing of its session in the     *)
(* page, whichever of its steps failed: neither transport holds the port   *)
(* or has a port object, no socket stays open, nothing is marked fatal, no *)
(* retry is due (main.js:809-812, 851-862).  The browser's port may be     *)
(* open, see PortIsClosed.                                                 *)
(***************************************************************************)
AllReleased ==
  ~Busy /\ ~overlapped /\ ~unit.connected =>
    /\ portHolder = NoOne /\ serial \in {"none", "held"} /\ ~\E k \in Kind : fatal[k]
    /\ \A s \in 1 .. Sockets : sockets[s] \in {"new", "closing", "closed"}
    /\ \A m \in 1 .. Len(managers) : ~managers[m].timer

(***************************************************************************)
(* Every operation ends, however operations, failures and events of old    *)
(* sockets meet: none waits for an answer that cannot come any more.       *)
(***************************************************************************)
OpsEnd == \A t \in Ops : op[t].at # "idle" ~> op[t].at = "idle"

(***************************************************************************)
(* docs: after a lost link the operator clicks Reconnect or waits for the  *)
(* automatic retries (sim/HARDWARE_OPERATOR.md:95).  So a degraded session *)
(* has a retry due, or the page takes the click, which it only does for a  *)
(* unit that is marked degraded (main.js:818).                             *)
(***************************************************************************)
LossIsRetried ==
  ~Busy /\ ~overlapped => \A k \in Kind : state[k] = "degraded" /\ ~fatal[k] =>
    unit.degraded \/ \E m \in 1 .. Len(managers) : managers[m].timer

(***************************************************************************)
(* docs: disconnecting the page lets another program, or the next          *)
(* connection, have the serial port (sim/HARDWARE_OPERATOR.md:71 and 103). *)
(* So a unit that is not connected has left the port closed.               *)
(***************************************************************************)
PortIsClosed == ~Busy /\ ~overlapped /\ ~unit.connected => serial = "none"
=============================================================================
