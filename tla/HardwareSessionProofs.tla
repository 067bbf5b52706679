----------------------- MODULE HardwareSessionProofs -----------------------
(***************************************************************************)
(* Proofs about the hardware session, for any number of operations at      *)
(* once, clicks and sockets.                                               *)
(***************************************************************************)
EXTENDS HardwareSession, SequenceTheorems, FiniteSetTheorems, TLAPS

-----------------------------------------------------------------------------
(***************************************************************************)
(* Types, and what a step does to the operations and the managers.         *)
(***************************************************************************)
Task == {"nothing", "connect", "mismatch", "refused", "reconnect", "retry", "disconnect"}
Place == Running \cup Waiting \cup {"idle"}
OpState == [do : Task, at : Place, next : Running \cup {"idle"}, manager : Nat, on : Kind,
            socket : 0 .. Sockets]
BridgeState == [ws : 0 .. Sockets, had : BOOLEAN, waiter : Ops \cup {NoOne}]
ManagerState == [transport : Kind, count : Nat, timer : BOOLEAN]

\* Operation t is h now, and the others are what they were.
Step(t, h) == op' \in [Ops -> OpState] /\ op'[t] = h /\ \A u \in Ops : u # t => op'[u] = op[u]

\* Manager m is h now, and the others are what they were.
ManagerStep(m, h) ==
  /\ managers' \in Seq(ManagerState) /\ Len(managers') = Len(managers) /\ managers'[m] = h
  /\ \A n \in 1 .. Len(managers) : n # m => managers'[n] = managers[n]

\* An operation somewhere else.
Sent(h, a) == [h EXCEPT !.at = a]

\* Only the place of an operation that is sent somewhere changes.
LEMMA SentFields ==
  ASSUME NEW h \in OpState, NEW a \in Place
  PROVE  /\ Sent(h, a) \in OpState /\ Sent(h, a).at = a /\ Sent(h, a).do = h.do
         /\ Sent(h, a).next = h.next /\ Sent(h, a).manager = h.manager
         /\ Sent(h, a).on = h.on /\ Sent(h, a).socket = h.socket
BY DEF Sent, OpState

\* An operation that does something else, of another manager, on another transport, with another
\* way on, with another socket.
Doing(h, d) == [h EXCEPT !.do = d]
Managed(h, m) == [h EXCEPT !.manager = m]
Over(h, k) == [h EXCEPT !.on = k]
Then(h, a) == [h EXCEPT !.next = a]
Through(h, s) == [h EXCEPT !.socket = s]

\* Only what an operation does changes.
LEMMA DoingFields ==
  ASSUME NEW h \in OpState, NEW d \in Task
  PROVE  /\ Doing(h, d) \in OpState /\ Doing(h, d).at = h.at /\ Doing(h, d).do = d
         /\ Doing(h, d).next = h.next /\ Doing(h, d).manager = h.manager
         /\ Doing(h, d).on = h.on /\ Doing(h, d).socket = h.socket
BY DEF Doing, OpState

\* Only its manager changes.
LEMMA ManagedFields ==
  ASSUME NEW h \in OpState, NEW m \in Nat
  PROVE  /\ Managed(h, m) \in OpState /\ Managed(h, m).at = h.at /\ Managed(h, m).do = h.do
         /\ Managed(h, m).next = h.next /\ Managed(h, m).manager = m
         /\ Managed(h, m).on = h.on /\ Managed(h, m).socket = h.socket
BY DEF Managed, OpState

\* Only its transport changes.
LEMMA OverFields ==
  ASSUME NEW h \in OpState, NEW k \in Kind
  PROVE  /\ Over(h, k) \in OpState /\ Over(h, k).at = h.at /\ Over(h, k).do = h.do
         /\ Over(h, k).next = h.next /\ Over(h, k).manager = h.manager
         /\ Over(h, k).on = k /\ Over(h, k).socket = h.socket
BY DEF Over, OpState

\* Only its way on changes.
LEMMA ThenFields ==
  ASSUME NEW h \in OpState, NEW a \in Running \cup {"idle"}
  PROVE  /\ Then(h, a) \in OpState /\ Then(h, a).at = h.at /\ Then(h, a).do = h.do
         /\ Then(h, a).next = a /\ Then(h, a).manager = h.manager
         /\ Then(h, a).on = h.on /\ Then(h, a).socket = h.socket
BY DEF Then, OpState

\* Only its socket changes.
LEMMA ThroughFields ==
  ASSUME NEW h \in OpState, NEW s \in 0 .. Sockets
  PROVE  /\ Through(h, s) \in OpState /\ Through(h, s).at = h.at /\ Through(h, s).do = h.do
         /\ Through(h, s).next = h.next /\ Through(h, s).manager = h.manager
         /\ Through(h, s).on = h.on /\ Through(h, s).socket = s
BY DEF Through, OpState

\* An operation goes on.
LEMMA Put ==
  ASSUME op \in [Ops -> OpState], NEW t \in Ops, NEW h \in OpState, op' = [op EXCEPT ![t] = h]
  PROVE  Step(t, h)
BY DEF Step

\* An operation goes to a place.
LEMMA Sends ==
  ASSUME op \in [Ops -> OpState], NEW t \in Ops, NEW a \in Place, Goto(t, a)
  PROVE  Step(t, Sent(op[t], a))
<1>1. op[t] \in OpState
  OBVIOUS
<1>2. Sent(op[t], a) \in OpState
  BY <1>1, SentFields
<1>3. op' = [op EXCEPT ![t] = Sent(op[t], a)]
  BY DEF Goto, Sent
<1> QED
  BY <1>2, <1>3, Put

\* An idle operation has a type, and an operation that ends is idle.
LEMMA IdleFields ==
  /\ Idle \in OpState /\ Idle.at = "idle" /\ Idle.do = "nothing" /\ Idle.manager = 0
  /\ Idle.on = "bridge" /\ Idle.next = "idle" /\ Idle.socket = 0
BY SessionAssumption DEF Idle, OpState, Task, Place, Kind

\* An operation ends.
LEMMA Ends ==
  ASSUME op \in [Ops -> OpState], NEW t \in Ops, End(t)
  PROVE  Step(t, Idle)
BY IdleFields, Put DEF End

\* A manager changes.
LEMMA PutManager ==
  ASSUME managers \in Seq(ManagerState), NEW m \in 1 .. Len(managers), NEW h \in ManagerState,
         managers' = [managers EXCEPT ![m] = h]
  PROVE  ManagerStep(m, h)
<1>1. /\ [managers EXCEPT ![m] = h] \in Seq(ManagerState)
      /\ Len([managers EXCEPT ![m] = h]) = Len(managers)
      /\ \A n \in 1 .. Len(managers) : [managers EXCEPT ![m] = h][n] = IF n = m THEN h ELSE managers[n]
  BY ExceptSeq
<1> QED
  BY <1>1 DEF ManagerStep

\* A manager with other retries.
Tried(m, n, b) == [transport |-> managers[m].transport, count |-> n, timer |-> b]

\* A manager with other retries has a type.
LEMMA TriedTyped ==
  ASSUME managers \in Seq(ManagerState), NEW m \in 1 .. Len(managers), NEW n \in Nat,
         NEW b \in BOOLEAN
  PROVE  /\ managers[m] \in ManagerState /\ Tried(m, n, b) \in ManagerState
         /\ Tried(m, n, b).transport = managers[m].transport
         /\ Tried(m, n, b).count = n /\ Tried(m, n, b).timer = b
<1>1. managers[m] \in ManagerState
  BY ElementOfSeq
<1> QED
  BY <1>1 DEF Tried, ManagerState

\* One field of a manager.
LEMMA TimerSet ==
  ASSUME NEW h \in ManagerState, NEW b \in BOOLEAN
  PROVE  [h EXCEPT !.timer = b] = [transport |-> h.transport, count |-> h.count, timer |-> b]
BY DEF ManagerState

\* The count of a manager.
LEMMA CountSet ==
  ASSUME NEW h \in ManagerState
  PROVE  [h EXCEPT !.count = @ + 1] = [transport |-> h.transport, count |-> h.count + 1, timer |-> h.timer]
BY DEF ManagerState

\* The count of a manager is forgotten.
LEMMA CountReset ==
  ASSUME NEW h \in ManagerState
  PROVE  [h EXCEPT !.count = 0] = [transport |-> h.transport, count |-> 0, timer |-> h.timer]
BY DEF ManagerState

\* Two fields of a record at once.
LEMMA TwoFields ==
  ASSUME NEW h \in ManagerState, NEW b \in BOOLEAN
  PROVE  [[h EXCEPT !.count = 0] EXCEPT !.timer = b] = [transport |-> h.transport, count |-> 0, timer |-> b]
<1>1. [h EXCEPT !.count = 0] = [transport |-> h.transport, count |-> 0, timer |-> h.timer]
  BY DEF ManagerState
<1>2. [[transport |-> h.transport, count |-> 0, timer |-> h.timer] EXCEPT !.timer = b]
        = [transport |-> h.transport, count |-> 0, timer |-> b]
  OBVIOUS
<1> QED
  BY <1>1, <1>2

\* Setting two fields of a manager is setting the manager.
LEMMA TwoSteps ==
  ASSUME NEW D, NEW f \in [D -> ManagerState], NEW m \in D, NEW b \in BOOLEAN
  PROVE  [f EXCEPT ![m].count = 0, ![m].timer = b]
           = [f EXCEPT ![m] = [transport |-> f[m].transport, count |-> 0, timer |-> b]]
<1>1. [f EXCEPT ![m].count = 0, ![m].timer = b] = [f EXCEPT ![m] = [[f[m] EXCEPT !.count = 0] EXCEPT !.timer = b]]
  BY DEF ManagerState
<1>2. f[m] \in ManagerState
  OBVIOUS
<1> QED
  BY <1>1, <1>2, TwoFields

\* cancelAutoRetry forgets the retries of a manager and its timer.
LEMMA Cancels ==
  ASSUME managers \in Seq(ManagerState), NEW m \in 1 .. Len(managers), managers' = Cancelled(m)
  PROVE  ManagerStep(m, Tried(m, 0, FALSE))
<1>1. managers[m] \in ManagerState /\ Tried(m, 0, FALSE) \in ManagerState
  BY TriedTyped
<1>0. managers \in [1 .. Len(managers) -> ManagerState]
  BY LenProperties
<1>4. Cancelled(m) = [managers EXCEPT ![m] = Tried(m, 0, FALSE)]
  BY <1>0, TwoSteps DEF Cancelled, Tried
<1> QED
  BY <1>1, <1>4, PutManager

\* _scheduleAutoRetry.
LEMMA Schedules ==
  ASSUME managers \in Seq(ManagerState), NEW m \in 1 .. Len(managers), managers' = Scheduled(m)
  PROVE  \/ managers[m].count < AutoRetryMax /\ ManagerStep(m, Tried(m, 0, TRUE))
         \/ managers[m].count >= AutoRetryMax /\ ManagerStep(m, managers[m])
<1>0. managers \in [1 .. Len(managers) -> ManagerState]
  BY LenProperties
<1>1. managers[m] \in ManagerState /\ Tried(m, 0, TRUE) \in ManagerState
  BY TriedTyped
<1>2. managers[m].count \in Nat /\ AutoRetryMax \in Nat
  BY <1>1, SessionAssumption DEF ManagerState
<1>3. CASE managers[m].count < AutoRetryMax
  <2>3. Scheduled(m) = [managers EXCEPT ![m] = Tried(m, 0, TRUE)]
    BY <1>0, <1>3, TwoSteps DEF Scheduled, Tried
  <2> QED
    BY <1>1, <1>3, <2>3, PutManager
<1>4. CASE ~(managers[m].count < AutoRetryMax)
  <2>1. Scheduled(m) = managers
    BY <1>4 DEF Scheduled
  <2>2. ManagerStep(m, managers[m])
    BY <2>1 DEF ManagerStep
  <2>3. managers[m].count >= AutoRetryMax
    BY <1>2, <1>4
  <2> QED
    BY <2>2, <2>3
<1> QED
  BY <1>3, <1>4

\* setActiveTransport moves the current manager to another transport.
LEMMA SetsTransport ==
  ASSUME managers \in Seq(ManagerState), manager \in 0 .. Len(managers), NEW k \in Kind
  PROVE  /\ SetTransport(k) \in Seq(ManagerState) /\ Len(SetTransport(k)) = Len(managers)
         /\ \A n \in 1 .. Len(managers) :
              /\ SetTransport(k)[n].count = managers[n].count
              /\ SetTransport(k)[n].timer = managers[n].timer
<1>0. managers \in [1 .. Len(managers) -> ManagerState] /\ Len(managers) \in Nat
  BY LenProperties
<1>1. CASE manager = 0
  BY <1>1 DEF SetTransport
<1>2. CASE manager # 0
  <2>1. manager \in 1 .. Len(managers)
    BY <1>0, <1>2
  <2> DEFINE h == [managers[manager] EXCEPT !.transport = k]
  <2>2. managers[manager] \in ManagerState
    BY <1>0, <2>1
  <2>3. h \in ManagerState /\ h.count = managers[manager].count /\ h.timer = managers[manager].timer
    BY <2>2 DEF ManagerState
  <2>4. SetTransport(k) = [managers EXCEPT ![manager] = h]
    BY <1>2 DEF SetTransport
  <2>5. /\ [managers EXCEPT ![manager] = h] \in Seq(ManagerState)
        /\ Len([managers EXCEPT ![manager] = h]) = Len(managers)
        /\ \A n \in 1 .. Len(managers) :
             [managers EXCEPT ![manager] = h][n] = IF n = manager THEN h ELSE managers[n]
    BY <2>1, <2>3, ExceptSeq
  <2> HIDE DEF h
  <2> QED
    BY <2>3, <2>4, <2>5
<1> QED
  BY <1>1, <1>2

-----------------------------------------------------------------------------
(***************************************************************************)
(* Where an operation can be, by what it does.                             *)
(***************************************************************************)
Again2 == {"reconnect", "retry"}
Opening == {"connect", "socket", "port", "ask", "send", "start", "ack", "succeed", "fail"}
Closing == {"leave", "gone", "left"}

Shape(h) ==
  /\ h.at = "idle" => h = Idle
  /\ h.at \in Opening => h.do \in {"connect"} \cup Again2
  /\ h.at = "again" => h.do \in Again2
  /\ h.at = "begin" => h.do = "connect"
  /\ h.at \in {"stop", "exit"} => h.do \in {"disconnect", "mismatch"}
  /\ h.at = "stopped" => h.do \in {"disconnect", "mismatch", "refused"}
  /\ h.at \in Closing => h.do \in {"connect", "disconnect", "mismatch", "refused"}
  /\ h.at \in {"socket", "port"} => h.next \in {"begin", "ask", "send"}
  /\ h.at \in {"socket", "port"} /\ h.next = "begin" => h.do = "connect"
  /\ h.at \in {"socket", "send", "start"} => h.on = "bridge"
  /\ h.at \in {"port", "ack", "exit", "gone"} => h.on = "webserial"
  /\ h.at = "port" => h.next # "send"
  /\ h.do \in {"connect", "reconnect", "retry", "refused"} => h.manager # 0

\* Every operation is somewhere it can be.
Shaped == \A t \in Ops : Shape(op[t])
\* Who waits for the answer of the bridge is an operation that started a session there.
Waiter == bridge.waiter # NoOne => op[bridge.waiter].at = "start"

\* The types of everything but the operations.  The bound that TypeOK gives the count of retries
\* has a proof of its own.
PlainTypes ==
  /\ unit \in [connected : BOOLEAN, degraded : BOOLEAN, kind : Kind]
  /\ adapter \in [connected : BOOLEAN, timer : BOOLEAN]
  /\ activeTransport \in Kind
  /\ managers \in Seq(ManagerState)
  /\ manager \in 0 .. Len(managers)
  /\ portHolder \in Kind \cup {NoOne}
  /\ state \in [Kind -> State] /\ fatal \in [Kind -> BOOLEAN]
  /\ bridge \in BridgeState
  /\ serial \in PortState
  /\ sockets \in [1 .. Sockets -> SocketState]
  /\ clicks \in 0 .. Clicks /\ overlapped \in BOOLEAN
OpsSound ==
  /\ op \in [Ops -> OpState]
  /\ \A t \in Ops : op[t].manager <= Len(managers)
  /\ Shaped /\ Waiter

Sound == PlainTypes /\ OpsSound

\* An operation goes on, and the waiter of the bridge is still one that waits.
LEMMA Goes ==
  ASSUME OpsSound, NEW t \in Ops, NEW h \in OpState, Step(t, h), Shape(h),
         Len(managers) \in Nat, Len(managers') \in Nat,
         h.manager <= Len(managers'), Len(managers) <= Len(managers'),
         bridge'.waiter # NoOne =>
           /\ bridge'.waiter \in Ops
           /\ IF bridge'.waiter = t THEN h.at = "start" ELSE bridge'.waiter = bridge.waiter
  PROVE  OpsSound'
<1>1. op' \in [Ops -> OpState]
  BY DEF Step
<1>2. ASSUME NEW u \in Ops
      PROVE  Shape(op'[u]) /\ op'[u].manager <= Len(managers')
  <2>1. CASE u = t
    BY <2>1 DEF Step
  <2>2. CASE u # t
    <3>1. op'[u] = op[u]
      BY <2>2 DEF Step
    <3>2. Shape(op[u]) /\ op[u].manager <= Len(managers) /\ op[u].manager \in Nat
      BY DEF OpsSound, Shaped, OpState
    <3> QED
      BY <3>1, <3>2
  <2> QED
    BY <2>1, <2>2
<1>3. Waiter'
  BY DEF OpsSound, Waiter, Step
<1> QED
  BY <1>1, <1>2, <1>3 DEF OpsSound, Shaped

\* The same for an operation that did not wait for the bridge, and a waiter that stays.
LEMMA GoesOn ==
  ASSUME PlainTypes, OpsSound, NEW t \in Ops, NEW h \in OpState, Step(t, h), Shape(h),
         op[t].at # "start", h.manager <= Len(managers),
         managers' \in Seq(ManagerState), Len(managers') = Len(managers),
         bridge'.waiter = bridge.waiter
  PROVE  OpsSound'
<1>1. Len(managers) \in Nat
  BY LenProperties DEF PlainTypes
<1>2. bridge.waiter # NoOne => bridge.waiter \in Ops /\ bridge.waiter # t
  BY DEF PlainTypes, OpsSound, Waiter, BridgeState
<1>3. h.manager \in Nat
  BY DEF OpState
<1> QED
  BY <1>1, <1>2, <1>3, Goes

\* What is torn down is no longer the page's, and a failed reconnect leaves a state of the port.
LEMMA PortTyped ==
  \A p \in PortState : TornDown(p) \in {"none", "held"} /\ TornDown(p) \in PortState /\ Unopened(p) \subseteq PortState
BY DEF PortState, TornDown, Unopened

\* What the page shows has its type whatever the manager tells it.
LEMMA PageTyped ==
  ASSUME NEW new \in State, OnStateChange(new),
         unit \in [connected : BOOLEAN, degraded : BOOLEAN, kind : Kind],
         adapter \in [connected : BOOLEAN, timer : BOOLEAN]
  PROVE  /\ unit' \in [connected : BOOLEAN, degraded : BOOLEAN, kind : Kind]
         /\ adapter' \in [connected : BOOLEAN, timer : BOOLEAN]
         /\ new = "active" => unit'.connected /\ ~unit'.degraded /\ adapter'.timer
         /\ new = "disconnected" => ~unit'.connected /\ ~unit'.degraded
         /\ new # "active" => adapter'.timer = adapter.timer
<1>1. /\ unit' \in [connected : BOOLEAN, degraded : BOOLEAN, kind : Kind]
      /\ new = "active" => unit'.connected /\ ~unit'.degraded
      /\ new = "disconnected" => ~unit'.connected /\ ~unit'.degraded
  BY DEF OnStateChange, State
<1>2. /\ adapter' \in [connected : BOOLEAN, timer : BOOLEAN]
      /\ new = "active" => adapter'.timer
      /\ new # "active" => adapter'.timer = adapter.timer
  BY DEF OnStateChange, State
<1> QED
  BY <1>1, <1>2

-----------------------------------------------------------------------------
(***************************************************************************)
(* Every action keeps the types and the places.                            *)
(***************************************************************************)
\* A new operation.
New(d, a, m, k) == [Idle EXCEPT !.do = d, !.at = a, !.manager = m, !.on = k]

\* The fields of a new operation.
LEMMA NewFields ==
  ASSUME NEW d \in Task, NEW a \in Place, NEW m \in Nat, NEW k \in Kind
  PROVE  /\ New(d, a, m, k) \in OpState /\ New(d, a, m, k).do = d /\ New(d, a, m, k).at = a
         /\ New(d, a, m, k).manager = m /\ New(d, a, m, k).on = k
<1> DEFINE h1 == Doing(Idle, d)
           h2 == Sent(h1, a)
           h3 == Managed(h2, m)
<1>1. h1 \in OpState /\ h1.do = d
  BY IdleFields, DoingFields
<1>2. New(d, a, m, k) = Over(h3, k)
  BY DEF New, Doing, Sent, Managed, Over
<1> HIDE DEF h1
<1>3. h2 \in OpState /\ h2.do = d /\ h2.at = a
  BY <1>1, SentFields
<1> HIDE DEF h2
<1>4. h3 \in OpState /\ h3.do = d /\ h3.at = a /\ h3.manager = m
  BY <1>3, ManagedFields
<1> HIDE DEF h3
<1> QED
  BY <1>2, <1>4, OverFields

\* A click on Connect.
LEMMA ConnectHardwareSound ==
  ASSUME Sound, NEW t \in Ops, ConnectHardware(t)
  PROVE  /\ Sound'
         /\ Step(t, New("connect", "connect", manager', unit.kind))
         /\ manager' = Len(managers) + 1 /\ Len(managers') = Len(managers) + 1
         /\ managers'[Len(managers) + 1] = [transport |-> unit.kind, count |-> 0, timer |-> FALSE]
         /\ \A n \in 1 .. Len(managers) : /\ managers'[n].count = managers[n].count
                                          /\ managers'[n].timer = managers[n].timer
<1> DEFINE x == [transport |-> unit.kind, count |-> 0, timer |-> FALSE]
           h == New("connect", "connect", manager', unit.kind)
<1>1. unit.kind \in Kind /\ x \in ManagerState
  BY DEF Sound, PlainTypes, ManagerState
<1>2. SetTransport(unit.kind) \in Seq(ManagerState) /\ Len(SetTransport(unit.kind)) = Len(managers)
  BY <1>1, SetsTransport DEF Sound, PlainTypes
<1>3. managers' = Append(SetTransport(unit.kind), x) /\ manager' = Len(managers')
  BY DEF ConnectHardware
<1>4. Len(managers) \in Nat
  BY LenProperties DEF Sound, PlainTypes
<1>5. managers' \in Seq(ManagerState) /\ Len(managers') = Len(managers) + 1
  BY <1>1, <1>2, <1>3, AppendProperties
<1>6. h \in OpState /\ h.do = "connect" /\ h.at = "connect" /\ h.manager = manager' /\ h.on = unit.kind
  <2>1. manager' \in Nat
    BY <1>3, <1>4, <1>5
  <2>2. "connect" \in Task /\ "connect" \in Place
    BY DEF Task, Place, Running
  <2> QED
    BY <1>1, <2>1, <2>2, NewFields
<1>7. op' = [op EXCEPT ![t] = h]
  BY DEF ConnectHardware, New
<1>8. Step(t, h) /\ Shape(h)
  <2>1. Step(t, h)
    BY <1>6, <1>7, Put DEF Sound, OpsSound
  <2>2. Shape(h)
    BY <1>3, <1>4, <1>5, <1>6 DEF Shape, Opening, Closing
  <2> QED
    BY <2>1, <2>2
<1> HIDE DEF h, x
<1>9. op[t].at = "idle" /\ bridge' = bridge
  BY IdleFields DEF ConnectHardware, Click, links
<1>10. OpsSound'
  <2>1. bridge.waiter # NoOne => bridge.waiter \in Ops /\ bridge.waiter # t
    BY <1>9 DEF Sound, PlainTypes, OpsSound, Waiter, BridgeState
  <2>2. h.manager <= Len(managers') /\ Len(managers) <= Len(managers') /\ Len(managers') \in Nat
    BY <1>3, <1>4, <1>5, <1>6
  <2> QED
    BY <1>4, <1>6, <1>8, <1>9, <2>1, <2>2, Goes DEF Sound
<1>11. PlainTypes'
  BY <1>1, <1>3, <1>4, <1>5, SessionAssumption DEF Sound, PlainTypes, ConnectHardware, Click, links
<1>12. Step(t, New("connect", "connect", manager', unit.kind))
  BY <1>8 DEF h
<1>13. managers'[Len(managers) + 1] = x
  BY <1>1, <1>2, <1>3, <1>4, AppendProperties
<1>14. ASSUME NEW n \in 1 .. Len(managers)
       PROVE  managers'[n].count = managers[n].count /\ managers'[n].timer = managers[n].timer
  <2>1. managers'[n] = SetTransport(unit.kind)[n]
    BY <1>1, <1>2, <1>3, <1>4, AppendProperties
  <2> QED
    BY <1>1, <2>1, SetsTransport DEF Sound, PlainTypes
<1> QED
  BY <1>3, <1>5, <1>10, <1>11, <1>12, <1>13, <1>14 DEF Sound, x

\* A click on Disconnect.
LEMMA DisconnectHardwareSound ==
  ASSUME Sound, NEW t \in Ops, DisconnectHardware(t)
  PROVE  /\ Sound'
         /\ Step(t, New("disconnect", "stop", manager,
                        IF manager = 0 THEN activeTransport ELSE managers[manager].transport))
         /\ \/ manager = 0 /\ managers' = managers
            \/ manager # 0 /\ ManagerStep(manager, Tried(manager, 0, FALSE))
<1> DEFINE k == IF manager = 0 THEN activeTransport ELSE managers[manager].transport
           h == New("disconnect", "stop", manager, k)
<1>1. Len(managers) \in Nat /\ manager \in 0 .. Len(managers) /\ managers \in Seq(ManagerState)
  BY LenProperties DEF Sound, PlainTypes
<1>2. manager # 0 => managers[manager] \in ManagerState
  BY <1>1, ElementOfSeq
<1>3. k \in Kind
  BY <1>2 DEF ManagerState, Sound, PlainTypes
<1>12. \/ manager = 0 /\ managers' = managers
       \/ manager # 0 /\ ManagerStep(manager, Tried(manager, 0, FALSE))
  <2>1. CASE manager = 0
    BY <1>1, <2>1 DEF DisconnectHardware
  <2>2. CASE manager # 0
    <3>1. managers' = Cancelled(manager) /\ manager \in 1 .. Len(managers)
      BY <1>1, <2>2 DEF DisconnectHardware
    <3> QED
      BY <1>1, <2>2, <3>1, Cancels
  <2> QED
    BY <2>1, <2>2
<1>4. managers' \in Seq(ManagerState) /\ Len(managers') = Len(managers)
  BY <1>1, <1>12 DEF ManagerStep
<1>5. op' = [op EXCEPT ![t] = h]
  BY DEF DisconnectHardware, New
<1> HIDE DEF k
<1>6. h \in OpState /\ h.do = "disconnect" /\ h.at = "stop" /\ h.manager = manager /\ h.on = k
  <2>1. "disconnect" \in Task /\ "stop" \in Place
    BY DEF Task, Place, Running
  <2> QED
    BY <1>1, <1>3, <2>1, NewFields
<1>7. Step(t, h)
  BY <1>5, <1>6, Put DEF Sound, OpsSound
<1>8. Shape(h)
  BY <1>6 DEF Shape, Opening, Closing, Again2
<1> HIDE DEF h
<1>9. op[t].at # "start" /\ bridge' = bridge
  BY IdleFields DEF DisconnectHardware, Click, links
<1>10. OpsSound'
  BY <1>1, <1>4, <1>6, <1>7, <1>8, <1>9, GoesOn DEF Sound
<1>11. PlainTypes'
  BY <1>1, <1>4, SessionAssumption DEF Sound, PlainTypes, DisconnectHardware, Click, links
<1> QED
  BY <1>7, <1>10, <1>11, <1>12 DEF Sound, h, k

\* A click on Reconnect.
LEMMA ReconnectHardwareSound ==
  ASSUME Sound, NEW t \in Ops, ReconnectHardware(t)
  PROVE  Sound' /\ Step(t, New("reconnect", "again", manager, managers[manager].transport))
<1> DEFINE h == New("reconnect", "again", manager, managers[manager].transport)
<1>1. Len(managers) \in Nat /\ manager \in 1 .. Len(managers) /\ managers \in Seq(ManagerState)
  BY LenProperties DEF Sound, PlainTypes, ReconnectHardware
<1>2. managers[manager] \in ManagerState
  BY <1>1, ElementOfSeq
<1>3. h \in OpState /\ h.do = "reconnect" /\ h.at = "again" /\ h.manager = manager
  <2>1. "reconnect" \in Task /\ "again" \in Place
    BY DEF Task, Place, Running
  <2>2. manager \in Nat /\ managers[manager].transport \in Kind
    BY <1>1, <1>2 DEF ManagerState
  <2> QED
    BY <2>1, <2>2, NewFields
<1>4. op' = [op EXCEPT ![t] = h]
  BY DEF ReconnectHardware, New
<1>5. Step(t, h)
  BY <1>3, <1>4, Put DEF Sound, OpsSound
<1>6. Shape(h)
  BY <1>1, <1>3 DEF Shape, Opening, Closing, Again2
<1> HIDE DEF h
<1>7. op[t].at # "start" /\ bridge' = bridge /\ managers' = managers
  BY IdleFields DEF ReconnectHardware, Click, links
<1>8. OpsSound'
  BY <1>1, <1>3, <1>5, <1>6, <1>7, GoesOn DEF Sound
<1>9. PlainTypes'
  BY SessionAssumption DEF Sound, PlainTypes, ReconnectHardware, Click, links, page
<1> QED
  BY <1>5, <1>8, <1>9 DEF Sound, h

\* A retry is due.
LEMMA AutoRetrySound ==
  ASSUME Sound, NEW t \in Ops, NEW m \in 1 .. Len(managers), AutoRetry(t, m)
  PROVE  /\ Sound' /\ ManagerStep(m, Tried(m, managers[m].count, FALSE))
         /\ op' = op \/ Step(t, New("retry", "again", m, managers[m].transport))
<1> DEFINE h == New("retry", "again", m, managers[m].transport)
<1>1. Len(managers) \in Nat /\ managers \in Seq(ManagerState)
  BY LenProperties DEF Sound, PlainTypes
<1>2. /\ managers[m] \in ManagerState /\ managers[m].count \in Nat /\ managers[m].transport \in Kind
      /\ [managers[m] EXCEPT !.timer = FALSE] = Tried(m, managers[m].count, FALSE)
  <2>1. managers[m] \in ManagerState
    BY <1>1, ElementOfSeq
  <2> QED
    BY <2>1, TimerSet DEF ManagerState, Tried
<1>3. h \in OpState /\ h.do = "retry" /\ h.at = "again" /\ h.manager = m
  <2>1. m \in Nat /\ "retry" \in Task /\ "again" \in Place
    BY <1>1 DEF Task, Place, Running
  <2> QED
    BY <1>2, <2>1, NewFields
<1>4. op' = op \/ op' = [op EXCEPT ![t] = h]
  BY DEF AutoRetry, New
<1>5. Shape(h)
  BY <1>3 DEF Shape, Opening, Closing, Again2
<1>6. Tried(m, managers[m].count, FALSE) \in ManagerState
  BY <1>1, <1>2, TriedTyped
<1>7. managers' = [managers EXCEPT ![m] = Tried(m, managers[m].count, FALSE)]
  BY <1>2 DEF AutoRetry
<1>8. ManagerStep(m, Tried(m, managers[m].count, FALSE))
  BY <1>1, <1>6, <1>7, PutManager
<1>9. op[t].at # "start" /\ bridge' = bridge
  BY IdleFields DEF AutoRetry, links
<1>10. managers' \in Seq(ManagerState) /\ Len(managers') = Len(managers)
  BY <1>8 DEF ManagerStep
<1> HIDE DEF h
<1>11. OpsSound'
  <2>1. CASE op' = op
    BY <1>9, <1>10, <2>1 DEF Sound, OpsSound, Shaped, Waiter
  <2>2. CASE op' = [op EXCEPT ![t] = h]
    <3>1. Step(t, h)
      BY <1>3, <2>2, Put DEF Sound, OpsSound
    <3> QED
      BY <1>1, <1>3, <1>5, <1>9, <1>10, <3>1, GoesOn DEF Sound
  <2> QED
    BY <1>4, <2>1, <2>2
<1>12. PlainTypes'
  BY <1>10 DEF Sound, PlainTypes, AutoRetry, links, page
<1>13. op' = op \/ Step(t, h)
  BY <1>3, <1>4, Put DEF Sound, OpsSound
<1> QED
  BY <1>8, <1>11, <1>12, <1>13 DEF Sound, h

\* The choice of the transport.
LEMMA SelectTransportSound ==
  ASSUME Sound, NEW k \in Kind, SelectTransport(k)
  PROVE  /\ Sound'
         /\ Len(managers') = Len(managers)
         /\ \A n \in 1 .. Len(managers) : /\ managers'[n].count = managers[n].count
                                          /\ managers'[n].timer = managers[n].timer
<1>1. /\ managers' \in Seq(ManagerState) /\ Len(managers') = Len(managers)
      /\ \A n \in 1 .. Len(managers) : /\ managers'[n].count = managers[n].count
                                       /\ managers'[n].timer = managers[n].timer
  BY SetsTransport DEF Sound, PlainTypes, SelectTransport
<1>2. op' = op /\ bridge' = bridge
  BY DEF SelectTransport, links
<1>3. OpsSound'
  BY <1>1, <1>2 DEF Sound, OpsSound, Shaped, Waiter
<1>4. PlainTypes'
  <2>1. unit' \in [connected : BOOLEAN, degraded : BOOLEAN, kind : Kind]
    BY DEF Sound, PlainTypes, SelectTransport
  <2>2. clicks' \in 0 .. Clicks /\ overlapped' \in BOOLEAN
    BY SessionAssumption DEF Sound, PlainTypes, SelectTransport, Busy
  <2> QED
    BY <1>1, <2>1, <2>2 DEF Sound, PlainTypes, SelectTransport, links
<1> QED
  BY <1>1, <1>3, <1>4 DEF Sound

SetThen(f, t, a, b) == [f EXCEPT ![t].at = a, ![t].next = b]
SetOver(f, t, a, b) == [f EXCEPT ![t].at = a, ![t].on = b]
SetDoing(f, t, a, b) == [f EXCEPT ![t].at = a, ![t].do = b]
SetThrough(f, t, a, b, c) == [f EXCEPT ![t].at = a, ![t].next = b, ![t].socket = c]

\* Setting fields of an operation is setting the operation: its place and its way on.
LEMMA SendsThen ==
  ASSUME NEW D, NEW f \in [D -> OpState], NEW t \in D, NEW a, NEW b
  PROVE  SetThen(f, t, a, b) = [f EXCEPT ![t] = Then(Sent(f[t], a), b)]
BY DEF Then, Sent, SetThen

\* Its place and its transport.
LEMMA SendsOver ==
  ASSUME NEW D, NEW f \in [D -> OpState], NEW t \in D, NEW a, NEW b
  PROVE  SetOver(f, t, a, b) = [f EXCEPT ![t] = Over(Sent(f[t], a), b)]
BY DEF Over, Sent, SetOver

\* Its place and what it does.
LEMMA SendsDoing ==
  ASSUME NEW D, NEW f \in [D -> OpState], NEW t \in D, NEW a, NEW b
  PROVE  SetDoing(f, t, a, b) = [f EXCEPT ![t] = Doing(Sent(f[t], a), b)]
BY DEF Doing, Sent, SetDoing

\* What it does, by what it did.
LEMMA DoesNot ==
  ASSUME NEW D, NEW f \in [D -> OpState], NEW t \in D, NEW a, NEW b, NEW c, NEW d
  PROVE  [f EXCEPT ![t].at = a, ![t].do = IF @ = b THEN c ELSE d]
           = SetDoing(f, t, a, IF f[t].do = b THEN c ELSE d)
<1>1. f[t] \in OpState
  OBVIOUS
<1>2. [f EXCEPT ![t].at = a][t] = Sent(f[t], a)
  BY DEF Sent
<1>3. Sent(f[t], a).do = f[t].do
  BY <1>1 DEF Sent, OpState
<1>4. [f EXCEPT ![t].at = a][t].do = f[t].do
  BY <1>2, <1>3
<1> QED
  BY <1>4 DEF SetDoing

\* Its place, its way on and its socket.
LEMMA SendsThrough ==
  ASSUME NEW D, NEW f \in [D -> OpState], NEW t \in D, NEW a, NEW b, NEW c
  PROVE  SetThrough(f, t, a, b, c) = [f EXCEPT ![t] = Through(Then(Sent(f[t], a), b), c)]
BY DEF Through, Then, Sent, SetThrough

\* What the bridge client keeps, after each change.
Opened(b, i) == [b EXCEPT !.ws = i]
Ended(b) == [b EXCEPT !.had = FALSE]
Dropped(b) == [b EXCEPT !.ws = 0, !.had = FALSE]
Waited(b, t) == [b EXCEPT !.waiter = t]
Answered(b) == [b EXCEPT !.had = TRUE, !.waiter = NoOne]

\* The fields of the bridge client with another socket.
LEMMA OpenedFields ==
  ASSUME NEW b \in BridgeState, NEW i \in 0 .. Sockets
  PROVE  /\ Opened(b, i) \in BridgeState /\ Opened(b, i).ws = i
         /\ Opened(b, i).had = b.had /\ Opened(b, i).waiter = b.waiter
BY DEF BridgeState, Opened

\* Without a session.
LEMMA EndedFields ==
  ASSUME NEW b \in BridgeState
  PROVE  /\ Ended(b) \in BridgeState /\ Ended(b).ws = b.ws
         /\ Ended(b).had = FALSE /\ Ended(b).waiter = b.waiter
BY DEF BridgeState, Ended

\* With another one that waits.
LEMMA WaitedFields ==
  ASSUME NEW b \in BridgeState, NEW t \in Ops \cup {NoOne}
  PROVE  /\ Waited(b, t) \in BridgeState /\ Waited(b, t).ws = b.ws
         /\ Waited(b, t).had = b.had /\ Waited(b, t).waiter = t
BY DEF BridgeState, Waited

\* The fields of the bridge client after the changes of two fields.
LEMMA BridgePairs ==
  ASSUME NEW b \in BridgeState
  PROVE  /\ Dropped(b) \in BridgeState /\ Dropped(b).ws = 0
         /\ Dropped(b).had = FALSE /\ Dropped(b).waiter = b.waiter
         /\ Answered(b) \in BridgeState /\ Answered(b).ws = b.ws
         /\ Answered(b).had = TRUE /\ Answered(b).waiter = NoOne
<1>1. 0 \in 0 .. Sockets
  BY SessionAssumption
<1>2. Opened(b, 0) \in BridgeState /\ Opened(b, 0).ws = 0 /\ Opened(b, 0).waiter = b.waiter
  BY <1>1, OpenedFields
<1>3. Dropped(b) = Ended(Opened(b, 0))
  BY DEF Dropped, Ended, Opened
<1>4. Waited([b EXCEPT !.had = TRUE], NoOne) = Answered(b)
  BY DEF Answered, Waited
<1>5. [b EXCEPT !.had = TRUE] \in BridgeState /\ [b EXCEPT !.had = TRUE].ws = b.ws /\ [b EXCEPT !.had = TRUE].had = TRUE
  BY DEF BridgeState
<1>6. Dropped(b) \in BridgeState /\ Dropped(b).ws = 0 /\ Dropped(b).had = FALSE /\ Dropped(b).waiter = b.waiter
  BY <1>2, <1>3, EndedFields
<1> DEFINE c == [b EXCEPT !.had = TRUE]
<1>7. c \in BridgeState /\ c.ws = b.ws /\ c.had = TRUE /\ Waited(c, NoOne) = Answered(b)
  BY <1>4, <1>5
<1> HIDE DEF c
<1>8. Answered(b) \in BridgeState /\ Answered(b).ws = b.ws /\ Answered(b).had = TRUE /\ Answered(b).waiter = NoOne
  BY <1>7, WaitedFields
<1> QED
  BY <1>6, <1>8

\* An operation is sent to a place where it can be.
LEMMA SendsSound ==
  ASSUME PlainTypes, OpsSound, NEW t \in Ops, NEW a \in Place, Goto(t, a), op[t].at # "start",
         Shape(Sent(op[t], a)), bridge'.waiter = bridge.waiter,
         managers' \in Seq(ManagerState), Len(managers') = Len(managers)
  PROVE  OpsSound' /\ Step(t, Sent(op[t], a))
<1>1. op[t] \in OpState /\ op[t].manager <= Len(managers)
  BY DEF OpsSound
<1>2. Sent(op[t], a) \in OpState /\ Sent(op[t], a).manager = op[t].manager
  BY <1>1, SentFields
<1>3. Step(t, Sent(op[t], a))
  BY Sends DEF OpsSound
<1> QED
  BY <1>1, <1>2, <1>3, GoesOn

\* An operation has a type and is somewhere it can be.
LEMMA OpTyped ==
  ASSUME OpsSound, NEW t \in Ops
  PROVE  op[t] \in OpState /\ Shape(op[t]) /\ op[t].manager <= Len(managers) /\ op[t].manager \in Nat
BY DEF OpsSound, Shaped, OpState

\* An operation goes on to one of some places, and only its way on and its socket may change.
Moves(t, A) ==
  /\ op' \in [Ops -> OpState] /\ op'[t].at \in A
  /\ op'[t].do = op[t].do /\ op'[t].manager = op[t].manager /\ op'[t].on = op[t].on
  /\ \A u \in Ops : u # t => op'[u] = op[u]

\* An operation that is sent to a place moves there.
LEMMA SentMoves ==
  ASSUME NEW t \in Ops, NEW a \in Place, op[t] \in OpState, Step(t, Sent(op[t], a))
  PROVE  Moves(t, {a})
BY SentFields DEF Step, Moves

\* A new socket, or none any more.
LEMMA NewSocketSound ==
  ASSUME Sound, NEW t \in Ops, NEW next \in {"begin", "ask", "send"}, NewSocket(t, next),
         op[t].at \in {"connect", "ask"}, op[t].on = "bridge",
         next = "begin" => op[t].do = "connect", managers' = managers
  PROVE  /\ OpsSound'
         /\ bridge' \in BridgeState
         /\ sockets' \in [1 .. Sockets -> SocketState] /\ state' \in [Kind -> State]
         /\ Moves(t, {"socket", "fail"}) /\ (op'[t].at = "socket" => op'[t].socket = bridge'.ws)
<1>1. op[t] \in OpState /\ Shape(op[t]) /\ op[t].manager <= Len(managers)
  BY OpTyped DEF Sound
<1>2. managers \in Seq(ManagerState) /\ bridge \in BridgeState
  BY DEF Sound, PlainTypes
<1>3. ASSUME NEW i \in 1 .. Sockets, sockets' = [sockets EXCEPT ![i] = "connecting"],
             bridge' = [bridge EXCEPT !.ws = i],
             op' = [op EXCEPT ![t].at = "socket", ![t].next = next, ![t].socket = i], state' = state
      PROVE  /\ OpsSound'
             /\ bridge' \in BridgeState
             /\ sockets' \in [1 .. Sockets -> SocketState] /\ state' \in [Kind -> State]
             /\ Moves(t, {"socket", "fail"}) /\ op'[t].socket = bridge'.ws
  <2> DEFINE h1 == Sent(op[t], "socket")
             h2 == Then(h1, next)
             h == Through(h2, i)
  <2>1. "socket" \in Place /\ next \in Running \cup {"idle"} /\ i \in 0 .. Sockets
    BY SessionAssumption DEF Place, Waiting, Running
  <2>2. op' = [op EXCEPT ![t] = h]
    <3>1. op' = SetThrough(op, t, "socket", next, i)
      BY <1>3 DEF SetThrough
    <3> QED
      BY <3>1, SendsThrough DEF Sound, OpsSound
  <2>3. /\ h1 \in OpState /\ h1.at = "socket" /\ h1.do = op[t].do /\ h1.manager = op[t].manager
        /\ h1.on = op[t].on
    BY <1>1, <2>1, SentFields
  <2> HIDE DEF h1
  <2>4. /\ h2 \in OpState /\ h2.at = "socket" /\ h2.do = op[t].do /\ h2.manager = op[t].manager
        /\ h2.on = op[t].on /\ h2.next = next
    BY <2>1, <2>3, ThenFields
  <2> HIDE DEF h2
  <2>5. /\ h \in OpState /\ h.at = "socket" /\ h.do = op[t].do /\ h.manager = op[t].manager
        /\ h.on = op[t].on /\ h.next = next /\ h.socket = i
    BY <2>1, <2>4, ThroughFields
  <2> HIDE DEF h
  <2>6. Shape(h)
    BY <1>1, <2>5 DEF Shape, Opening, Closing
  <2>7. Step(t, h)
    BY <2>2, <2>5, Put DEF Sound, OpsSound
  <2>8. bridge' \in BridgeState /\ bridge'.waiter = bridge.waiter /\ bridge'.ws = i
    <3>1. bridge' = Opened(bridge, i)
      BY <1>3 DEF Opened
    <3> QED
      BY <1>2, <2>1, <3>1, OpenedFields
  <2>9. OpsSound'
    BY <1>1, <1>2, <2>5, <2>6, <2>7, <2>8, GoesOn DEF Sound
  <2>10. sockets' \in [1 .. Sockets -> SocketState] /\ state' \in [Kind -> State]
    BY <1>3 DEF Sound, PlainTypes, SocketState
  <2>11. Moves(t, {"socket", "fail"}) /\ op'[t].socket = bridge'.ws
    BY <2>5, <2>7, <2>8 DEF Step, Moves
  <2> QED
    BY <2>8, <2>9, <2>10, <2>11
<1>4. ASSUME bridge' = [bridge EXCEPT !.ws = 0, !.had = FALSE],
             state' = IF fatal["bridge"] THEN state ELSE [state EXCEPT !["bridge"] = "disconnected"],
             Goto(t, "fail"), sockets' = sockets
      PROVE  /\ OpsSound'
             /\ bridge' \in BridgeState
             /\ sockets' \in [1 .. Sockets -> SocketState] /\ state' \in [Kind -> State]
             /\ Moves(t, {"fail"})
  <2>1. bridge' \in BridgeState /\ bridge'.waiter = bridge.waiter
    <3>1. bridge' = Dropped(bridge)
      BY <1>4 DEF Dropped
    <3> QED
      BY <1>2, <3>1, BridgePairs
  <2>2. sockets' \in [1 .. Sockets -> SocketState] /\ state' \in [Kind -> State]
    BY <1>4 DEF Sound, PlainTypes, Kind, State
  <2>3. "fail" \in Place
    BY DEF Place, Running
  <2>4. Sent(op[t], "fail").at = "fail" /\ Sent(op[t], "fail").do = op[t].do /\ Sent(op[t], "fail").manager = op[t].manager
    BY <1>1, <2>3, SentFields
  <2>5. Shape(Sent(op[t], "fail"))
    BY <1>1, <2>4 DEF Shape, Opening, Closing
  <2>6. OpsSound' /\ Moves(t, {"fail"})
    BY <1>1, <1>2, <1>4, <2>1, <2>3, <2>5, SendsSound, SentMoves DEF Sound
  <2> QED
    BY <2>1, <2>2, <2>6
<1> QED
  BY <1>3, <1>4 DEF NewSocket, Moves

\* The transport is asked to connect.
LEMMA ConnectSound ==
  ASSUME Sound, NEW t \in Ops, Connect(t)
  PROVE  Sound' /\ Moves(t, {"fail", "begin", "ask", "socket", "port"})
         /\ (op'[t].at = "socket" => op'[t].socket = bridge'.ws)
<1> DEFINE next == IF op[t].do = "connect" THEN "begin" ELSE "ask"
<1>1. op[t] \in OpState /\ Shape(op[t]) /\ op[t].manager <= Len(managers) /\ op[t].at = "connect"
  BY OpTyped DEF Sound, Connect
<1>2. /\ managers \in Seq(ManagerState) /\ managers' = managers
      /\ UNCHANGED <<page, managers, manager, fatal, serial, clicks, overlapped>>
  BY DEF Sound, PlainTypes, Connect
<1>3. ASSUME NEW a \in {"fail", "begin", "ask"}, a \in {"fail", next}, Move(t, a), portHolder' = portHolder
      PROVE  Sound' /\ Moves(t, {a})
  <2>1. a \in Place
    BY DEF Place, Running
  <2>2. /\ Sent(op[t], a).at = a /\ Sent(op[t], a).do = op[t].do
        /\ Sent(op[t], a).manager = op[t].manager
    BY <1>1, <2>1, SentFields
  <2>3. Shape(Sent(op[t], a))
    BY <1>1, <1>3, <2>2 DEF Shape, Opening, Closing
  <2>4. OpsSound' /\ Moves(t, {a})
    BY <1>1, <1>2, <1>3, <2>1, <2>3, SendsSound, SentMoves DEF Sound, Move
  <2>5. PlainTypes'
    BY <1>2, <1>3 DEF Sound, PlainTypes, Move, page
  <2> QED
    BY <2>4, <2>5 DEF Sound
<1>4. ASSUME op[t].on = "bridge", NewSocket(t, next), portHolder' = portHolder
      PROVE  Sound' /\ Moves(t, {"socket", "fail"}) /\ (op'[t].at = "socket" => op'[t].socket = bridge'.ws)
  <2>1. next \in {"begin", "ask", "send"} /\ (next = "begin" => op[t].do = "connect")
    OBVIOUS
  <2> HIDE DEF next
  <2>2. /\ OpsSound'
        /\ bridge' \in BridgeState
        /\ sockets' \in [1 .. Sockets -> SocketState] /\ state' \in [Kind -> State]
        /\ Moves(t, {"socket", "fail"}) /\ (op'[t].at = "socket" => op'[t].socket = bridge'.ws)
    BY <1>1, <1>2, <1>4, <2>1, NewSocketSound
  <2>3. PlainTypes'
    BY <1>2, <1>4, <2>2 DEF Sound, PlainTypes, page
  <2> QED
    BY <2>2, <2>3 DEF Sound
<1>5. ASSUME op[t].on = "webserial", op' = [op EXCEPT ![t].at = "port", ![t].next = next],
             portHolder' = "webserial", UNCHANGED <<bridge, sockets>>,
             state' = [state EXCEPT !["webserial"] = IF op[t].do = "connect" THEN "connecting" ELSE @]
      PROVE  Sound' /\ Moves(t, {"port"})
  <2>1. next \in {"begin", "ask"} /\ (next = "begin" => op[t].do = "connect")
    OBVIOUS
  <2> HIDE DEF next
  <2> DEFINE h1 == Sent(op[t], "port")
             h == Then(h1, next)
  <2>2. "port" \in Place /\ next \in Running \cup {"idle"}
    BY <2>1 DEF Place, Waiting, Running
  <2>3. op' = [op EXCEPT ![t] = h]
    <3>1. op' = SetThen(op, t, "port", next)
      BY <1>5 DEF SetThen
    <3> QED
      BY <3>1, SendsThen DEF Sound, OpsSound
  <2>4. /\ h1 \in OpState /\ h1.at = "port" /\ h1.do = op[t].do /\ h1.manager = op[t].manager
        /\ h1.on = op[t].on
    BY <1>1, <2>2, SentFields
  <2> HIDE DEF h1
  <2>5. /\ h \in OpState /\ h.at = "port" /\ h.do = op[t].do /\ h.manager = op[t].manager
        /\ h.on = op[t].on /\ h.next = next
    BY <2>2, <2>4, ThenFields
  <2> HIDE DEF h
  <2>6. Shape(h)
    BY <1>1, <1>5, <2>1, <2>5 DEF Shape, Opening, Closing
  <2>7. Step(t, h)
    BY <2>3, <2>5, Put DEF Sound, OpsSound
  <2>8. OpsSound'
    BY <1>1, <1>2, <1>5, <2>5, <2>6, <2>7, GoesOn DEF Sound
  <2>9. PlainTypes'
    <3>1. state' \in [Kind -> State] /\ portHolder' \in Kind \cup {NoOne}
      BY <1>5 DEF Sound, PlainTypes, Kind, State
    <3> QED
      BY <1>2, <1>5, <3>1 DEF Sound, PlainTypes, page
  <2>10. Moves(t, {"port"})
    BY <2>5, <2>7 DEF Step, Moves
  <2> QED
    BY <2>8, <2>9, <2>10 DEF Sound
<1>6. \/ \E a \in {"fail", next} : Move(t, a) /\ portHolder' = portHolder
      \/ op[t].on = "bridge" /\ NewSocket(t, next) /\ portHolder' = portHolder
      \/ /\ op[t].on = "webserial" /\ op' = [op EXCEPT ![t].at = "port", ![t].next = next]
         /\ portHolder' = "webserial" /\ UNCHANGED <<bridge, sockets>>
         /\ state' = [state EXCEPT !["webserial"] = IF op[t].do = "connect" THEN "connecting" ELSE @]
  BY DEF Connect
<1>7. next \in {"begin", "ask"}
  OBVIOUS
<1> HIDE DEF next
<1>8. CASE \E a \in {"fail", next} : Move(t, a) /\ portHolder' = portHolder
  <2>1. PICK a \in {"fail", next} : Move(t, a) /\ portHolder' = portHolder
    BY <1>8
  <2>2. Sound' /\ Moves(t, {a}) /\ a \in {"fail", "begin", "ask"}
    BY <1>3, <1>7, <2>1
  <2> QED
    BY <2>2 DEF Moves
<1> QED
  BY <1>4, <1>5, <1>6, <1>8 DEF Moves

\* The link of a session is lost.
LEMMA LinkLossTyped ==
  ASSUME PlainTypes, NEW after \in [Kind -> State], HandleLinkLoss(after)
  PROVE  /\ state' \in [Kind -> State]
         /\ unit' \in [connected : BOOLEAN, degraded : BOOLEAN, kind : Kind]
         /\ adapter' \in [connected : BOOLEAN, timer : BOOLEAN]
         /\ managers' \in Seq(ManagerState) /\ Len(managers') = Len(managers)
         /\ \A n \in 1 .. Len(managers) : managers'[n].count \in {0, managers[n].count}
<1> DEFINE k == managers[manager].transport
<1>1. Len(managers) \in Nat /\ manager \in 0 .. Len(managers) /\ managers \in Seq(ManagerState)
  BY LenProperties DEF PlainTypes
<1>2. CASE manager # 0 /\ after[k] = "active"
  <2>1. manager \in 1 .. Len(managers)
    BY <1>1, <1>2
  <2>2. managers[manager] \in ManagerState
    BY <1>1, <2>1, ElementOfSeq
  <2>3. k \in Kind
    BY <2>2 DEF ManagerState
  <2>4. /\ state' = [after EXCEPT ![k] = "degraded"] /\ OnStateChange("degraded")
        /\ managers' = IF fatal[k] THEN managers ELSE Scheduled(manager)
    BY <1>2 DEF HandleLinkLoss
  <2> HIDE DEF k
  <2>5. /\ managers' \in Seq(ManagerState) /\ Len(managers') = Len(managers)
        /\ \A n \in 1 .. Len(managers) : managers'[n].count \in {0, managers[n].count}
    <3>1. CASE fatal[k]
      BY <1>1, <2>4, <3>1
    <3>2. CASE ~fatal[k]
      <4>1. managers' = Scheduled(manager)
        BY <2>4, <3>2
      <4>2. Tried(manager, 0, TRUE).count = 0
        BY DEF Tried
      <4> QED
        BY <1>1, <2>1, <4>1, <4>2, Schedules DEF ManagerStep
    <3> QED
      BY <3>1, <3>2
  <2>6. state' \in [Kind -> State]
    BY <2>3, <2>4 DEF State
  <2>7. "degraded" \in State
    BY DEF State
  <2> QED
    BY <2>4, <2>5, <2>6, <2>7, PageTyped DEF PlainTypes
<1>3. CASE ~(manager # 0 /\ after[k] = "active")
  <2>1. state' = after /\ NoChange /\ UNCHANGED managers
    BY <1>3 DEF HandleLinkLoss
  <2> QED
    BY <2>1 DEF NoChange, PlainTypes
<1> QED
  BY <1>2, <1>3

\* The port that is released is free or another's.
LEMMA ReleasedTyped ==
  ASSUME PlainTypes, NEW k \in Kind
  PROVE  Released(k) \in Kind \cup {NoOne} /\ Released(k) # k
         /\ (portHolder # k => Released(k) = portHolder)
BY DEF PlainTypes, Released, NoOne, Kind

\* operatorReconnect begins, or finds nothing to do.
LEMMA AgainSound ==
  ASSUME Sound, NEW t \in Ops, Again(t)
  PROVE  /\ Sound'
         /\ \/ /\ op[t].manager \in 1 .. Len(managers)
               /\ ManagerStep(op[t].manager, Tried(op[t].manager, managers[op[t].manager].count + 1,
                                                   managers[op[t].manager].timer))
               /\ \E a \in {"connect", "ask"} : Step(t, Sent(op[t], a))
            \/ Step(t, Idle) /\ managers' = managers
<1> DEFINE k == op[t].on
           m == op[t].manager
<1>1. op[t] \in OpState /\ Shape(op[t]) /\ m <= Len(managers) /\ m \in Nat /\ op[t].at = "again"
  BY OpTyped DEF Sound, Again
<1>2. k \in Kind /\ m # 0
  BY <1>1 DEF Shape, OpState, Again2
<1>3. Len(managers) \in Nat /\ managers \in Seq(ManagerState)
  BY LenProperties DEF Sound, PlainTypes
<1>4. m \in 1 .. Len(managers)
  BY <1>1, <1>2, <1>3
<1>5. UNCHANGED <<activeTransport, manager, fatal, bridge, sockets, clicks, overlapped>>
  BY DEF Again
<1>6. ASSUME managers' = [managers EXCEPT ![m].count = @ + 1],
             state' = [state EXCEPT ![k] = "reconnecting"],
             serial' = IF Fresh(k) THEN TornDown(serial) ELSE serial,
             portHolder' = IF Fresh(k) THEN Released(k) ELSE portHolder,
             NEW a \in {"connect", "ask"}, Goto(t, a), NoChange
      PROVE  /\ Sound'
             /\ ManagerStep(m, Tried(m, managers[m].count + 1, managers[m].timer))
             /\ Step(t, Sent(op[t], a))
  <2>1. managers[m] \in ManagerState
    BY <1>3, <1>4, ElementOfSeq
  <2>2. managers[m].count \in Nat /\ managers[m].timer \in BOOLEAN /\ managers[m].count + 1 \in Nat
    BY <2>1 DEF ManagerState
  <2>3. [managers[m] EXCEPT !.count = @ + 1] = Tried(m, managers[m].count + 1, managers[m].timer)
    BY <2>1, CountSet DEF Tried
  <2>4. managers' = [managers EXCEPT ![m] = Tried(m, managers[m].count + 1, managers[m].timer)]
    BY <1>6, <2>3
  <2>5. Tried(m, managers[m].count + 1, managers[m].timer) \in ManagerState
    BY <1>3, <1>4, <2>2, TriedTyped
  <2>6. ManagerStep(m, Tried(m, managers[m].count + 1, managers[m].timer))
    BY <1>3, <1>4, <2>4, <2>5, PutManager
  <2>7. managers' \in Seq(ManagerState) /\ Len(managers') = Len(managers)
    BY <2>6 DEF ManagerStep
  <2>8. a \in Place
    BY DEF Place, Running
  <2>9. Sent(op[t], a).at = a /\ Sent(op[t], a).do = op[t].do /\ Sent(op[t], a).manager = m
    BY <1>1, <2>8, SentFields
  <2>10. Shape(Sent(op[t], a))
    BY <1>1, <2>9 DEF Shape, Opening, Closing
  <2>11. OpsSound' /\ Step(t, Sent(op[t], a))
    BY <1>1, <1>5, <1>6, <2>7, <2>8, <2>10, SendsSound DEF Sound
  <2>12. state' \in [Kind -> State]
    BY <1>6 DEF Sound, PlainTypes, State
  <2>13. portHolder' \in Kind \cup {NoOne}
    BY <1>2, <1>6, ReleasedTyped DEF Sound, PlainTypes
  <2>15. serial' \in PortState
    BY <1>6, PortTyped DEF Sound, PlainTypes
  <2>14. PlainTypes'
    BY <1>5, <1>6, <2>7, <2>12, <2>13, <2>15 DEF Sound, PlainTypes, NoChange
  <2> QED
    BY <2>6, <2>11, <2>14 DEF Sound
<1>7. ASSUME End(t), OnStateChange("active") \/ NoChange,
             UNCHANGED <<managers, state, serial, portHolder>>
      PROVE  Sound' /\ Step(t, Idle)
  <2>1. Step(t, Idle)
    BY <1>7, Ends DEF Sound, OpsSound
  <2>2. Idle \in OpState /\ Idle.manager <= Len(managers) /\ Idle.at = "idle"
    BY <1>3, IdleFields
  <2>3. Shape(Idle)
    BY IdleFields DEF Shape, Opening, Closing, Again2
  <2>4. OpsSound'
    BY <1>1, <1>3, <1>5, <1>7, <2>1, <2>2, <2>3, GoesOn DEF Sound
  <2>5. unit' \in [connected : BOOLEAN, degraded : BOOLEAN, kind : Kind] /\ adapter' \in [connected : BOOLEAN, timer : BOOLEAN]
    <3>1. "active" \in State
      BY DEF State
    <3> QED
      BY <1>7, <3>1, PageTyped DEF NoChange, Sound, PlainTypes
  <2>6. PlainTypes'
    BY <1>5, <1>7, <2>5 DEF Sound, PlainTypes
  <2> QED
    BY <2>1, <2>4, <2>6 DEF Sound
<1>8. \/ /\ managers' = [managers EXCEPT ![m].count = @ + 1]
         /\ state' = [state EXCEPT ![k] = "reconnecting"]
         /\ serial' = IF Fresh(k) THEN TornDown(serial) ELSE serial
         /\ portHolder' = IF Fresh(k) THEN Released(k) ELSE portHolder
         /\ \E a \in {"connect", "ask"} : Goto(t, a)
         /\ NoChange
      \/ /\ End(t) /\ (OnStateChange("active") \/ NoChange)
         /\ UNCHANGED <<managers, state, serial, portHolder>>
  BY DEF Again
<1> QED
  BY <1>4, <1>6, <1>7, <1>8

\* The port opens, or not.
LEMMA PortOpensSound ==
  ASSUME Sound, NEW t \in Ops, PortOpens(t)
  PROVE  Sound' /\ Moves(t, {"fail", "begin", "ask"})
<1>1. op[t] \in OpState /\ Shape(op[t]) /\ op[t].manager <= Len(managers) /\ op[t].at = "port"
  BY OpTyped DEF Sound, PortOpens
<1>2. UNCHANGED <<page, managers, manager, fatal, bridge, sockets, clicks, overlapped>>
  BY DEF PortOpens
<1>3. PICK a \in {"fail", op[t].next} : Goto(t, a)
  BY DEF PortOpens
<1>4. a \in Place /\ a \in {"fail", "begin", "ask"} /\ (a = "begin" => op[t].do = "connect")
  BY <1>1 DEF Shape, Place, Running
<1>5. Sent(op[t], a).at = a /\ Sent(op[t], a).do = op[t].do /\ Sent(op[t], a).manager = op[t].manager
  BY <1>1, <1>4, SentFields
<1>6. Shape(Sent(op[t], a))
  BY <1>1, <1>4, <1>5 DEF Shape, Opening, Closing
<1>7. OpsSound' /\ Step(t, Sent(op[t], a))
  BY <1>1, <1>2, <1>3, <1>4, <1>6, SendsSound DEF Sound, PlainTypes
<1>8. serial' \in PortState
  <2>1. serial' = "open" \/ serial' = TornDown(serial) \/ serial' \in Unopened(serial)
    BY DEF PortOpens
  <2>2. "open" \in PortState
    BY DEF PortState
  <2> QED
    BY <2>1, <2>2, PortTyped DEF Sound, PlainTypes
<1>9. portHolder' \in Kind \cup {NoOne}
  BY ReleasedTyped DEF PortOpens, Sound, PlainTypes, Kind
<1>10. state' \in [Kind -> State]
  BY DEF PortOpens, Sound, PlainTypes, State
<1>11. PlainTypes'
  BY <1>2, <1>8, <1>9, <1>10 DEF Sound, PlainTypes, page
<1>12. Moves(t, {a})
  BY <1>1, <1>4, <1>7, SentMoves
<1> QED
  BY <1>4, <1>7, <1>11, <1>12 DEF Sound, Moves

\* The manager begins a session.
LEMMA BeginSound ==
  ASSUME Sound, NEW t \in Ops, Begin(t)
  PROVE  /\ Sound'
         /\ \/ manager = 0 /\ managers' = managers /\ Step(t, Sent(op[t], "fail"))
            \/ /\ manager # 0 /\ ManagerStep(manager, Tried(manager, 0, FALSE))
               /\ Step(t, Over(Managed(Sent(op[t], "ask"), manager), managers[manager].transport))
<1>1. op[t] \in OpState /\ Shape(op[t]) /\ op[t].manager <= Len(managers) /\ op[t].at = "begin"
  BY OpTyped DEF Sound, Begin
<1>2. Len(managers) \in Nat /\ manager \in 0 .. Len(managers) /\ managers \in Seq(ManagerState)
  BY LenProperties DEF Sound, PlainTypes
<1>3. UNCHANGED <<page, manager, links, clicks, overlapped>>
  BY DEF Begin
<1>4. CASE manager = 0
  <2>1. "fail" \in Place
    BY DEF Place, Running
  <2>2. Sent(op[t], "fail").at = "fail" /\ Sent(op[t], "fail").do = op[t].do /\ Sent(op[t], "fail").manager = op[t].manager
    BY <1>1, <2>1, SentFields
  <2>3. Shape(Sent(op[t], "fail"))
    BY <1>1, <2>2 DEF Shape, Opening, Closing
  <2>4. Goto(t, "fail") /\ managers' = managers
    BY <1>4 DEF Begin, Goto
  <2>5. OpsSound' /\ Step(t, Sent(op[t], "fail"))
    BY <1>1, <1>2, <1>3, <2>1, <2>3, <2>4, SendsSound DEF Sound, links
  <2>6. PlainTypes'
    BY <1>3, <2>4 DEF Sound, PlainTypes, page, links
  <2> QED
    BY <1>4, <2>4, <2>5, <2>6 DEF Sound
<1>5. CASE manager # 0
  <2> DEFINE h1 == Sent(op[t], "ask")
             h2 == Managed(h1, manager)
             h == Over(h2, managers[manager].transport)
  <2>1. manager \in 1 .. Len(managers) /\ manager \in Nat /\ "ask" \in Place
    BY <1>2, <1>5 DEF Place, Running
  <2>2. managers[manager] \in ManagerState
    BY <1>2, <2>1, ElementOfSeq
  <2>3. managers[manager].transport \in Kind
    BY <2>2 DEF ManagerState
  <2>4. op' = [op EXCEPT ![t] = h] /\ managers' = Cancelled(manager)
    <3>1. op' = [op EXCEPT ![t] = [@ EXCEPT !.at = "ask", !.manager = manager, !.on = managers[manager].transport]]
      BY <1>5 DEF Begin
    <3>2. managers' = Cancelled(manager)
      BY <1>5 DEF Begin
    <3> QED
      BY <3>1, <3>2 DEF Sent, Managed, Over
  <2>5. h1 \in OpState /\ h1.at = "ask" /\ h1.do = op[t].do
    BY <1>1, <2>1, SentFields
  <2> HIDE DEF h1
  <2>6. h2 \in OpState /\ h2.at = "ask" /\ h2.do = op[t].do /\ h2.manager = manager
    BY <2>1, <2>5, ManagedFields
  <2> HIDE DEF h2
  <2>7. h \in OpState /\ h.at = "ask" /\ h.do = op[t].do /\ h.manager = manager
    BY <2>3, <2>6, OverFields
  <2> HIDE DEF h
  <2>8. ManagerStep(manager, Tried(manager, 0, FALSE))
    BY <1>2, <2>1, <2>4, Cancels
  <2>9. managers' \in Seq(ManagerState) /\ Len(managers') = Len(managers)
    BY <2>8 DEF ManagerStep
  <2>10. Shape(h)
    BY <1>1, <1>5, <2>7 DEF Shape, Opening, Closing
  <2>11. Step(t, h)
    BY <2>4, <2>7, Put DEF Sound, OpsSound
  <2>12. OpsSound'
    BY <1>1, <1>2, <1>3, <2>1, <2>7, <2>9, <2>10, <2>11, GoesOn DEF Sound, links
  <2>13. PlainTypes'
    BY <1>3, <2>9 DEF Sound, PlainTypes, page, links
  <2>14. Step(t, Over(Managed(Sent(op[t], "ask"), manager), managers[manager].transport))
    BY <2>11 DEF h, h1, h2
  <2> QED
    BY <1>5, <2>8, <2>12, <2>13, <2>14 DEF Sound
<1> QED
  BY <1>4, <1>5

\* The transport is asked for a session.
LEMMA AskSound ==
  ASSUME Sound, NEW t \in Ops, Ask(t)
  PROVE  Sound' /\ Moves(t, {"fail", "send", "ack", "socket"})
         /\ (op'[t].at = "socket" => op'[t].socket = bridge'.ws)
<1>1. op[t] \in OpState /\ Shape(op[t]) /\ op[t].manager <= Len(managers) /\ op[t].at = "ask"
  BY OpTyped DEF Sound, Ask
<1>2. /\ managers \in Seq(ManagerState) /\ managers' = managers
      /\ UNCHANGED <<page, managers, manager, portHolder, fatal, serial, clicks, overlapped>>
  BY DEF Sound, PlainTypes, Ask
<1>3. ASSUME NEW a \in {"fail", "send", "ack"}, Goto(t, a), a = "send" => op[t].on = "bridge",
             a = "ack" => op[t].on = "webserial", UNCHANGED <<bridge, sockets>>,
             state' \in [Kind -> State]
      PROVE  Sound' /\ Moves(t, {a})
  <2>1. a \in Place
    BY DEF Place, Running, Waiting
  <2>2. /\ Sent(op[t], a).at = a /\ Sent(op[t], a).do = op[t].do
        /\ Sent(op[t], a).manager = op[t].manager /\ Sent(op[t], a).on = op[t].on
    BY <1>1, <2>1, SentFields
  <2>3. Shape(Sent(op[t], a))
    BY <1>1, <1>3, <2>2 DEF Shape, Opening, Closing
  <2>4. OpsSound' /\ Moves(t, {a})
    BY <1>1, <1>2, <1>3, <2>1, <2>3, SendsSound, SentMoves DEF Sound
  <2>5. PlainTypes'
    BY <1>2, <1>3 DEF Sound, PlainTypes, page
  <2> QED
    BY <2>4, <2>5 DEF Sound
<1>4. ASSUME op[t].on = "bridge", NewSocket(t, "send")
      PROVE  Sound' /\ Moves(t, {"socket", "fail"}) /\ (op'[t].at = "socket" => op'[t].socket = bridge'.ws)
  <2>1. /\ OpsSound' /\ bridge' \in BridgeState
        /\ sockets' \in [1 .. Sockets -> SocketState] /\ state' \in [Kind -> State]
        /\ Moves(t, {"socket", "fail"}) /\ (op'[t].at = "socket" => op'[t].socket = bridge'.ws)
    BY <1>1, <1>2, <1>4, NewSocketSound
  <2>2. PlainTypes'
    BY <1>2, <2>1 DEF Sound, PlainTypes, page
  <2> QED
    BY <2>1, <2>2 DEF Sound
<1>5. [state EXCEPT !["webserial"] = "connecting"] \in [Kind -> State] /\ state \in [Kind -> State]
  BY DEF Sound, PlainTypes, State
<1>6. \/ Goto(t, "fail") /\ UNCHANGED <<bridge, sockets, state>>
      \/ op[t].on = "bridge" /\ Goto(t, "send") /\ UNCHANGED <<bridge, sockets, state>>
      \/ op[t].on = "bridge" /\ NewSocket(t, "send")
      \/ /\ op[t].on = "webserial" /\ Goto(t, "ack")
         /\ state' = [state EXCEPT !["webserial"] = "connecting"] /\ UNCHANGED <<bridge, sockets>>
  BY DEF Ask, Move
<1>7. CASE Goto(t, "fail") /\ UNCHANGED <<bridge, sockets, state>>
  BY <1>3, <1>5, <1>7 DEF Moves
<1>8. CASE op[t].on = "bridge" /\ Goto(t, "send") /\ UNCHANGED <<bridge, sockets, state>>
  BY <1>3, <1>5, <1>8 DEF Moves
<1>9. CASE /\ op[t].on = "webserial" /\ Goto(t, "ack")
           /\ state' = [state EXCEPT !["webserial"] = "connecting"] /\ UNCHANGED <<bridge, sockets>>
  BY <1>3, <1>5, <1>9 DEF Moves
<1> QED
  BY <1>4, <1>6, <1>7, <1>8, <1>9 DEF Moves

\* The bridge client asks for a session and waits.
LEMMA SendSound ==
  ASSUME Sound, NEW t \in Ops, Send(t)
  PROVE  Sound' /\ Step(t, Sent(op[t], "start"))
<1>1. op[t] \in OpState /\ Shape(op[t]) /\ op[t].manager <= Len(managers) /\ op[t].at = "send"
  BY OpTyped DEF Sound, Send
<1>2. Len(managers) \in Nat /\ op[t].manager \in Nat
  BY <1>1, LenProperties DEF Sound, PlainTypes, OpState
<1>3. "start" \in Place
  BY DEF Place, Waiting
<1>4. Step(t, Sent(op[t], "start"))
  BY <1>3, Sends DEF Send, Sound, OpsSound
<1>5. /\ Sent(op[t], "start") \in OpState /\ Sent(op[t], "start").at = "start"
      /\ Sent(op[t], "start").do = op[t].do /\ Sent(op[t], "start").manager = op[t].manager
      /\ Sent(op[t], "start").on = op[t].on
  BY <1>1, <1>3, SentFields
<1>6. Shape(Sent(op[t], "start"))
  BY <1>1, <1>5 DEF Shape, Opening, Closing
<1>7. bridge' = Waited(bridge, t)
  BY DEF Send, Waited
<1>8. bridge' \in BridgeState /\ bridge'.waiter = t
  BY <1>7, WaitedFields DEF Sound, PlainTypes
<1>9. managers' = managers
  BY DEF Send
<1>10. OpsSound'
  BY <1>1, <1>2, <1>4, <1>5, <1>6, <1>8, <1>9, Goes DEF Sound
<1>11. sockets' \in [1 .. Sockets -> SocketState] /\ state' \in [Kind -> State]
  BY DEF Send, Sound, PlainTypes, SocketState, State
<1>12. PlainTypes'
  BY <1>8, <1>9, <1>11 DEF Send, Sound, PlainTypes, page
<1> QED
  BY <1>4, <1>10, <1>12 DEF Sound

\* Operations that wait for a socket go on, or fail, and the others stay.
Woken ==
  /\ op' = [t \in Ops |-> op'[t]]
  /\ \A t \in Ops : \/ op'[t] = op[t]
                    \/ op[t].at = "socket" /\ \E a \in {"fail", op[t].next} : op'[t] = Sent(op[t], a)

\* The operations that an event of a socket wakes are where they can be.
LEMMA WokenSound ==
  ASSUME PlainTypes, OpsSound, Woken, managers' \in Seq(ManagerState), Len(managers') = Len(managers),
         bridge'.waiter = bridge.waiter
  PROVE  OpsSound'
<1>1. ASSUME NEW t \in Ops
      PROVE  /\ op'[t] \in OpState /\ Shape(op'[t]) /\ op'[t].manager <= Len(managers)
             /\ op[t].at = "start" => op'[t] = op[t]
  <2>1. op[t] \in OpState /\ Shape(op[t]) /\ op[t].manager <= Len(managers)
    BY OpTyped
  <2>2. CASE op'[t] = op[t]
    BY <2>1, <2>2
  <2>3. CASE op[t].at = "socket" /\ \E a \in {"fail", op[t].next} : op'[t] = Sent(op[t], a)
    <3>1. PICK a \in {"fail", op[t].next} : op'[t] = Sent(op[t], a)
      BY <2>3
    <3>2. a \in {"fail", "begin", "ask", "send"} /\ (a = "begin" => op[t].do = "connect") /\ op[t].on = "bridge"
      BY <2>1, <2>3 DEF Shape
    <3>3. a \in Place
      BY <3>2 DEF Place, Running
    <3>4. /\ Sent(op[t], a) \in OpState /\ Sent(op[t], a).at = a /\ Sent(op[t], a).do = op[t].do
          /\ Sent(op[t], a).manager = op[t].manager /\ Sent(op[t], a).on = op[t].on
      BY <2>1, <3>3, SentFields
    <3>5. Shape(Sent(op[t], a))
      BY <2>1, <2>3, <3>2, <3>4 DEF Shape, Opening, Closing
    <3> QED
      BY <2>1, <2>3, <3>1, <3>4, <3>5
  <2> QED
    BY <2>2, <2>3 DEF Woken
<1>2. op' \in [Ops -> OpState]
  BY <1>1 DEF Woken
<1>3. Waiter'
  BY <1>1 DEF PlainTypes, OpsSound, Waiter, BridgeState
<1> QED
  BY <1>1, <1>2, <1>3 DEF OpsSound, Shaped

\* A socket opens.
LEMMA SocketOpensSound ==
  ASSUME Sound, NEW s \in 1 .. Sockets, SocketOpens(s)
  PROVE  Sound' /\ Woken
<1>1. op' = [t \in Ops |-> IF op[t].at = "socket" /\ op[t].socket = s
                             THEN Sent(op[t], op[t].next) ELSE op[t]]
  BY DEF SocketOpens, Sent
<1>2. Woken
  BY <1>1 DEF Woken
<1>3. UNCHANGED <<page, managers, manager, portHolder, state, fatal, bridge, serial, clicks, overlapped>>
  BY DEF SocketOpens
<1>4. OpsSound'
  BY <1>2, <1>3, WokenSound DEF Sound, PlainTypes
<1>5. sockets' \in [1 .. Sockets -> SocketState]
  BY DEF SocketOpens, Sound, PlainTypes, SocketState
<1>6. PlainTypes'
  BY <1>3, <1>5 DEF Sound, PlainTypes, page
<1> QED
  BY <1>2, <1>4, <1>6 DEF Sound

\* A socket closes.
LEMMA SocketClosesSound ==
  ASSUME Sound, NEW s \in 1 .. Sockets, SocketCloses(s)
  PROVE  /\ Sound' /\ Woken /\ Len(managers') = Len(managers)
         /\ \A n \in 1 .. Len(managers) : managers'[n].count \in {0, managers[n].count}
<1>1. op' = [t \in Ops |-> IF op[t].at = "socket" /\ op[t].socket = s
                             THEN Sent(op[t], "fail") ELSE op[t]]
  BY DEF SocketCloses, Sent
<1>2. Woken
  BY <1>1 DEF Woken
<1>3. /\ UNCHANGED <<activeTransport, manager, portHolder, fatal, serial, clicks>>
      /\ overlapped' = (overlapped \/ (bridge.had /\ s # bridge.ws))
      /\ bridge' = Ended(bridge)
  BY DEF SocketCloses, Ended
<1>4. bridge' \in BridgeState /\ bridge'.waiter = bridge.waiter
  BY <1>3, EndedFields DEF Sound, PlainTypes
<1>5. sockets' \in [1 .. Sockets -> SocketState]
  BY DEF SocketCloses, Sound, PlainTypes, SocketState
<1>6. /\ state' \in [Kind -> State]
      /\ unit' \in [connected : BOOLEAN, degraded : BOOLEAN, kind : Kind]
      /\ adapter' \in [connected : BOOLEAN, timer : BOOLEAN]
      /\ managers' \in Seq(ManagerState) /\ Len(managers') = Len(managers)
      /\ \A n \in 1 .. Len(managers) : managers'[n].count \in {0, managers[n].count}
  <2>1. CASE bridge.had /\ ~fatal["bridge"]
    <3>1. [state EXCEPT !["bridge"] = "degraded"] \in [Kind -> State]
      BY DEF Sound, PlainTypes, State
    <3>2. HandleLinkLoss([state EXCEPT !["bridge"] = "degraded"])
      BY <2>1 DEF SocketCloses
    <3> QED
      BY <3>1, <3>2, LinkLossTyped DEF Sound
  <2>2. CASE ~(bridge.had /\ ~fatal["bridge"])
    <3>1. /\ state' = IF fatal["bridge"] THEN state ELSE [state EXCEPT !["bridge"] = "disconnected"]
          /\ NoChange /\ UNCHANGED managers
      BY <2>2 DEF SocketCloses
    <3> QED
      BY <3>1 DEF Sound, PlainTypes, NoChange, State
  <2> QED
    BY <2>1, <2>2
<1>7. OpsSound'
  BY <1>2, <1>4, <1>6, WokenSound DEF Sound
<1>8. overlapped' \in BOOLEAN
  BY <1>3 DEF Sound, PlainTypes, BridgeState
<1>9. PlainTypes'
  BY <1>3, <1>4, <1>5, <1>6, <1>8 DEF Sound, PlainTypes
<1> QED
  BY <1>2, <1>6, <1>7, <1>9 DEF Sound

\* The bridge answers that the session has started.
LEMMA StartedMsgSound ==
  ASSUME Sound, NEW s \in 1 .. Sockets, StartedMsg(s)
  PROVE  /\ Sound'
         /\ bridge.waiter = NoOne => op' = op
         /\ bridge.waiter # NoOne => bridge.waiter \in Ops /\ Step(bridge.waiter, Sent(op[bridge.waiter], "succeed"))
<1>1. bridge' = Answered(bridge)
  BY DEF StartedMsg, Answered
<1>2. bridge' \in BridgeState /\ bridge'.waiter = NoOne
  BY <1>1, BridgePairs DEF Sound, PlainTypes
<1>3. sockets' \in [1 .. Sockets -> SocketState] /\ state' \in [Kind -> State]
  BY DEF StartedMsg, Sound, PlainTypes, SocketState, State
<1>4. portHolder' \in Kind \cup {NoOne} /\ fatal' \in [Kind -> BOOLEAN]
  BY DEF StartedMsg, Sound, PlainTypes, Kind
<1>5. UNCHANGED <<page, managers, manager, serial, clicks, overlapped>>
  BY DEF StartedMsg
<1>6. PlainTypes'
  BY <1>2, <1>3, <1>4, <1>5 DEF Sound, PlainTypes, page
<1>7. CASE bridge.waiter = NoOne
  <2>1. op' = op
    BY <1>7 DEF StartedMsg
  <2>2. OpsSound'
    BY <1>2, <1>5, <2>1 DEF Sound, OpsSound, Shaped, Waiter
  <2> QED
    BY <1>6, <1>7, <2>1, <2>2 DEF Sound
<1>8. CASE bridge.waiter # NoOne
  <2> DEFINE t == bridge.waiter
  <2>1. t \in Ops /\ op[t].at = "start"
    BY <1>8 DEF Sound, PlainTypes, OpsSound, Waiter, BridgeState
  <2>2. Goto(t, "succeed")
    BY <1>8 DEF StartedMsg
  <2> HIDE DEF t
  <2>3. op[t] \in OpState /\ Shape(op[t]) /\ op[t].manager <= Len(managers) /\ op[t].manager \in Nat
    BY <2>1, OpTyped DEF Sound
  <2>4. "succeed" \in Place
    BY DEF Place, Running
  <2>5. Step(t, Sent(op[t], "succeed"))
    BY <2>1, <2>2, <2>4, Sends DEF Sound, OpsSound
  <2>6. /\ Sent(op[t], "succeed") \in OpState /\ Sent(op[t], "succeed").at = "succeed"
        /\ Sent(op[t], "succeed").do = op[t].do /\ Sent(op[t], "succeed").manager = op[t].manager
    BY <2>3, <2>4, SentFields
  <2>7. Shape(Sent(op[t], "succeed"))
    BY <2>1, <2>3, <2>6 DEF Shape, Opening, Closing
  <2>8. Len(managers) \in Nat
    BY LenProperties DEF Sound, PlainTypes
  <2>9. OpsSound'
    BY <1>2, <1>5, <2>1, <2>3, <2>5, <2>6, <2>7, <2>8, Goes DEF Sound
  <2>10. bridge.waiter \in Ops /\ Step(bridge.waiter, Sent(op[bridge.waiter], "succeed"))
    BY <2>1, <2>5 DEF t
  <2> QED
    BY <1>6, <1>8, <2>9, <2>10 DEF Sound
<1> QED
  BY <1>7, <1>8

\* The answer does not come in time.
LEMMA StartTimeoutSound ==
  ASSUME Sound, NEW t \in Ops, StartTimeout(t)
  PROVE  Sound' /\ Step(t, Sent(op[t], "fail"))
<1>1. op[t] \in OpState /\ Shape(op[t]) /\ op[t].manager <= Len(managers) /\ op[t].manager \in Nat /\ op[t].at = "start"
  BY OpTyped DEF Sound, StartTimeout
<1>2. UNCHANGED <<page, managers, manager, portHolder, fatal, serial, sockets, clicks, overlapped>>
  BY DEF StartTimeout
<1>3. bridge' = Waited(bridge, NoOne)
  BY DEF StartTimeout, Waited
<1>4. bridge' \in BridgeState /\ bridge'.waiter = NoOne
  BY <1>3, WaitedFields DEF Sound, PlainTypes
<1>5. "fail" \in Place
  BY DEF Place, Running
<1>6. Step(t, Sent(op[t], "fail"))
  BY <1>5, Sends DEF Sound, OpsSound, StartTimeout
<1>7. /\ Sent(op[t], "fail") \in OpState /\ Sent(op[t], "fail").at = "fail"
      /\ Sent(op[t], "fail").do = op[t].do /\ Sent(op[t], "fail").manager = op[t].manager
  BY <1>1, <1>5, SentFields
<1>8. Shape(Sent(op[t], "fail"))
  BY <1>1, <1>7 DEF Shape, Opening, Closing
<1>9. Len(managers) \in Nat
  BY LenProperties DEF Sound, PlainTypes
<1>10. OpsSound'
  BY <1>1, <1>2, <1>4, <1>6, <1>7, <1>8, <1>9, Goes DEF Sound
<1>11. state' \in [Kind -> State]
  BY DEF StartTimeout, Sound, PlainTypes, State
<1>12. PlainTypes'
  BY <1>2, <1>4, <1>11 DEF Sound, PlainTypes, page
<1> QED
  BY <1>6, <1>10, <1>12 DEF Sound

\* An operation of a session goes on where it can, and the rest keeps its types.
LEMMA SendsOnly ==
  ASSUME Sound, NEW t \in Ops, NEW a \in Place, Goto(t, a), op[t].at # "start",
         Shape(op[t]) => Shape(Sent(op[t], a)), PlainTypes',
         bridge'.waiter = bridge.waiter, Len(managers') = Len(managers)
  PROVE  Sound' /\ Step(t, Sent(op[t], a))
<1>1. op[t] \in OpState /\ Shape(op[t])
  BY OpTyped DEF Sound
<1>2. managers' \in Seq(ManagerState)
  BY DEF PlainTypes
<1>3. OpsSound' /\ Step(t, Sent(op[t], a))
  BY <1>1, <1>2, SendsSound DEF Sound
<1> QED
  BY <1>3 DEF Sound

\* An operation ends, and the rest keeps its types.
LEMMA EndsOnly ==
  ASSUME Sound, NEW t \in Ops, End(t), op[t].at # "start", PlainTypes',
         bridge'.waiter = bridge.waiter, Len(managers') = Len(managers)
  PROVE  Sound' /\ Step(t, Idle)
<1>1. Step(t, Idle)
  BY Ends DEF Sound, OpsSound
<1>2. Len(managers) \in Nat
  BY LenProperties DEF Sound, PlainTypes
<1>3. Idle \in OpState /\ Idle.manager <= Len(managers)
  BY <1>2, IdleFields
<1>4. Shape(Idle)
  BY IdleFields DEF Shape, Opening, Closing, Again2
<1>5. managers' \in Seq(ManagerState)
  BY DEF PlainTypes
<1>6. OpsSound'
  BY <1>1, <1>3, <1>4, <1>5, GoesOn DEF Sound
<1> QED
  BY <1>1, <1>6 DEF Sound

\* The device answers over Web Serial, or not.
LEMMA AcksSound ==
  ASSUME Sound, NEW t \in Ops, Acks(t)
  PROVE  Sound' /\ Moves(t, {"succeed", "fail"})
<1>1. op[t] \in OpState /\ Shape(op[t]) /\ op[t].at = "ack"
  BY OpTyped DEF Sound, Acks
<1>2. UNCHANGED <<page, managers, manager, portHolder, bridge, serial, sockets, clicks, overlapped>>
  BY DEF Acks
<1>3. PICK a \in {"succeed", "fail"} : Goto(t, a)
  BY DEF Acks
<1>4. a \in Place
  BY DEF Place, Running
<1>5. Sent(op[t], a).at = a /\ Sent(op[t], a).do = op[t].do /\ Sent(op[t], a).manager = op[t].manager
  BY <1>1, <1>4, SentFields
<1>6. Shape(Sent(op[t], a))
  BY <1>1, <1>5 DEF Shape, Opening, Closing
<1>7. state' \in [Kind -> State] /\ fatal' \in [Kind -> BOOLEAN]
  BY DEF Acks, Sound, PlainTypes, State
<1>8. PlainTypes'
  BY <1>2, <1>7 DEF Sound, PlainTypes, page
<1>9. Sound' /\ Step(t, Sent(op[t], a))
  BY <1>1, <1>2, <1>3, <1>4, <1>6, <1>8, SendsOnly
<1>10. Moves(t, {a})
  BY <1>1, <1>4, <1>9, SentMoves
<1> QED
  BY <1>9, <1>10 DEF Moves

\* The Web Serial link is lost.
LEMMA SerialLinkLossSound ==
  ASSUME Sound, SerialLinkLoss
  PROVE  /\ Sound' /\ Len(managers') = Len(managers)
         /\ \A n \in 1 .. Len(managers) : managers'[n].count \in {0, managers[n].count}
<1>1. UNCHANGED <<activeTransport, manager, portHolder, fatal, bridge, sockets, op, clicks, overlapped>>
  BY DEF SerialLinkLoss
<1>2. serial' \in PortState
  BY DEF SerialLinkLoss, PortState
<1>3. /\ state' \in [Kind -> State]
      /\ unit' \in [connected : BOOLEAN, degraded : BOOLEAN, kind : Kind]
      /\ adapter' \in [connected : BOOLEAN, timer : BOOLEAN]
      /\ managers' \in Seq(ManagerState) /\ Len(managers') = Len(managers)
      /\ \A n \in 1 .. Len(managers) : managers'[n].count \in {0, managers[n].count}
  <2>1. CASE state["webserial"] = "active" /\ ~fatal["webserial"]
    <3>1. [state EXCEPT !["webserial"] = "degraded"] \in [Kind -> State]
      BY DEF Sound, PlainTypes, State
    <3>2. HandleLinkLoss([state EXCEPT !["webserial"] = "degraded"])
      BY <2>1 DEF SerialLinkLoss
    <3> QED
      BY <3>1, <3>2, LinkLossTyped DEF Sound
  <2>2. CASE ~(state["webserial"] = "active" /\ ~fatal["webserial"])
    <3>1. NoChange /\ UNCHANGED <<managers, state>>
      BY <2>2 DEF SerialLinkLoss
    <3> QED
      BY <3>1 DEF Sound, PlainTypes, NoChange
  <2> QED
    BY <2>1, <2>2
<1>4. OpsSound'
  BY <1>1, <1>3 DEF Sound, OpsSound, Shaped, Waiter
<1>5. PlainTypes'
  BY <1>1, <1>2, <1>3 DEF Sound, PlainTypes
<1> QED
  BY <1>3, <1>4, <1>5 DEF Sound

\* The device of a port that was left open is pulled out.
LEMMA HeldPortPulledSound ==
  ASSUME Sound, HeldPortPulled
  PROVE  Sound'
<1>1. serial' \in PortState
  BY DEF HeldPortPulled, PortState
<1>2. PlainTypes'
  BY <1>1 DEF HeldPortPulled, Sound, PlainTypes, page
<1>3. OpsSound'
  BY DEF HeldPortPulled, Sound, OpsSound, Shaped, Waiter
<1> QED
  BY <1>2, <1>3 DEF Sound

\* The session is active; the device is of the wanted kind, or not.
LEMMA SucceedSound ==
  ASSUME Sound, NEW t \in Ops, Succeed(t)
  PROVE  /\ Sound'
         /\ \/ /\ op[t].do # "retry" /\ OnStateChange("active") /\ Step(t, Idle)
               /\ \/ op[t].do = "connect" /\ managers' = managers
                  \/ /\ op[t].do # "connect" /\ op[t].manager \in 1 .. Len(managers)
                     /\ ManagerStep(op[t].manager, Tried(op[t].manager, 0, managers[op[t].manager].timer))
            \/ /\ op[t].do = "connect" /\ Step(t, Doing(Sent(op[t], "stop"), "mismatch"))
               /\ NoChange /\ managers' = managers
            \/ /\ op[t].do # "connect" /\ Step(t, Doing(Sent(op[t], "stopped"), "refused"))
               /\ NoChange /\ managers' = managers
<1> DEFINE m == op[t].manager
<1>1. /\ op[t] \in OpState /\ Shape(op[t]) /\ op[t].at = "succeed" /\ m <= Len(managers) /\ m \in Nat
  BY OpTyped DEF Sound, Succeed
<1>2. UNCHANGED <<activeTransport, manager, links, clicks, overlapped>>
  BY DEF Succeed
<1>3. Len(managers) \in Nat /\ managers \in Seq(ManagerState)
  BY LenProperties DEF Sound, PlainTypes
<1>4. m \in 1 .. Len(managers) /\ op[t].do \in {"connect", "reconnect", "retry"}
  BY <1>1, <1>3 DEF Shape, Opening, Again2
<1>5. ASSUME op[t].do # "retry", OnStateChange("active"), End(t),
             managers' = IF op[t].do = "connect" THEN managers
                         ELSE [managers EXCEPT ![m].count = 0]
      PROVE  /\ Sound' /\ Step(t, Idle)
             /\ \/ op[t].do = "connect" /\ managers' = managers
                \/ /\ op[t].do # "connect"
                   /\ ManagerStep(m, Tried(m, 0, managers[m].timer))
  <2>1. \/ op[t].do = "connect" /\ managers' = managers
        \/ op[t].do # "connect" /\ ManagerStep(m, Tried(m, 0, managers[m].timer))
    <3>1. CASE op[t].do # "connect"
      <4>1. managers[m] \in ManagerState
        BY <1>3, <1>4, ElementOfSeq
      <4>2. managers[m].timer \in BOOLEAN
        BY <4>1 DEF ManagerState
      <4>3. [managers[m] EXCEPT !.count = 0] = Tried(m, 0, managers[m].timer)
        BY <4>1, CountReset DEF Tried
      <4>4. managers' = [managers EXCEPT ![m] = Tried(m, 0, managers[m].timer)]
        BY <1>5, <3>1, <4>3
      <4>5. Tried(m, 0, managers[m].timer) \in ManagerState
        BY <1>3, <1>4, <4>2, TriedTyped
      <4>6. ManagerStep(m, Tried(m, 0, managers[m].timer))
        BY <1>3, <1>4, <4>4, <4>5, PutManager
      <4> QED
        BY <3>1, <4>6
    <3> QED
      BY <1>5, <3>1
  <2>2. managers' \in Seq(ManagerState) /\ Len(managers') = Len(managers)
    BY <1>3, <2>1 DEF ManagerStep
  <2>3. unit' \in [connected : BOOLEAN, degraded : BOOLEAN, kind : Kind] /\ adapter' \in [connected : BOOLEAN, timer : BOOLEAN]
    <3>1. "active" \in State
      BY DEF State
    <3> QED
      BY <1>5, <3>1, PageTyped DEF Sound, PlainTypes
  <2>4. PlainTypes'
    BY <1>2, <2>2, <2>3 DEF Sound, PlainTypes, links
  <2>5. Sound' /\ Step(t, Idle)
    BY <1>1, <1>2, <1>5, <2>2, <2>4, EndsOnly DEF links
  <2> QED
    BY <2>1, <2>5
<1>6. ASSUME NEW a \in {"stop", "stopped"}, NEW d \in {"mismatch", "refused"},
             a = "stop" <=> op[t].do = "connect", d = "mismatch" <=> op[t].do = "connect",
             op' = SetDoing(op, t, a, d), NoChange, managers' = managers
      PROVE  Sound' /\ Step(t, Doing(Sent(op[t], a), d))
  <2> DEFINE h1 == Sent(op[t], a)
             h == Doing(h1, d)
  <2>1. a \in Place /\ d \in Task
    BY DEF Place, Running, Task
  <2>2. op' = [op EXCEPT ![t] = h]
    BY <1>6, SendsDoing DEF Sound, OpsSound
  <2>3. h1 \in OpState /\ h1.at = a /\ h1.manager = m
    BY <1>1, <2>1, SentFields
  <2> HIDE DEF h1
  <2>4. h \in OpState /\ h.at = a /\ h.manager = m /\ h.do = d
    BY <2>1, <2>3, DoingFields
  <2> HIDE DEF h
  <2>5. Shape(h)
    BY <1>1, <1>4, <1>6, <2>4 DEF Shape, Opening, Closing, Again2
  <2>6. Step(t, h)
    BY <2>2, <2>4, Put DEF Sound, OpsSound
  <2>7. OpsSound'
    BY <1>1, <1>2, <1>3, <1>6, <2>4, <2>5, <2>6, GoesOn DEF Sound, links
  <2>8. PlainTypes'
    BY <1>2, <1>6 DEF Sound, PlainTypes, NoChange, links
  <2>9. Step(t, Doing(Sent(op[t], a), d))
    BY <2>6 DEF h, h1
  <2> QED
    BY <2>7, <2>8, <2>9 DEF Sound
<1>7. \/ /\ op[t].do # "retry" /\ OnStateChange("active") /\ End(t)
         /\ managers' = IF op[t].do = "connect" THEN managers
                        ELSE [managers EXCEPT ![m].count = 0]
      \/ /\ op' = [op EXCEPT ![t].at = IF op[t].do = "connect" THEN "stop" ELSE "stopped",
                             ![t].do = IF @ = "connect" THEN "mismatch" ELSE "refused"]
         /\ NoChange /\ UNCHANGED managers
  BY DEF Succeed
<1>8. CASE /\ op' = [op EXCEPT ![t].at = IF op[t].do = "connect" THEN "stop" ELSE "stopped",
                             ![t].do = IF @ = "connect" THEN "mismatch" ELSE "refused"]
           /\ NoChange /\ UNCHANGED managers
  <2> DEFINE a == IF op[t].do = "connect" THEN "stop" ELSE "stopped"
             d == IF op[t].do = "connect" THEN "mismatch" ELSE "refused"
  <2>1. op' = SetDoing(op, t, a, d)
    BY <1>1, <1>8, DoesNot DEF SetDoing, Sound, OpsSound
  <2>2. a \in {"stop", "stopped"} /\ d \in {"mismatch", "refused"}
    OBVIOUS
  <2>3. (a = "stop" <=> op[t].do = "connect") /\ (d = "mismatch" <=> op[t].do = "connect")
    OBVIOUS
  <2> HIDE DEF a, d
  <2>4. Sound' /\ Step(t, Doing(Sent(op[t], a), d))
    BY <1>6, <1>8, <2>1, <2>2, <2>3
  <2>5. CASE op[t].do = "connect"
    BY <1>8, <2>4, <2>5 DEF a, d
  <2>6. CASE op[t].do # "connect"
    BY <1>8, <2>4, <2>6 DEF a, d
  <2> QED
    BY <2>5, <2>6
<1> QED
  BY <1>4, <1>5, <1>7, <1>8

\* stopSession of the transport.
LEMMA StopSound ==
  ASSUME Sound, NEW t \in Ops, Stop(t)
  PROVE  Sound' /\ Moves(t, {"exit", "stopped"})
<1>1. op[t] \in OpState /\ Shape(op[t]) /\ op[t].at = "stop" /\ op[t].on \in Kind
  BY OpTyped DEF Sound, Stop, OpState
<1>2. UNCHANGED <<page, managers, manager, clicks, overlapped, fatal, serial, sockets>>
  BY DEF Stop, links
<1>3. PICK a \in {"exit", "stopped"} : Goto(t, a) /\ (a = "exit" => op[t].on = "webserial")
  BY DEF Stop
<1>4. a \in Place
  BY DEF Place, Running, Waiting
<1>5. /\ Sent(op[t], a).at = a /\ Sent(op[t], a).do = op[t].do
      /\ Sent(op[t], a).manager = op[t].manager /\ Sent(op[t], a).on = op[t].on
  BY <1>1, <1>4, SentFields
<1>6. Shape(Sent(op[t], a))
  BY <1>1, <1>3, <1>5 DEF Shape, Opening, Closing
<1>7. bridge' = bridge \/ bridge' = Ended(bridge)
  BY DEF Stop, Ended, links
<1>8. bridge' \in BridgeState /\ bridge'.waiter = bridge.waiter
  BY <1>7, EndedFields DEF Sound, PlainTypes
<1>9. portHolder' \in Kind \cup {NoOne}
  BY <1>1, ReleasedTyped DEF Stop, Sound, PlainTypes, links
<1>10. state' \in [Kind -> State]
  <2>1. \/ state' = state
        \/ state' = [state EXCEPT ![op[t].on] = IF @ \in Active THEN "disconnected" ELSE @]
    BY DEF Stop, links
  <2> QED
    BY <1>1, <2>1 DEF Sound, PlainTypes, State
<1>11. PlainTypes'
  BY <1>2, <1>8, <1>9, <1>10 DEF Sound, PlainTypes, page
<1>12. Sound' /\ Step(t, Sent(op[t], a))
  BY <1>1, <1>2, <1>3, <1>4, <1>6, <1>8, <1>11, SendsOnly
<1>13. Moves(t, {a})
  BY <1>1, <1>4, <1>12, SentMoves
<1> QED
  BY <1>12, <1>13 DEF Moves

\* EXIT_USB is answered, or not.
LEMMA ExitedSound ==
  ASSUME Sound, NEW t \in Ops, Exited(t)
  PROVE  Sound' /\ Step(t, Sent(op[t], "stopped"))
<1>1. op[t] \in OpState /\ Shape(op[t]) /\ op[t].at = "exit" /\ Goto(t, "stopped")
  BY OpTyped DEF Sound, Exited
<1>2. UNCHANGED <<page, managers, manager, portHolder, fatal, bridge, serial, sockets, clicks, overlapped>>
  BY DEF Exited
<1>3. "stopped" \in Place
  BY DEF Place, Running
<1>4. /\ Sent(op[t], "stopped").at = "stopped" /\ Sent(op[t], "stopped").do = op[t].do
      /\ Sent(op[t], "stopped").manager = op[t].manager
  BY <1>1, <1>3, SentFields
<1>5. Shape(Sent(op[t], "stopped"))
  BY <1>1, <1>4 DEF Shape, Opening, Closing
<1>6. state' \in [Kind -> State]
  BY DEF Exited, Sound, PlainTypes, State
<1>7. PlainTypes'
  BY <1>2, <1>6 DEF Sound, PlainTypes, page
<1> QED
  BY <1>1, <1>2, <1>3, <1>5, <1>7, SendsOnly

\* After stopSession.
LEMMA StoppedSound ==
  ASSUME Sound, NEW t \in Ops, Stopped(t)
  PROVE  Sound' /\ Step(t, Sent(op[t], "leave"))
<1>1. op[t] \in OpState /\ Shape(op[t]) /\ op[t].at = "stopped" /\ Goto(t, "leave") /\ op[t].on \in Kind
  BY OpTyped DEF Sound, Stopped, OpState
<1>2. UNCHANGED <<activeTransport, managers, manager, serial, sockets, clicks, overlapped>>
  BY DEF Stopped
<1>3. "leave" \in Place
  BY DEF Place, Running
<1>4. /\ Sent(op[t], "leave").at = "leave" /\ Sent(op[t], "leave").do = op[t].do
      /\ Sent(op[t], "leave").manager = op[t].manager
  BY <1>1, <1>3, SentFields
<1>5. Shape(Sent(op[t], "leave"))
  BY <1>1, <1>4 DEF Shape, Opening, Closing
<1>6. bridge' = bridge \/ bridge' = Ended(bridge)
  BY DEF Stopped, Ended
<1>7. bridge' \in BridgeState /\ bridge'.waiter = bridge.waiter
  BY <1>6, EndedFields DEF Sound, PlainTypes
<1>8. portHolder' \in Kind \cup {NoOne}
  BY <1>1, ReleasedTyped DEF Stopped, Sound, PlainTypes
<1>9. state' \in [Kind -> State] /\ fatal' \in [Kind -> BOOLEAN]
  <2>1. \/ state' = state /\ fatal' = fatal
        \/ /\ state' = [state EXCEPT ![op[t].on] = "disconnected"]
           /\ fatal' = [fatal EXCEPT ![op[t].on] = TRUE]
    BY DEF Stopped
  <2> QED
    BY <1>1, <2>1 DEF Sound, PlainTypes, State
<1>10. unit' \in [connected : BOOLEAN, degraded : BOOLEAN, kind : Kind] /\ adapter' \in [connected : BOOLEAN, timer : BOOLEAN]
  <2>1. CASE op[t].do \in Mismatch
    <3>1. adapter' = [connected |-> FALSE, timer |-> FALSE] /\ unit' = unit
      BY <2>1 DEF Stopped
    <3> QED
      BY <3>1 DEF Sound, PlainTypes
  <2>2. CASE op[t].do \notin Mismatch
    <3>1. OnStateChange(state[op[t].on]) /\ state[op[t].on] \in State
      BY <1>1, <2>2 DEF Stopped, Sound, PlainTypes
    <3> QED
      BY <3>1, PageTyped DEF Sound, PlainTypes
  <2> QED
    BY <2>1, <2>2
<1>11. PlainTypes'
  BY <1>2, <1>7, <1>8, <1>9, <1>10 DEF Sound, PlainTypes
<1> QED
  BY <1>1, <1>2, <1>3, <1>5, <1>7, <1>11, SendsOnly

\* A transport that is gone.
LEMMA GoneTyped ==
  ASSUME PlainTypes, NEW k \in Kind, Gone(k)
  PROVE  /\ portHolder' \in Kind \cup {NoOne} /\ state' \in [Kind -> State] /\ fatal' \in [Kind -> BOOLEAN]
         /\ portHolder' # k /\ state'[k] = "disconnected" /\ ~fatal'[k]
<1>1. portHolder' \in Kind \cup {NoOne} /\ portHolder' # k
  BY ReleasedTyped DEF Gone
<1>2. state' \in [Kind -> State] /\ fatal' \in [Kind -> BOOLEAN] /\ state'[k] = "disconnected" /\ ~fatal'[k]
  BY DEF Gone, PlainTypes, State
<1> QED
  BY <1>1, <1>2

\* disconnect of the manager.
LEMMA LeaveSound ==
  ASSUME Sound, NEW t \in Ops, Leave(t)
  PROVE  /\ Sound'
         /\ \/ \E a \in {"left", "gone"} : \/ Step(t, Sent(op[t], a))
                                           \/ \E k \in Kind : Step(t, Over(Sent(op[t], a), k))
            \/ Step(t, Idle) /\ op[t].do \notin Mismatch
         /\ \/ /\ op[t].do = "refused" /\ op[t].manager \in 1 .. Len(managers)
               /\ ManagerStep(op[t].manager, Tried(op[t].manager, 0, TRUE))
            \/ op[t].do # "refused" /\ manager = 0 /\ managers' = managers
            \/ op[t].do # "refused" /\ manager # 0 /\ ManagerStep(manager, Tried(manager, 0, FALSE))
<1> DEFINE k == IF manager = 0 THEN activeTransport ELSE managers[manager].transport
           m == op[t].manager
<1>1. /\ op[t] \in OpState /\ Shape(op[t]) /\ op[t].at = "leave" /\ m <= Len(managers) /\ m \in Nat
  BY OpTyped DEF Sound, Leave
<1>2. Len(managers) \in Nat /\ manager \in 0 .. Len(managers) /\ managers \in Seq(ManagerState)
  BY LenProperties DEF Sound, PlainTypes
<1>3. UNCHANGED <<page, manager, serial, clicks, overlapped>>
  BY DEF Leave
<1>4. \/ /\ op[t].do = "refused" /\ m \in 1 .. Len(managers) /\ ManagerStep(m, Tried(m, 0, TRUE))
      \/ op[t].do # "refused" /\ manager = 0 /\ managers' = managers
      \/ op[t].do # "refused" /\ manager # 0 /\ ManagerStep(manager, Tried(manager, 0, FALSE))
  <2>1. CASE op[t].do = "refused"
    <3>1. m \in 1 .. Len(managers)
      BY <1>1, <1>2, <2>1 DEF Shape
    <3>2. managers' = [managers EXCEPT ![m].count = 0, ![m].timer = TRUE]
      BY <2>1 DEF Leave
    <3>3. managers \in [1 .. Len(managers) -> ManagerState]
      BY <1>2, LenProperties
    <3>4. managers' = [managers EXCEPT ![m] = Tried(m, 0, TRUE)]
      BY <3>1, <3>2, <3>3, TwoSteps DEF Tried
    <3>5. Tried(m, 0, TRUE) \in ManagerState
      BY <1>2, <3>1, TriedTyped
    <3> QED
      BY <1>2, <2>1, <3>1, <3>4, <3>5, PutManager
  <2>2. CASE op[t].do # "refused" /\ manager = 0
    BY <2>2 DEF Leave
  <2>3. CASE op[t].do # "refused" /\ manager # 0
    <3>1. managers' = Cancelled(manager) /\ manager \in 1 .. Len(managers)
      BY <1>2, <2>3 DEF Leave
    <3> QED
      BY <1>2, <2>3, <3>1, Cancels
  <2> QED
    BY <2>1, <2>2, <2>3
<1>5. managers' \in Seq(ManagerState) /\ Len(managers') = Len(managers)
  BY <1>2, <1>4 DEF ManagerStep
<1>6. k \in Kind
  <2>1. CASE manager # 0
    <3>1. managers[manager] \in ManagerState
      BY <1>2, <2>1, ElementOfSeq
    <3> QED
      BY <2>1, <3>1 DEF ManagerState
  <2> QED
    BY <2>1 DEF Sound, PlainTypes
<1> HIDE DEF k
<1>7. ASSUME Goto(t, "left"), UNCHANGED <<portHolder, state, fatal, bridge, sockets>>
      PROVE  Sound' /\ Step(t, Sent(op[t], "left"))
  <2>1. "left" \in Place
    BY DEF Place, Running
  <2>2. Sent(op[t], "left").at = "left" /\ Sent(op[t], "left").do = op[t].do /\ Sent(op[t], "left").manager = m
    BY <1>1, <2>1, SentFields
  <2>3. Shape(Sent(op[t], "left"))
    BY <1>1, <2>2 DEF Shape, Opening, Closing
  <2>4. PlainTypes'
    BY <1>3, <1>5, <1>7 DEF Sound, PlainTypes, page
  <2> QED
    BY <1>1, <1>5, <1>7, <2>1, <2>3, <2>4, SendsOnly
<1>8. ASSUME End(t), UNCHANGED <<portHolder, state, fatal, bridge, sockets>>
      PROVE  Sound' /\ Step(t, Idle)
  <2>1. PlainTypes'
    BY <1>3, <1>5, <1>8 DEF Sound, PlainTypes, page
  <2> QED
    BY <1>1, <1>5, <1>8, <2>1, EndsOnly
<1>9. ASSUME NEW a \in {"left", "gone"}, op' = SetOver(op, t, a, k), a = "gone" => k = "webserial",
             bridge' \in BridgeState, bridge'.waiter = bridge.waiter,
             portHolder' \in Kind \cup {NoOne}, state' \in [Kind -> State],
             fatal' \in [Kind -> BOOLEAN], sockets' \in [1 .. Sockets -> SocketState]
      PROVE  Sound' /\ Step(t, Over(Sent(op[t], a), k))
  <2> DEFINE h1 == Sent(op[t], a)
             h == Over(h1, k)
  <2>1. a \in Place
    BY DEF Place, Running, Waiting
  <2>2. op' = [op EXCEPT ![t] = h]
    BY <1>9, SendsOver DEF Sound, OpsSound
  <2>3. h1 \in OpState /\ h1.at = a /\ h1.manager = m /\ h1.do = op[t].do
    BY <1>1, <2>1, SentFields
  <2> HIDE DEF h1
  <2>4. h \in OpState /\ h.at = a /\ h.manager = m /\ h.do = op[t].do /\ h.on = k
    BY <1>6, <2>3, OverFields
  <2> HIDE DEF h
  <2>5. Shape(h)
    BY <1>1, <1>9, <2>4 DEF Shape, Opening, Closing
  <2>6. Step(t, h)
    BY <2>2, <2>4, Put DEF Sound, OpsSound
  <2>7. OpsSound'
    BY <1>1, <1>5, <1>9, <2>4, <2>5, <2>6, GoesOn DEF Sound
  <2>8. PlainTypes'
    BY <1>3, <1>5, <1>9 DEF Sound, PlainTypes, page
  <2>9. Step(t, Over(Sent(op[t], a), k))
    BY <2>6 DEF h, h1
  <2> QED
    BY <2>7, <2>8, <2>9 DEF Sound
<1>10. \/ op[t].do \in Mismatch /\ Goto(t, "left") /\ UNCHANGED <<portHolder, state, fatal, bridge, sockets>>
       \/ op[t].do \notin Mismatch /\ End(t) /\ UNCHANGED <<portHolder, state, fatal, bridge, sockets>>
       \/ /\ k = "bridge" /\ op' = SetOver(op, t, "left", k) /\ Gone(k)
          /\ bridge' = Dropped(bridge)
          /\ sockets' = IF bridge.ws = 0 \/ sockets[bridge.ws] = "closed" THEN sockets
                        ELSE [sockets EXCEPT ![bridge.ws] = "closing"]
       \/ /\ k # "bridge" /\ op' = SetOver(op, t, "gone", k)
          /\ UNCHANGED <<portHolder, state, fatal, bridge, sockets>>
  BY DEF Leave, k, SetOver, Dropped
<1>11. CASE /\ k = "bridge" /\ op' = SetOver(op, t, "left", k) /\ Gone(k)
            /\ bridge' = Dropped(bridge)
            /\ sockets' = IF bridge.ws = 0 \/ sockets[bridge.ws] = "closed" THEN sockets
                          ELSE [sockets EXCEPT ![bridge.ws] = "closing"]
  <2>1. bridge' \in BridgeState /\ bridge'.waiter = bridge.waiter
    BY <1>11, BridgePairs DEF Sound, PlainTypes
  <2>2. sockets' \in [1 .. Sockets -> SocketState]
    BY <1>11 DEF Sound, PlainTypes, SocketState
  <2>3. portHolder' \in Kind \cup {NoOne} /\ state' \in [Kind -> State] /\ fatal' \in [Kind -> BOOLEAN]
    BY <1>6, <1>11, GoneTyped DEF Sound
  <2>4. Sound' /\ Step(t, Over(Sent(op[t], "left"), k))
    BY <1>9, <1>11, <2>1, <2>2, <2>3
  <2> QED
    BY <1>4, <1>6, <2>4
<1>12. CASE /\ k # "bridge" /\ op' = SetOver(op, t, "gone", k)
            /\ UNCHANGED <<portHolder, state, fatal, bridge, sockets>>
  <2>1. k = "webserial"
    BY <1>6, <1>12 DEF Kind
  <2>2. Sound' /\ Step(t, Over(Sent(op[t], "gone"), k))
    BY <1>9, <1>12, <2>1 DEF Sound, PlainTypes
  <2> QED
    BY <1>4, <1>6, <2>2
<1> QED
  BY <1>4, <1>7, <1>8, <1>10, <1>11, <1>12

\* The port is given up.
LEMMA PortGoneSound ==
  ASSUME Sound, NEW t \in Ops, PortGone(t)
  PROVE  Sound' /\ Step(t, Sent(op[t], "left"))
<1>1. op[t] \in OpState /\ Shape(op[t]) /\ op[t].at = "gone" /\ Goto(t, "left")
  BY OpTyped DEF Sound, PortGone
<1>2. /\ UNCHANGED <<page, managers, manager, bridge, sockets, clicks, overlapped>>
      /\ serial' = TornDown(serial) /\ Gone("webserial")
  BY DEF PortGone
<1>3. "left" \in Place /\ "webserial" \in Kind
  BY DEF Place, Running, Kind
<1>4. /\ Sent(op[t], "left").at = "left" /\ Sent(op[t], "left").do = op[t].do
      /\ Sent(op[t], "left").manager = op[t].manager
  BY <1>1, <1>3, SentFields
<1>5. Shape(Sent(op[t], "left"))
  BY <1>1, <1>4 DEF Shape, Opening, Closing
<1>6. portHolder' \in Kind \cup {NoOne} /\ state' \in [Kind -> State] /\ fatal' \in [Kind -> BOOLEAN]
  BY <1>2, <1>3, GoneTyped DEF Sound
<1>8. serial' \in PortState
  BY <1>2, PortTyped DEF Sound, PlainTypes
<1>7. PlainTypes'
  BY <1>2, <1>6, <1>8 DEF Sound, PlainTypes, page
<1> QED
  BY <1>1, <1>2, <1>3, <1>5, <1>7, SendsOnly

\* The page is told that the session is over.
LEMMA LeftSound ==
  ASSUME Sound, NEW t \in Ops, Left(t)
  PROVE  Sound' /\ Step(t, Idle)
<1>1. op[t].at = "left" /\ End(t) /\ OnStateChange("disconnected") /\ manager' = 0
  BY DEF Left
<1>2. UNCHANGED <<activeTransport, managers, links, clicks, overlapped>>
  BY DEF Left
<1>3. "disconnected" \in State
  BY DEF State
<1>4. unit' \in [connected : BOOLEAN, degraded : BOOLEAN, kind : Kind] /\ adapter' \in [connected : BOOLEAN, timer : BOOLEAN]
  BY <1>1, <1>3, PageTyped DEF Sound, PlainTypes
<1>5. Len(managers) \in Nat
  BY LenProperties DEF Sound, PlainTypes
<1>6. PlainTypes'
  BY <1>1, <1>2, <1>4, <1>5 DEF Sound, PlainTypes, links
<1> QED
  BY <1>1, <1>2, <1>6, EndsOnly DEF links

\* An operation fails.
LEMMA FailSound ==
  ASSUME Sound, NEW t \in Ops, Fail(t)
  PROVE  /\ Sound'
         /\ \/ op[t].do = "connect" /\ manager = 0 /\ Step(t, Idle) /\ managers' = managers
            \/ op[t].do = "connect" /\ manager # 0 /\ Step(t, Sent(op[t], "leave")) /\ managers' = managers
            \/ /\ op[t].do \in Again2 /\ Step(t, Idle)
               /\ op[t].manager \in 1 .. Len(managers) /\ managers' = Scheduled(op[t].manager)
<1> DEFINE m == op[t].manager
<1>1. /\ op[t] \in OpState /\ Shape(op[t]) /\ op[t].at = "fail" /\ m <= Len(managers) /\ m \in Nat
      /\ op[t].on \in Kind
  BY OpTyped DEF Sound, Fail, OpState
<1>2. Len(managers) \in Nat /\ managers \in Seq(ManagerState)
  BY LenProperties DEF Sound, PlainTypes
<1>3. UNCHANGED <<page, manager, portHolder, fatal, bridge, serial, sockets, clicks, overlapped>>
  BY DEF Fail
<1>4. CASE op[t].do = "connect" /\ manager = 0
  <2>1. End(t) /\ UNCHANGED <<managers, state>>
    BY <1>4 DEF Fail
  <2>2. PlainTypes'
    BY <1>3, <2>1 DEF Sound, PlainTypes, page
  <2> QED
    BY <1>1, <1>3, <1>4, <2>1, <2>2, EndsOnly
<1>5. CASE op[t].do = "connect" /\ manager # 0
  <2>1. Goto(t, "leave") /\ UNCHANGED <<managers, state>>
    BY <1>5 DEF Fail
  <2>2. PlainTypes'
    BY <1>3, <2>1 DEF Sound, PlainTypes, page
  <2>3. "leave" \in Place
    BY DEF Place, Running
  <2>4. /\ Sent(op[t], "leave").at = "leave" /\ Sent(op[t], "leave").do = op[t].do
        /\ Sent(op[t], "leave").manager = op[t].manager
    BY <1>1, <2>3, SentFields
  <2>5. Shape(Sent(op[t], "leave"))
    BY <1>1, <1>5, <2>4 DEF Shape, Opening, Closing
  <2> QED
    BY <1>1, <1>3, <1>5, <2>1, <2>2, <2>3, <2>5, SendsOnly
<1>6. CASE op[t].do # "connect"
  <2>1. /\ op[t].do \in Again2 /\ End(t) /\ managers' = Scheduled(m)
        /\ state' = [state EXCEPT ![op[t].on] = "degraded"]
    BY <1>6 DEF Fail, Again2
  <2>2. m \in 1 .. Len(managers)
    BY <1>1, <1>2, <2>1 DEF Shape, Again2
  <2>3. managers' \in Seq(ManagerState) /\ Len(managers') = Len(managers)
    BY <1>2, <2>1, <2>2, Schedules DEF ManagerStep
  <2>4. state' \in [Kind -> State]
    BY <1>1, <2>1 DEF Sound, PlainTypes, State
  <2>5. PlainTypes'
    BY <1>3, <2>3, <2>4 DEF Sound, PlainTypes, page
  <2>6. Sound' /\ Step(t, Idle)
    BY <1>1, <1>3, <2>1, <2>3, <2>5, EndsOnly
  <2> QED
    BY <2>1, <2>2, <2>6
<1> QED
  BY <1>4, <1>5, <1>6

\* The initial state has its types.
LEMMA InitSound ==
  ASSUME Init
  PROVE  Sound
<1>1. managers \in Seq(ManagerState) /\ Len(managers) = 0
  BY DEF Init
<1>2. \A t \in Ops : op[t] = Idle
  BY DEF Init
<1>3. Shape(Idle) /\ Idle \in OpState /\ Idle.manager = 0
  BY IdleFields DEF Shape, Opening, Closing, Again2
<1>4. op \in [Ops -> OpState] /\ \A t \in Ops : op[t].manager <= Len(managers)
  BY <1>1, <1>2, <1>3 DEF Init
<1>5. Shaped
  BY <1>2, <1>3 DEF Shaped
<1>6. bridge \in BridgeState /\ bridge.waiter = NoOne
  BY SessionAssumption DEF Init, BridgeState
<1>7. unit \in [connected : BOOLEAN, degraded : BOOLEAN, kind : Kind] /\ adapter \in [connected : BOOLEAN, timer : BOOLEAN]
  BY DEF Init, Kind
<1>8. /\ activeTransport \in Kind /\ portHolder \in Kind \cup {NoOne} /\ state \in [Kind -> State]
      /\ fatal \in [Kind -> BOOLEAN] /\ serial \in PortState
      /\ sockets \in [1 .. Sockets -> SocketState]
  BY DEF Init, Kind, State, SocketState, PortState
<1>9. manager \in 0 .. Len(managers) /\ clicks \in 0 .. Clicks /\ overlapped \in BOOLEAN
  <2>1. clicks = 0 /\ overlapped = FALSE /\ manager = 0
    BY DEF Init
  <2>2. 0 \in 0 .. Clicks /\ 0 \in 0 .. Len(managers)
    BY <1>1, SessionAssumption
  <2> QED
    BY <2>1, <2>2
<1>10. PlainTypes
  BY <1>1, <1>6, <1>7, <1>8, <1>9 DEF PlainTypes
<1> QED
  BY <1>4, <1>5, <1>6, <1>10 DEF Sound, OpsSound, Waiter

\* Every step keeps the types and the places.
LEMMA NextSound ==
  ASSUME Sound, [Next]_vars
  PROVE  Sound'
<1>1. ASSUME NEW t \in Ops, ConnectHardware(t) \/ DisconnectHardware(t) \/ ReconnectHardware(t)
      PROVE  Sound'
  BY <1>1, ConnectHardwareSound, DisconnectHardwareSound, ReconnectHardwareSound
<1>2. ASSUME NEW t \in Ops, Continue(t)
      PROVE  Sound'
  <2>1. CASE Connect(t)
    BY <2>1, ConnectSound
  <2>2. CASE Again(t)
    BY <2>2, AgainSound
  <2>3. CASE Begin(t)
    BY <2>3, BeginSound
  <2>4. CASE Ask(t)
    BY <2>4, AskSound
  <2>5. CASE Send(t)
    BY <2>5, SendSound
  <2>6. CASE Succeed(t)
    BY <2>6, SucceedSound
  <2>7. CASE Stop(t)
    BY <2>7, StopSound
  <2>8. CASE Stopped(t)
    BY <2>8, StoppedSound
  <2>9. CASE Leave(t)
    BY <2>9, LeaveSound
  <2>10. CASE Left(t)
    BY <2>10, LeftSound
  <2>11. CASE Fail(t)
    BY <2>11, FailSound
  <2> QED
    BY <1>2, <2>1, <2>2, <2>3, <2>4, <2>5, <2>6, <2>7, <2>8, <2>9, <2>10, <2>11 DEF Continue
<1>3. ASSUME NEW t \in Ops, Resume(t)
      PROVE  Sound'
  <2>1. CASE PortOpens(t)
    BY <2>1, PortOpensSound
  <2>2. CASE StartTimeout(t)
    BY <2>2, StartTimeoutSound
  <2>3. CASE Acks(t)
    BY <2>3, AcksSound
  <2>4. CASE Exited(t)
    BY <2>4, ExitedSound
  <2>5. CASE PortGone(t)
    BY <2>5, PortGoneSound
  <2> QED
    BY <1>3, <2>1, <2>2, <2>3, <2>4, <2>5 DEF Resume
<1>4. ASSUME NEW t \in Ops, NEW m \in 1 .. Len(managers), AutoRetry(t, m)
      PROVE  Sound'
  BY <1>4, AutoRetrySound
<1>5. ASSUME NEW k \in Kind, SelectTransport(k)
      PROVE  Sound'
  BY <1>5, SelectTransportSound
<1>6. ASSUME NEW s \in 1 .. Sockets, SocketOpens(s) \/ SocketCloses(s) \/ StartedMsg(s)
      PROVE  Sound'
  BY <1>6, SocketOpensSound, SocketClosesSound, StartedMsgSound
<1>7. CASE SerialLinkLoss
  BY <1>7, SerialLinkLossSound
<1>8. CASE UNCHANGED vars
  BY <1>8 DEF vars, page, links, Sound, PlainTypes, OpsSound, Shaped, Waiter
<1>9. CASE HeldPortPulled
  BY <1>9, HeldPortPulledSound
<1> QED
  BY <1>1, <1>2, <1>3, <1>4, <1>5, <1>6, <1>7, <1>8, <1>9 DEF Next

(***************************************************************************)
(* In every behaviour of the page an operation is only ever at a place its *)
(* own kind of operation has, with a manager where it will need one, and   *)
(* the waiter of the bridge client is an operation that waits for the      *)
(* start of a session.                                                     *)
(***************************************************************************)
THEOREM SoundAlways == Spec => []Sound
<1>1. Init => Sound
  BY InitSound
<1>2. Sound /\ [Next]_vars => Sound'
  BY NextSound
<1> QED
  BY <1>1, <1>2, PTL DEF Spec

-----------------------------------------------------------------------------
(***************************************************************************)
(* The retries of a manager: never more of them are counted than           *)
(* operations are trying, so a manager that counts AUTO_RETRY_MAX of them  *)
(* needs as many operations at once.                                       *)
(***************************************************************************)
\* An operation that has counted a try of a manager and has not ended it.
Tries(h, m) ==
  h.do \in Again2 \cup {"refused"} /\ h.manager = m /\ h.at \notin {"again", "gone", "left"}
Triers(m) == {t \in Ops : Tries(op[t], m)}
Budget == \A m \in 1 .. Len(managers) : managers[m].count <= Cardinality(Triers(m))

\* The operations that try are finitely many.
LEMMA TriersFinite ==
  ASSUME NEW m
  PROVE  IsFiniteSet(Triers(m)) /\ Cardinality(Triers(m)) \in Nat /\ Cardinality(Triers(m)) <= Cardinality(Ops)
BY SessionAssumption, FS_Subset, FS_CardinalityType DEF Triers

\* A step that raises no count keeps the budget when no try ends, unless its manager forgets them.
LEMMA BudgetKept ==
  ASSUME Sound, Sound', Budget, Len(managers') \in {Len(managers), Len(managers) + 1},
         Len(managers') > Len(managers) => managers'[Len(managers')].count = 0,
         \A m \in 1 .. Len(managers) : managers'[m].count \in {0, managers[m].count},
         \A m \in 1 .. Len(managers), u \in Ops :
           Tries(op[u], m) => managers'[m].count = 0 \/ Tries(op'[u], m)
  PROVE  Budget'
<1> SUFFICES ASSUME NEW m \in 1 .. Len(managers')
             PROVE  managers'[m].count <= Cardinality(Triers(m)')
  BY DEF Budget
<1>1. Len(managers) \in Nat /\ Len(managers') \in Nat
  BY LenProperties DEF Sound, PlainTypes
<1>2. /\ IsFiniteSet(Triers(m)') /\ Cardinality(Triers(m)') \in Nat
  BY SessionAssumption, FS_Subset, FS_CardinalityType DEF Triers
<1>3. CASE managers'[m].count = 0
  BY <1>2, <1>3
<1>4. CASE managers'[m].count # 0
  <2>1. m \in 1 .. Len(managers)
    BY <1>1, <1>4
  <2>2. managers'[m].count = managers[m].count
    BY <1>4, <2>1
  <2>3. Triers(m) \subseteq Triers(m)'
    BY <1>4, <2>1 DEF Triers
  <2>4. Cardinality(Triers(m)) <= Cardinality(Triers(m)') /\ Cardinality(Triers(m)) \in Nat
    BY <1>2, <2>3, FS_Subset, FS_CardinalityType
  <2>5. managers[m].count <= Cardinality(Triers(m))
    BY <2>1 DEF Budget
  <2>6. managers[m] \in ManagerState
    BY <2>1, ElementOfSeq DEF Sound, PlainTypes
  <2>7. managers[m].count \in Nat
    BY <2>6 DEF ManagerState
  <2> QED
    BY <1>2, <2>2, <2>4, <2>5, <2>7
<1> QED
  BY <1>3, <1>4

\* The same when the managers stay what they are.
LEMMA BudgetStays ==
  ASSUME Sound, Sound', Budget, managers' = managers,
         \A m \in 1 .. Len(managers), u \in Ops : Tries(op[u], m) => Tries(op'[u], m)
  PROVE  Budget'
BY BudgetKept

\* An operation that moves goes on trying.
LEMMA MovesTries ==
  ASSUME NEW t \in Ops, NEW A, Moves(t, A), A \cap {"again", "gone", "left"} = {}
  PROVE  \A m \in 1 .. Len(managers), u \in Ops : Tries(op[u], m) => Tries(op'[u], m)
BY DEF Moves, Tries

\* An operation that did not try may do anything.
LEMMA StepTries ==
  ASSUME NEW t \in Ops, NEW h, Step(t, h), \A m \in 1 .. Len(managers) : ~Tries(op[t], m)
  PROVE  \A m \in 1 .. Len(managers), u \in Ops : Tries(op[u], m) => Tries(op'[u], m)
BY DEF Step

\* A manager step that forgets the tries.
LEMMA Forgets ==
  ASSUME Sound, NEW m \in 1 .. Len(managers), NEW b, ManagerStep(m, Tried(m, 0, b))
  PROVE  /\ Len(managers') = Len(managers) /\ managers'[m].count = 0
         /\ \A i \in 1 .. Len(managers) : managers'[i].count \in {0, managers[i].count}
<1>1. Tried(m, 0, b).count = 0
  BY DEF Tried
<1> QED
  BY <1>1 DEF ManagerStep

\* An operation that is sent to a place moves there.
LEMMA SoundMoves ==
  ASSUME Sound, NEW t \in Ops, NEW a \in Place, Step(t, Sent(op[t], a))
  PROVE  Moves(t, {a})
BY OpTyped, SentMoves DEF Sound

\* An idle operation tries nothing.
LEMMA IdleTries ==
  ASSUME NEW m
  PROVE  ~Tries(Idle, m)
BY IdleFields DEF Tries, Again2

\* Clicks begin operations that have not tried yet.
LEMMA BudgetUser ==
  ASSUME Sound, Budget, NEW t \in Ops,
         ConnectHardware(t) \/ DisconnectHardware(t) \/ ReconnectHardware(t)
  PROVE  Budget'
<1>1. op[t] = Idle => \A m \in 1 .. Len(managers) : ~Tries(op[t], m)
  BY IdleTries
<1>2. CASE ConnectHardware(t)
  <2>1. /\ Sound' /\ Step(t, New("connect", "connect", manager', unit.kind))
        /\ Len(managers') = Len(managers) + 1
        /\ managers'[Len(managers) + 1] = [transport |-> unit.kind, count |-> 0, timer |-> FALSE]
        /\ \A n \in 1 .. Len(managers) : managers'[n].count = managers[n].count
    BY <1>2, ConnectHardwareSound
  <2>2. op[t] = Idle
    BY <1>2 DEF ConnectHardware, Click
  <2>3. \A m \in 1 .. Len(managers), u \in Ops : Tries(op[u], m) => Tries(op'[u], m)
    BY <1>1, <2>1, <2>2, StepTries
  <2>4. managers'[Len(managers')].count = 0
    BY <2>1
  <2> QED
    BY <2>1, <2>3, <2>4, BudgetKept
<1>3. CASE DisconnectHardware(t)
  <2> DEFINE k == IF manager = 0 THEN activeTransport ELSE managers[manager].transport
  <2>1. /\ Sound' /\ Step(t, New("disconnect", "stop", manager, k))
        /\ \/ manager = 0 /\ managers' = managers
           \/ manager # 0 /\ ManagerStep(manager, Tried(manager, 0, FALSE))
    BY <1>3, DisconnectHardwareSound
  <2>2. op[t] = Idle
    BY <1>3 DEF DisconnectHardware, Click
  <2>3. \A m \in 1 .. Len(managers), u \in Ops : Tries(op[u], m) => Tries(op'[u], m)
    BY <1>1, <2>1, <2>2, StepTries
  <2>4. manager # 0 => manager \in 1 .. Len(managers)
    BY DEF Sound, PlainTypes
  <2>5. /\ Len(managers') = Len(managers)
        /\ \A i \in 1 .. Len(managers) : managers'[i].count \in {0, managers[i].count}
    <3>1. CASE manager = 0
      BY <2>1, <3>1
    <3>2. CASE manager # 0
      <4>1. ManagerStep(manager, Tried(manager, 0, FALSE)) /\ manager \in 1 .. Len(managers)
        BY <2>1, <2>4, <3>2
      <4> QED
        BY <4>1, Forgets
    <3> QED
      BY <3>1, <3>2
  <2>6. Len(managers) \in Nat
    BY LenProperties DEF Sound, PlainTypes
  <2> QED
    BY <2>1, <2>3, <2>5, <2>6, BudgetKept
<1>4. CASE ReconnectHardware(t)
  <2>1. Sound' /\ Step(t, New("reconnect", "again", manager, managers[manager].transport))
    BY <1>4, ReconnectHardwareSound
  <2>2. op[t] = Idle /\ managers' = managers
    BY <1>4 DEF ReconnectHardware, Click
  <2>3. \A m \in 1 .. Len(managers), u \in Ops : Tries(op[u], m) => Tries(op'[u], m)
    BY <1>1, <2>1, <2>2, StepTries
  <2> QED
    BY <2>1, <2>2, <2>3, BudgetStays
<1> QED
  BY <1>2, <1>3, <1>4

\* A timer begins a retry.
LEMMA BudgetAutoRetry ==
  ASSUME Sound, Budget, NEW t \in Ops, NEW m \in 1 .. Len(managers), AutoRetry(t, m)
  PROVE  Budget'
<1>1. /\ Sound' /\ ManagerStep(m, Tried(m, managers[m].count, FALSE))
      /\ op' = op \/ Step(t, New("retry", "again", m, managers[m].transport))
  BY AutoRetrySound
<1>2. op[t] = Idle
  BY DEF AutoRetry
<1>3. \A i \in 1 .. Len(managers), u \in Ops : Tries(op[u], i) => Tries(op'[u], i)
  BY <1>1, <1>2, IdleTries, StepTries
<1>4. /\ Len(managers') = Len(managers)
      /\ \A i \in 1 .. Len(managers) : managers'[i].count \in {0, managers[i].count}
  <2>1. Tried(m, managers[m].count, FALSE).count = managers[m].count
    BY DEF Tried
  <2> QED
    BY <1>1, <2>1 DEF ManagerStep
<1>5. Len(managers) \in Nat
  BY LenProperties DEF Sound, PlainTypes
<1> QED
  BY <1>1, <1>3, <1>4, <1>5, BudgetKept

\* The choice of the transport begins nothing.
LEMMA BudgetSelect ==
  ASSUME Sound, Budget, NEW k \in Kind, SelectTransport(k)
  PROVE  Budget'
<1>1. /\ Sound' /\ Len(managers') = Len(managers)
      /\ \A n \in 1 .. Len(managers) : managers'[n].count = managers[n].count
  BY SelectTransportSound
<1>2. op' = op
  BY DEF SelectTransport
<1>3. Len(managers) \in Nat
  BY LenProperties DEF Sound, PlainTypes
<1> QED
  BY <1>1, <1>2, <1>3, BudgetKept

\* A try is counted when the operation begins to try.
LEMMA BudgetAgain ==
  ASSUME Sound, Budget, NEW t \in Ops, Again(t)
  PROVE  Budget'
<1> DEFINE m == op[t].manager
<1>0. op[t] \in OpState /\ Shape(op[t]) /\ op[t].at = "again"
  BY OpTyped DEF Sound, Again
<1>1. \A i \in 1 .. Len(managers) : ~Tries(op[t], i)
  BY <1>0 DEF Tries
<1>2. CASE Step(t, Idle) /\ managers' = managers
  <2>1. \A i \in 1 .. Len(managers), u \in Ops : Tries(op[u], i) => Tries(op'[u], i)
    BY <1>1, <1>2, StepTries
  <2> QED
    BY <1>2, <2>1, AgainSound, BudgetStays
<1>3. ASSUME m \in 1 .. Len(managers),
             ManagerStep(m, Tried(m, managers[m].count + 1, managers[m].timer)),
             NEW a \in {"connect", "ask"}, Step(t, Sent(op[t], a))
      PROVE  Budget'
  <2>1. a \in Place
    BY DEF Place, Running
  <2>2. Moves(t, {a})
    BY <1>3, <2>1, SoundMoves
  <2>3. \A i \in 1 .. Len(managers), u \in Ops : Tries(op[u], i) => Tries(op'[u], i)
    BY <2>2, MovesTries
  <2>4. Tries(op'[t], m)
    BY <1>0, <2>2 DEF Moves, Tries, Shape
  <2>5. Len(managers') = Len(managers) /\ managers'[m].count = managers[m].count + 1
    BY <1>3 DEF ManagerStep, Tried
  <2> SUFFICES ASSUME NEW i \in 1 .. Len(managers)
               PROVE  managers'[i].count <= Cardinality(Triers(i)')
    BY <2>5 DEF Budget
  <2>6. IsFiniteSet(Triers(i)') /\ Cardinality(Triers(i)') \in Nat
    BY SessionAssumption, FS_Subset, FS_CardinalityType DEF Triers
  <2>7. managers[i].count <= Cardinality(Triers(i)) /\ managers[i].count \in Nat
    <3>1. managers[i] \in ManagerState
      BY ElementOfSeq DEF Sound, PlainTypes
    <3> QED
      BY <3>1 DEF Budget, ManagerState
  <2>8. Triers(i) \subseteq Triers(i)' /\ IsFiniteSet(Triers(i)) /\ Cardinality(Triers(i)) \in Nat
    BY <2>3, TriersFinite DEF Triers
  <2>9. CASE i = m
    <3>1. t \in Triers(i)' /\ t \notin Triers(i)
      BY <1>1, <2>4, <2>9 DEF Triers
    <3>2. Cardinality(Triers(i) \cup {t}) = Cardinality(Triers(i)) + 1
      BY <2>8, <3>1, FS_AddElement
    <3>3. Triers(i) \cup {t} \subseteq Triers(i)'
      BY <2>8, <3>1
    <3>4. Cardinality(Triers(i) \cup {t}) <= Cardinality(Triers(i)')
      BY <2>6, <3>3, FS_Subset
    <3> HIDE DEF m
    <3> QED
      BY <2>5, <2>6, <2>7, <2>8, <2>9, <3>2, <3>4
  <2>10. CASE i # m
    <3>1. managers'[i] = managers[i]
      BY <1>3, <2>10 DEF ManagerStep
    <3>2. Cardinality(Triers(i)) <= Cardinality(Triers(i)')
      BY <2>6, <2>8, FS_Subset
    <3> QED
      BY <2>6, <2>7, <2>8, <3>1, <3>2
  <2> QED
    BY <2>9, <2>10
<1> QED
  BY <1>2, <1>3, AgainSound

\* An operation that moves on keeps its try.
LEMMA BudgetMoves ==
  ASSUME Sound, Budget, NEW t \in Ops,
         \/ Connect(t) \/ Ask(t) \/ Send(t) \/ Stop(t) \/ Stopped(t)
         \/ PortOpens(t) \/ StartTimeout(t) \/ Acks(t) \/ Exited(t)
  PROVE  Budget'
<1>1. managers' = managers
  BY DEF Connect, Ask, Send, Stop, Stopped, PortOpens, StartTimeout, Acks, Exited, page
<1>2. /\ "start" \in Place /\ "leave" \in Place /\ "fail" \in Place /\ "stopped" \in Place
  BY DEF Place, Running, Waiting
<1>3. ASSUME NEW A, Sound', Moves(t, A), A \cap {"again", "gone", "left"} = {}
      PROVE  Budget'
  BY <1>1, <1>3, MovesTries, BudgetStays
<1>4. CASE Connect(t)
  BY <1>3, <1>4, ConnectSound
<1>5. CASE Ask(t)
  BY <1>3, <1>5, AskSound
<1>6. CASE Send(t)
  BY <1>2, <1>3, <1>6, SendSound, SoundMoves
<1>7. CASE Stop(t)
  BY <1>3, <1>7, StopSound
<1>8. CASE Stopped(t)
  BY <1>2, <1>3, <1>8, StoppedSound, SoundMoves
<1>9. CASE PortOpens(t)
  BY <1>3, <1>9, PortOpensSound
<1>10. CASE StartTimeout(t)
  BY <1>2, <1>3, <1>10, StartTimeoutSound, SoundMoves
<1>11. CASE Acks(t)
  BY <1>3, <1>11, AcksSound
<1>12. CASE Exited(t)
  BY <1>2, <1>3, <1>12, ExitedSound, SoundMoves
<1> QED
  BY <1>4, <1>5, <1>6, <1>7, <1>8, <1>9, <1>10, <1>11, <1>12

\* Operations that an event of a socket wakes keep their tries.
LEMMA WokenTries ==
  ASSUME Sound, Woken
  PROVE  \A m \in 1 .. Len(managers), u \in Ops : Tries(op[u], m) => Tries(op'[u], m)
<1> SUFFICES ASSUME NEW m \in 1 .. Len(managers), NEW u \in Ops, Tries(op[u], m)
             PROVE  Tries(op'[u], m)
  OBVIOUS
<1>1. op[u] \in OpState /\ Shape(op[u])
  BY OpTyped DEF Sound
<1>2. CASE op'[u] = op[u]
  BY <1>2
<1>3. ASSUME op[u].at = "socket", NEW a \in {"fail", op[u].next}, op'[u] = Sent(op[u], a)
      PROVE  Tries(op'[u], m)
  <2>1. a \in {"fail", "begin", "ask", "send"}
    BY <1>1, <1>3 DEF Shape
  <2>2. a \in Place
    BY <2>1 DEF Place, Running
  <2>3. /\ Sent(op[u], a).at = a /\ Sent(op[u], a).do = op[u].do
        /\ Sent(op[u], a).manager = op[u].manager
    BY <1>1, <2>2, SentFields
  <2> QED
    BY <1>3, <2>1, <2>3 DEF Tries
<1> QED
  BY <1>2, <1>3 DEF Woken

\* The events of the links keep the tries.
LEMMA BudgetLinks ==
  ASSUME Sound, Budget, NEW s \in 1 .. Sockets,
         SocketOpens(s) \/ SocketCloses(s) \/ StartedMsg(s) \/ SerialLinkLoss
  PROVE  Budget'
<1>0. Len(managers) \in Nat
  BY LenProperties DEF Sound, PlainTypes
<1>1. CASE SocketOpens(s)
  <2>1. managers' = managers
    BY <1>1 DEF SocketOpens
  <2> QED
    BY <1>1, <2>1, SocketOpensSound, WokenTries, BudgetStays
<1>2. CASE SocketCloses(s)
  BY <1>0, <1>2, SocketClosesSound, WokenTries, BudgetKept
<1>3. CASE StartedMsg(s)
  <2>1. managers' = managers
    BY <1>3 DEF StartedMsg
  <2>2. Sound' /\ \A m \in 1 .. Len(managers), u \in Ops : Tries(op[u], m) => Tries(op'[u], m)
    <3>1. CASE bridge.waiter = NoOne
      BY <1>3, <3>1, StartedMsgSound
    <3>2. CASE bridge.waiter # NoOne
      <4>1. "succeed" \in Place
        BY DEF Place, Running
      <4>2. bridge.waiter \in Ops /\ Step(bridge.waiter, Sent(op[bridge.waiter], "succeed"))
        BY <1>3, <3>2, StartedMsgSound
      <4>3. Moves(bridge.waiter, {"succeed"})
        BY <4>1, <4>2, SoundMoves
      <4> QED
        BY <1>3, <4>2, <4>3, MovesTries, StartedMsgSound
    <3> QED
      BY <3>1, <3>2
  <2> QED
    BY <2>1, <2>2, BudgetStays
<1>4. CASE SerialLinkLoss
  <2>1. op' = op
    BY <1>4 DEF SerialLinkLoss
  <2> QED
    BY <1>0, <1>4, <2>1, SerialLinkLossSound, BudgetKept
<1> QED
  BY <1>1, <1>2, <1>3, <1>4

\* What an operation does that never tries, or tries no longer.
LEMMA BudgetOthers ==
  ASSUME Sound, Budget, NEW t \in Ops, Begin(t) \/ PortGone(t) \/ Left(t)
  PROVE  Budget'
<1>0. Len(managers) \in Nat /\ manager \in 0 .. Len(managers)
  BY LenProperties DEF Sound, PlainTypes
<1>1. op[t] \in OpState /\ Shape(op[t])
  BY OpTyped DEF Sound
<1>2. \A m \in 1 .. Len(managers) : ~Tries(op[t], m)
  BY <1>1 DEF Begin, PortGone, Left, Tries, Shape, Again2
<1>3. CASE Begin(t) /\ manager = 0
  BY <1>2, <1>3, BeginSound, StepTries, BudgetStays
<1>4. CASE Begin(t) /\ manager # 0
  <2>1. Sound' /\ ManagerStep(manager, Tried(manager, 0, FALSE))
    BY <1>4, BeginSound
  <2>2. \A m \in 1 .. Len(managers), u \in Ops : Tries(op[u], m) => Tries(op'[u], m)
    BY <1>2, <1>4, BeginSound, StepTries
  <2>3. manager \in 1 .. Len(managers)
    BY <1>0, <1>4
  <2>4. /\ Len(managers') = Len(managers)
        /\ \A i \in 1 .. Len(managers) : managers'[i].count \in {0, managers[i].count}
    BY <2>1, <2>3, Forgets
  <2> QED
    BY <1>0, <2>1, <2>2, <2>4, BudgetKept
<1>5. CASE PortGone(t)
  <2>1. managers' = managers
    BY <1>5 DEF PortGone
  <2> QED
    BY <1>2, <1>5, <2>1, PortGoneSound, StepTries, BudgetStays
<1>6. CASE Left(t)
  <2>1. managers' = managers
    BY <1>6 DEF Left
  <2> QED
    BY <1>2, <1>6, <2>1, LeftSound, StepTries, BudgetStays
<1> QED
  BY <1>3, <1>4, <1>5, <1>6

\* A step that forgets the tries of a manager keeps the budget, whatever an operation of that
\* manager does.
LEMMA BudgetForgets ==
  ASSUME Sound, Sound', Budget, NEW t \in Ops, NEW h, Step(t, h),
         NEW m \in 1 .. Len(managers), NEW b, ManagerStep(m, Tried(m, 0, b)),
         \A i \in 1 .. Len(managers) : Tries(op[t], i) => i = m \/ Tries(h, i)
  PROVE  Budget'
<1>0. Len(managers) \in Nat
  BY LenProperties DEF Sound, PlainTypes
<1>1. /\ Len(managers') = Len(managers) /\ managers'[m].count = 0
      /\ \A i \in 1 .. Len(managers) : managers'[i].count \in {0, managers[i].count}
  BY Forgets
<1>2. \A i \in 1 .. Len(managers), u \in Ops :
        Tries(op[u], i) => managers'[i].count = 0 \/ Tries(op'[u], i)
  BY <1>1 DEF Step
<1> QED
  BY <1>0, <1>1, <1>2, BudgetKept

\* A session that starts forgets the tries of its manager, or stays one that is refused.
LEMMA BudgetSucceed ==
  ASSUME Sound, Budget, NEW t \in Ops, Succeed(t)
  PROVE  Budget'
<1> DEFINE m == op[t].manager
<1>1. op[t] \in OpState /\ Shape(op[t]) /\ op[t].at = "succeed"
  BY OpTyped DEF Sound, Succeed
<1>2. Sound'
  BY SucceedSound
<1>3. CASE op[t].do = "connect" /\ managers' = managers /\ \E h : Step(t, h)
  <2>1. \A i \in 1 .. Len(managers) : ~Tries(op[t], i)
    BY <1>3 DEF Tries, Again2
  <2>2. \A i \in 1 .. Len(managers), u \in Ops : Tries(op[u], i) => Tries(op'[u], i)
    BY <1>3, <2>1, StepTries
  <2> QED
    BY <1>2, <1>3, <2>2, BudgetStays
<1>4. CASE m \in 1 .. Len(managers) /\ Step(t, Idle) /\ ManagerStep(m, Tried(m, 0, managers[m].timer))
  <2>1. \A i \in 1 .. Len(managers) : Tries(op[t], i) => i = m
    BY DEF Tries
  <2> HIDE DEF m
  <2> QED
    BY <1>2, <1>4, <2>1, BudgetForgets
<1>5. CASE Step(t, Doing(Sent(op[t], "stopped"), "refused")) /\ managers' = managers
  <2>1. "stopped" \in Place /\ "refused" \in Task
    BY DEF Place, Running, Task
  <2> DEFINE h1 == Sent(op[t], "stopped")
             h == Doing(h1, "refused")
  <2>2. h1 \in OpState /\ h1.at = "stopped" /\ h1.manager = m
    BY <1>1, <2>1, SentFields
  <2> HIDE DEF h1
  <2>3. h.do = "refused" /\ h.at = "stopped" /\ h.manager = m
    BY <2>1, <2>2, DoingFields
  <2>4. Step(t, h)
    BY <1>5 DEF h1
  <2> HIDE DEF h
  <2>5. \A i \in 1 .. Len(managers), u \in Ops : Tries(op[u], i) => Tries(op'[u], i)
    BY <2>3, <2>4 DEF Step, Tries
  <2> QED
    BY <1>2, <1>5, <2>5, BudgetStays
<1> QED
  BY <1>3, <1>4, <1>5, SucceedSound

\* The disconnect of a refused session forgets the tries of its manager.
LEMMA BudgetLeave ==
  ASSUME Sound, Budget, NEW t \in Ops, Leave(t)
  PROVE  Budget'
<1> DEFINE m == op[t].manager
<1>1. op[t] \in OpState /\ Shape(op[t]) /\ op[t].at = "leave" /\ op[t].do \in {"connect", "disconnect", "mismatch", "refused"}
  BY OpTyped DEF Sound, Leave, Shape, Closing
<1>2. Sound' /\ \E h : Step(t, h)
  BY LeaveSound
<1>3. CASE /\ op[t].do = "refused" /\ m \in 1 .. Len(managers)
           /\ ManagerStep(m, Tried(m, 0, TRUE))
  <2>1. \A i \in 1 .. Len(managers) : Tries(op[t], i) => i = m
    BY DEF Tries
  <2> HIDE DEF m
  <2> QED
    BY <1>2, <1>3, <2>1, BudgetForgets
<1>4. op[t].do # "refused" => \A i \in 1 .. Len(managers) : ~Tries(op[t], i)
  BY <1>1 DEF Tries, Again2
<1>5. CASE op[t].do # "refused" /\ manager = 0 /\ managers' = managers
  BY <1>2, <1>4, <1>5, StepTries, BudgetStays
<1>6. CASE op[t].do # "refused" /\ manager # 0 /\ ManagerStep(manager, Tried(manager, 0, FALSE))
  <2>1. manager \in 1 .. Len(managers)
    BY <1>6 DEF Sound, PlainTypes
  <2> QED
    BY <1>2, <1>4, <1>6, <2>1, BudgetForgets
<1> QED
  BY <1>3, <1>5, <1>6, LeaveSound

\* A try that fails is forgotten when the next one is scheduled, which it is while fewer
\* operations run than there may be retries.
LEMMA BudgetFail ==
  ASSUME Sound, Budget, Cardinality(Ops) < AutoRetryMax, NEW t \in Ops, Fail(t)
  PROVE  Budget'
<1> DEFINE m == op[t].manager
<1>1. op[t] \in OpState /\ Shape(op[t]) /\ op[t].at = "fail"
  BY OpTyped DEF Sound, Fail
<1>2. Sound'
  BY FailSound
<1>3. ASSUME op[t].do = "connect", managers' = managers, NEW h, Step(t, h)
      PROVE  Budget'
  <2>1. \A i \in 1 .. Len(managers) : ~Tries(op[t], i)
    BY <1>3 DEF Tries, Again2
  <2> QED
    BY <1>2, <1>3, <2>1, StepTries, BudgetStays
<1>4. CASE Step(t, Idle) /\ m \in 1 .. Len(managers) /\ managers' = Scheduled(m)
  <2>1. managers[m].count <= Cardinality(Triers(m)) /\ Cardinality(Triers(m)) <= Cardinality(Ops)
    BY <1>4, TriersFinite DEF Budget
  <2>2. managers[m] \in ManagerState
    BY <1>4, ElementOfSeq DEF Sound, PlainTypes
  <2>3. managers[m].count \in Nat /\ Cardinality(Triers(m)) \in Nat /\ Cardinality(Ops) \in Nat /\ AutoRetryMax \in Nat
    BY <2>2, SessionAssumption, TriersFinite, FS_CardinalityType DEF ManagerState
  <2> HIDE DEF m
  <2>4. managers[m].count < AutoRetryMax
    BY <2>1, <2>3
  <2>7. managers \in Seq(ManagerState) /\ m \in 1 .. Len(managers) /\ managers' = Scheduled(m)
    BY <1>4 DEF Sound, PlainTypes
  <2>8. \/ managers[m].count < AutoRetryMax /\ ManagerStep(m, Tried(m, 0, TRUE))
        \/ managers[m].count >= AutoRetryMax /\ ManagerStep(m, managers[m])
    BY <2>7, Schedules
  <2>9. ~(managers[m].count >= AutoRetryMax)
    BY <2>3, <2>4
  <2>5. ManagerStep(m, Tried(m, 0, TRUE))
    BY <2>8, <2>9
  <2>6. \A i \in 1 .. Len(managers) : Tries(op[t], i) => i = m
    BY DEF Tries, m
  <2> QED
    BY <1>2, <1>4, <2>5, <2>6, BudgetForgets
<1> QED
  BY <1>3, <1>4, FailSound

\* Every step keeps the budget.
LEMMA NextBudget ==
  ASSUME Sound, Budget, Cardinality(Ops) < AutoRetryMax, [Next]_vars
  PROVE  Budget'
<1>1. ASSUME NEW t \in Ops, ConnectHardware(t) \/ DisconnectHardware(t) \/ ReconnectHardware(t)
      PROVE  Budget'
  BY <1>1, BudgetUser
<1>2. ASSUME NEW t \in Ops, Continue(t)
      PROVE  Budget'
  BY <1>2, BudgetMoves, BudgetAgain, BudgetOthers, BudgetSucceed, BudgetLeave, BudgetFail
     DEF Continue
<1>3. ASSUME NEW t \in Ops, Resume(t)
      PROVE  Budget'
  BY <1>3, BudgetMoves, BudgetOthers DEF Resume
<1>4. ASSUME NEW t \in Ops, NEW m \in 1 .. Len(managers), AutoRetry(t, m)
      PROVE  Budget'
  BY <1>4, BudgetAutoRetry
<1>5. ASSUME NEW k \in Kind, SelectTransport(k)
      PROVE  Budget'
  BY <1>5, BudgetSelect
<1>6. ASSUME NEW s \in 1 .. Sockets, SocketOpens(s) \/ SocketCloses(s) \/ StartedMsg(s)
      PROVE  Budget'
  BY <1>6, BudgetLinks
<1>7. CASE SerialLinkLoss
  <2>1. Len(managers) \in Nat /\ op' = op
    BY <1>7, LenProperties DEF Sound, PlainTypes, SerialLinkLoss
  <2> QED
    BY <1>7, <2>1, SerialLinkLossSound, BudgetKept
<1>8. CASE UNCHANGED vars
  BY <1>8 DEF vars, Budget, Triers
<1>9. CASE HeldPortPulled
  BY <1>9 DEF HeldPortPulled, Budget, Triers
<1> QED
  BY <1>1, <1>2, <1>3, <1>4, <1>5, <1>6, <1>7, <1>8, <1>9 DEF Next

\* The types, the places and the budget make the type invariant.
LEMMA BudgetTypes ==
  ASSUME Sound, Budget, Cardinality(Ops) < AutoRetryMax
  PROVE  TypeOK
<1> DEFINE M == [transport : Kind, count : 0 .. AutoRetryMax, timer : BOOLEAN]
<1>1. Len(managers) \in Nat /\ managers \in [1 .. Len(managers) -> ManagerState]
  BY LenProperties DEF Sound, PlainTypes
<1>2. ASSUME NEW m \in 1 .. Len(managers)
      PROVE  managers[m] \in M
  <2>1. managers[m] \in ManagerState
    BY <1>1
  <2>2. managers[m].count <= Cardinality(Triers(m)) /\ Cardinality(Triers(m)) <= Cardinality(Ops)
    BY TriersFinite DEF Budget
  <2>3. managers[m].count \in Nat /\ Cardinality(Triers(m)) \in Nat /\ Cardinality(Ops) \in Nat /\ AutoRetryMax \in Nat
    BY <2>1, SessionAssumption, TriersFinite, FS_CardinalityType DEF ManagerState
  <2>4. managers[m].count \in 0 .. AutoRetryMax
    BY <2>2, <2>3
  <2> QED
    BY <2>1, <2>4 DEF ManagerState
<1> HIDE DEF M
<1>3. managers \in [1 .. Len(managers) -> M]
  BY <1>1, <1>2
<1>4. managers \in Seq(M)
  BY <1>1, <1>3, SeqDef
<1>5. op \in [Ops -> [do : Task, at : Place, next : Running \cup {"idle"}, manager : 0 .. Len(managers),
                      on : Kind, socket : 0 .. Sockets]]
  <2>1. op \in [Ops -> OpState] /\ \A t \in Ops : op[t].manager \in 0 .. Len(managers)
    BY <1>1 DEF Sound, OpsSound, OpState
  <2> QED
    BY <2>1 DEF OpState
<1> QED
  BY <1>4, <1>5 DEF TypeOK, Sound, PlainTypes, M, BridgeState, Task, Place

(***************************************************************************)
(* In every behaviour the page, the session managers, the transports and   *)
(* the operations have their types, and no manager counts more than        *)
(* AUTO_RETRY_MAX retries, when fewer operations than that may run at      *)
(* once.  The hypothesis is needed: the code compares the count with the   *)
(* limit only when it schedules a retry, and each operation that has begun *)
(* to try adds one without looking.                                        *)
(***************************************************************************)
THEOREM SessionTyped ==
  ASSUME Cardinality(Ops) < AutoRetryMax
  PROVE  Spec => []TypeOK
<1>1. Init => Sound /\ Budget
  <2>1. Init => Len(managers) = 0
    BY DEF Init
  <2> QED
    BY <2>1, InitSound DEF Budget
<1>2. Sound /\ Budget /\ [Next]_vars => Sound' /\ Budget'
  BY NextSound, NextBudget
<1>3. Sound /\ Budget => TypeOK
  BY BudgetTypes
<1> QED
  BY <1>1, <1>2, <1>3, PTL DEF Spec

-----------------------------------------------------------------------------
(***************************************************************************)
(* As long as operations have not met, and no late event has met another   *)
(* session, at most one operation runs, no retry is due, and where the     *)
(* operation is tells what state the transport of the manager is in; the   *)
(* other transport has nothing.                                            *)
(***************************************************************************)
\* A transport that has no session and does not hold the port.
Clear(k) == state[k] = "disconnected" /\ ~fatal[k] /\ portHolder # k
BridgeClear ==
  Clear("bridge") /\ bridge.ws = 0 /\ ~bridge.had /\ bridge.waiter = NoOne
SerialClear == Clear("webserial") /\ serial \in {"none", "held"}

\* A transport with a session, whose link may be lost by now.
BridgeSession ==
  /\ portHolder = "bridge" /\ bridge.ws # 0 /\ ~fatal["bridge"]
  /\ state["bridge"] \in {"active", "degraded", "disconnected"}
  /\ sockets[bridge.ws] \in {"open", "closed"}
  /\ bridge.had <=> state["bridge"] = "active"
  /\ bridge.had <=> sockets[bridge.ws] = "open"
SerialSession ==
  /\ portHolder = "webserial" /\ ~fatal["webserial"]
  /\ state["webserial"] \in {"active", "degraded"}
  /\ serial \in {"open", "lost"} /\ (state["webserial"] = "active" => serial = "open")

\* The bridge client has a socket, and no session yet; its session ends.
Unheld(S) ==
  /\ bridge.ws # 0 /\ ~fatal["bridge"] /\ ~bridge.had /\ portHolder = NoOne
  /\ state["bridge"] \in {"connecting", "disconnected"} /\ sockets[bridge.ws] \in S
BridgeEnds == ~bridge.had /\ state["bridge"] \in {"disconnected", "degraded", "connecting"}

\* The Web Serial transport has the port, and no session yet.
Claimed == portHolder = "webserial" /\ state["webserial"] = "connecting" /\ ~fatal["webserial"]

\* What the place of an operation tells of its transport.
BridgeAt(h) ==
  \/ h.at \in {"connect", "left"} /\ BridgeClear
  \/ h.at = "socket" /\ h.socket = bridge.ws /\ Unheld({"connecting"})
  \/ h.at \in {"begin", "ask", "send"} /\ Unheld({"open"})
  \/ h.at = "start" /\ bridge.waiter # NoOne /\ Unheld({"asked", "closed"})
  \/ h.at \in {"succeed", "stop"} /\ BridgeSession
  \/ h.at \in {"fail", "stopped"} /\ BridgeEnds /\ ~fatal["bridge"]
  \/ h.at = "leave" /\ BridgeEnds
SerialAt(h) ==
  \/ h.at \in {"connect", "left"} /\ SerialClear
  \/ h.at = "port" /\ Claimed
  \/ h.at \in {"begin", "ask"} /\ Claimed /\ serial = "open"
  \/ h.at = "ack" /\ Claimed /\ serial \in Reading
  \/ h.at \in {"succeed", "stop", "exit"} /\ SerialSession
  \/ h.at = "fail" /\ state["webserial"] # "active" /\ ~fatal["webserial"]
  \/ h.at = "stopped" /\ state["webserial"] \notin {"active", "connecting"} /\ ~fatal["webserial"]
  \/ h.at \in {"leave", "gone"} /\ state["webserial"] # "active"

Calmly == {"connect", "disconnect", "mismatch"}
Alone(t) ==
  /\ \A u \in Ops : u # t => op[u].at = "idle"
  /\ op[t].at # "idle" /\ op[t].do \in Calmly
  /\ manager # 0 /\ op[t].on = managers[manager].transport
  /\ adapter.timer = FALSE
  /\ IF op[t].on = "bridge" THEN SerialClear /\ BridgeAt(op[t]) ELSE BridgeClear /\ SerialAt(op[t])

Off == BridgeClear /\ SerialClear /\ unit.connected = FALSE /\ unit.degraded = FALSE /\ adapter.timer = FALSE
On ==
  /\ unit.connected = TRUE /\ unit.degraded = FALSE /\ adapter.timer = TRUE
  /\ IF managers[manager].transport = "bridge" THEN SerialClear /\ BridgeSession
     ELSE BridgeClear /\ SerialSession
Resting == (\A u \in Ops : op[u].at = "idle") /\ IF manager = 0 THEN Off ELSE On

Live == {"connecting", "open", "asked", "askedTwice"}
NoTimers == \A m \in 1 .. Len(managers) : managers[m].timer = FALSE
OldSockets == \A s \in 1 .. Sockets : sockets[s] \in Live => s = bridge.ws
Calm == NoTimers /\ OldSockets /\ (Resting \/ \E t \in Ops : Alone(t))

\* The two transports.
LEMMA TwoKinds ==
  "bridge" \in Kind /\ "webserial" \in Kind /\ \A k \in Kind : k = "bridge" \/ k = "webserial"
BY DEF Kind

\* What holds while one operation runs.
LEMMA AloneHas ==
  ASSUME Sound, NEW t \in Ops, Alone(t)
  PROVE  /\ op[t] \in OpState /\ Shape(op[t]) /\ op[t].do \in Calmly
         /\ manager # 0 /\ manager \in 1 .. Len(managers) /\ Len(managers) \in Nat
         /\ managers \in Seq(ManagerState) /\ managers[manager] \in ManagerState
         /\ op[t].on = managers[manager].transport /\ op[t].on \in Kind
         /\ adapter.timer = FALSE
         /\ op[t].on = "bridge" => SerialClear /\ BridgeAt(op[t])
         /\ op[t].on # "bridge" => op[t].on = "webserial" /\ BridgeClear /\ SerialAt(op[t])
<1>1. op[t] \in OpState /\ Shape(op[t])
  BY OpTyped DEF Sound
<1>2. Len(managers) \in Nat /\ managers \in Seq(ManagerState) /\ manager \in 0 .. Len(managers) /\ manager # 0
  BY LenProperties DEF Sound, PlainTypes, Alone
<1>3. manager \in 1 .. Len(managers)
  BY <1>2
<1>4. managers[manager] \in ManagerState
  BY <1>2, <1>3, ElementOfSeq
<1>5. op[t].on \in Kind
  BY <1>1 DEF OpState
<1> QED
  BY <1>1, <1>2, <1>3, <1>4, <1>5, TwoKinds DEF Alone

\* Who is busy is the one that runs.
LEMMA BusyAlone ==
  ASSUME Calm, NEW t \in Ops, op[t].at # "idle"
  PROVE  NoTimers /\ OldSockets /\ Alone(t)
BY DEF Calm, Resting, Alone

\* It goes on, and nobody else begins.
LEMMA AloneGoes ==
  ASSUME NEW t \in Ops, Alone(t), NEW A, Moves(t, A), "idle" \notin A, manager' = manager,
         managers'[manager].transport = managers[manager].transport, adapter'.timer = FALSE,
         op[t].on = "bridge" => SerialClear' /\ BridgeAt(op[t])',
         op[t].on # "bridge" => BridgeClear' /\ SerialAt(op[t])'
  PROVE  Alone(t)'
BY DEF Alone, Moves

\* No timer starts and no socket is forgotten.
LEMMA TimersAndSockets ==
  ASSUME NoTimers, OldSockets, managers' = managers, sockets' = sockets, bridge'.ws = bridge.ws
  PROVE  NoTimers' /\ OldSockets'
BY DEF NoTimers, OldSockets

\* The bridge client opens its socket, or cannot.
LEMMA NewSocketCalm ==
  ASSUME Sound, NEW t \in Ops, NEW next, OldSockets, BridgeClear, NewSocket(t, next),
         op[t].at = "connect", op'[t].at = "socket" => op'[t].socket = bridge'.ws,
         UNCHANGED <<fatal, portHolder, serial>>, portHolder # "webserial", SerialClear
  PROVE  OldSockets' /\ BridgeAt(op[t])' /\ SerialClear'
<1>0. /\ bridge \in BridgeState /\ state \in [Kind -> State] /\ sockets \in [1 .. Sockets -> SocketState]
      /\ portHolder \in Kind \cup {NoOne} /\ op \in [Ops -> OpState] /\ 0 \notin 1 .. Sockets
  BY DEF Sound, PlainTypes, OpsSound
<1>1. \A s \in 1 .. Sockets : sockets[s] \notin Live
  BY <1>0 DEF OldSockets, BridgeClear
<1>2. portHolder = NoOne
  BY <1>0, TwoKinds DEF BridgeClear, Clear
<1>3. ASSUME NEW i \in 1 .. Sockets, sockets' = [sockets EXCEPT ![i] = "connecting"],
             bridge' = [bridge EXCEPT !.ws = i],
             op' = [op EXCEPT ![t].at = "socket", ![t].next = next, ![t].socket = i], state' = state
      PROVE  OldSockets' /\ BridgeAt(op[t])' /\ SerialClear'
  <2>1. bridge'.ws = i /\ bridge'.had = bridge.had /\ i # 0 /\ i \in 0 .. Sockets
    <3>1. bridge' = Opened(bridge, i) /\ i \in 0 .. Sockets /\ i # 0
      BY <1>0, <1>3, SessionAssumption DEF Opened
    <3> QED
      BY <1>0, <3>1, OpenedFields
  <2>2. sockets'[i] = "connecting" /\ \A s \in 1 .. Sockets : s # i => sockets'[s] = sockets[s]
    BY <1>0, <1>3
  <2>3. OldSockets'
    BY <1>1, <2>1, <2>2 DEF OldSockets
  <2>4. op'[t].at = "socket"
    <3>1. op' = SetThrough(op, t, "socket", next, i)
      BY <1>3 DEF SetThrough
    <3> QED
      BY <1>0, <3>1 DEF SetThrough, OpState
  <2>5. Unheld({"connecting"})'
    BY <1>2, <1>3, <2>1, <2>2 DEF Unheld, BridgeClear, Clear
  <2>6. SerialClear'
    BY <1>3 DEF SerialClear, Clear
  <2> QED
    BY <2>3, <2>4, <2>5, <2>6 DEF BridgeAt
<1>4. ASSUME bridge' = [bridge EXCEPT !.ws = 0, !.had = FALSE],
             state' = IF fatal["bridge"] THEN state ELSE [state EXCEPT !["bridge"] = "disconnected"],
             Goto(t, "fail"), sockets' = sockets
      PROVE  OldSockets' /\ BridgeAt(op[t])' /\ SerialClear'
  <2>1. bridge'.ws = 0 /\ bridge'.had = FALSE
    <3>1. bridge' = Dropped(bridge)
      BY <1>4 DEF Dropped
    <3> QED
      BY <1>0, <3>1, BridgePairs
  <2>2. op'[t].at = "fail"
    BY <1>0, <1>4 DEF Goto, OpState
  <2>3. state'["bridge"] = "disconnected" /\ state'["webserial"] = state["webserial"]
    BY <1>0, <1>4, TwoKinds DEF BridgeClear, Clear
  <2>4. OldSockets'
    BY <1>1, <1>4 DEF OldSockets
  <2>5. BridgeAt(op[t])'
    BY <2>1, <2>2, <2>3 DEF BridgeAt, BridgeEnds, BridgeClear, Clear
  <2>6. SerialClear'
    BY <2>3 DEF SerialClear, Clear
  <2> QED
    BY <2>4, <2>5, <2>6
<1> QED
  BY <1>3, <1>4 DEF NewSocket

\* The transport is asked to connect.
LEMMA ConnectCalm ==
  ASSUME Sound, Calm, NEW t \in Ops, Connect(t)
  PROVE  Calm'
<1>1. op[t].at = "connect" /\ NoTimers /\ OldSockets /\ Alone(t)
  BY BusyAlone DEF Connect
<1>2. /\ op[t] \in OpState /\ op[t].do = "connect" /\ op[t].on \in Kind
      /\ op[t].on = "bridge" => SerialClear /\ BridgeClear
      /\ op[t].on # "bridge" => op[t].on = "webserial" /\ SerialClear /\ BridgeClear
  BY <1>1, AloneHas DEF BridgeAt, SerialAt, Shape, Opening, Again2, Calmly
<1>3. UNCHANGED <<page, managers, manager, fatal, serial, clicks, overlapped>>
  BY DEF Connect
<1>4. /\ Moves(t, {"fail", "begin", "ask", "socket", "port"})
      /\ op'[t].at = "socket" => op'[t].socket = bridge'.ws
  BY ConnectSound
<1>5. op \in [Ops -> OpState] /\ state \in [Kind -> State] /\ bridge \in BridgeState
  BY DEF Sound, OpsSound, PlainTypes
<1>6. bridge.ws = 0 /\ portHolder \notin {"bridge", "webserial"}
  BY <1>2 DEF BridgeClear, SerialClear, Clear
<1>7. CASE op[t].on = "bridge"
  <2>1. PICK next : NewSocket(t, next) /\ portHolder' = portHolder
    BY <1>6, <1>7 DEF Connect, WsOpen
  <2>2. OldSockets' /\ BridgeAt(op[t])' /\ SerialClear'
    BY <1>1, <1>2, <1>3, <1>4, <1>6, <1>7, <2>1, NewSocketCalm
  <2>3. Alone(t)'
    BY <1>1, <1>3, <1>4, <1>7, <2>2, AloneGoes, AloneHas DEF page
  <2>4. NoTimers'
    BY <1>1, <1>3 DEF NoTimers
  <2> QED
    BY <2>2, <2>3, <2>4 DEF Calm
<1>8. CASE op[t].on = "webserial"
  <2>1. /\ op' = [op EXCEPT ![t].at = "port", ![t].next = "begin"] /\ portHolder' = "webserial"
        /\ state' = [state EXCEPT !["webserial"] = "connecting"] /\ UNCHANGED <<bridge, sockets>>
    BY <1>2, <1>6, <1>8 DEF Connect
  <2>2. op'[t].at = "port"
    BY <1>5, <2>1 DEF OpState
  <2>3. state'["webserial"] = "connecting" /\ state'["bridge"] = state["bridge"]
    BY <1>5, <2>1, TwoKinds
  <2>4. SerialAt(op[t])'
    BY <1>2, <1>3, <1>8, <2>1, <2>2, <2>3 DEF SerialAt, Claimed, SerialClear, Clear
  <2>5. BridgeClear'
    BY <1>2, <1>3, <2>1, <2>3 DEF BridgeClear, Clear
  <2>6. Alone(t)'
    BY <1>1, <1>3, <1>4, <1>8, <2>4, <2>5, AloneGoes, AloneHas DEF page
  <2>7. NoTimers' /\ OldSockets'
    BY <1>1, <1>3, <2>1, TimersAndSockets
  <2> QED
    BY <2>6, <2>7 DEF Calm
<1> QED
  BY <1>2, <1>7, <1>8

\* The manager begins a session; it is the manager of the operation.
LEMMA BeginCalm ==
  ASSUME Sound, Calm, NEW t \in Ops, Begin(t)
  PROVE  Calm'
<1>1. op[t].at = "begin" /\ NoTimers /\ OldSockets /\ Alone(t)
  BY BusyAlone DEF Begin
<1>2. /\ op[t] \in OpState /\ manager # 0 /\ manager \in 1 .. Len(managers) /\ op[t].do \in Calmly
      /\ managers[manager] \in ManagerState /\ op[t].on = managers[manager].transport
      /\ Len(managers) \in Nat /\ managers[manager].transport \in Kind
  BY <1>1, AloneHas DEF ManagerState
<1>3. UNCHANGED <<page, manager, links, clicks, overlapped>>
  BY DEF Begin
<1> DEFINE h1 == Sent(op[t], "ask")
           h2 == Managed(h1, manager)
           h == Over(h2, managers[manager].transport)
<1>4. Step(t, h) /\ ManagerStep(manager, Tried(manager, 0, FALSE))
  BY <1>2, BeginSound
<1>5. "ask" \in Place /\ manager \in Nat
  BY <1>2 DEF Place, Running
<1>6. h1 \in OpState /\ h1.at = "ask" /\ h1.do = op[t].do
  BY <1>2, <1>5, SentFields
<1> HIDE DEF h1
<1>7. h2 \in OpState /\ h2.at = "ask" /\ h2.do = op[t].do
  BY <1>5, <1>6, ManagedFields
<1> HIDE DEF h2
<1>8. h \in OpState /\ h.at = "ask" /\ h.do = op[t].do /\ h.on = op[t].on
  BY <1>2, <1>7, OverFields
<1> HIDE DEF h
<1>9. op'[t].at = "ask" /\ op'[t].do = op[t].do /\ op'[t].on = op[t].on /\ \A u \in Ops : u # t => op'[u] = op[u]
  BY <1>4, <1>8 DEF Step
<1>10. Tried(manager, 0, FALSE).transport = managers[manager].transport /\ Tried(manager, 0, FALSE).timer = FALSE
  BY DEF Tried
<1>11. managers'[manager'].transport = managers[manager].transport /\ NoTimers'
  BY <1>1, <1>2, <1>3, <1>4, <1>10 DEF ManagerStep, NoTimers
<1>12. OldSockets'
  BY <1>1, <1>3 DEF OldSockets, links
<1>13. BridgeAt(op[t]) => BridgeAt(op[t])'
  BY <1>1, <1>3, <1>9 DEF BridgeAt, Unheld, links
<1>14. SerialAt(op[t]) => SerialAt(op[t])'
  BY <1>1, <1>3, <1>9 DEF SerialAt, Claimed, links
<1>15. (SerialClear => SerialClear') /\ (BridgeClear => BridgeClear')
  BY <1>3 DEF SerialClear, BridgeClear, Clear, links
<1>16. Alone(t)'
  BY <1>1, <1>3, <1>9, <1>11, <1>13, <1>14, <1>15 DEF Alone, page
<1> QED
  BY <1>11, <1>12, <1>16 DEF Calm

\* The transport is asked for a session.
LEMMA AskCalm ==
  ASSUME Sound, Calm, NEW t \in Ops, Ask(t)
  PROVE  Calm'
<1>1. op[t].at = "ask" /\ NoTimers /\ OldSockets /\ Alone(t)
  BY BusyAlone DEF Ask
<1>2. UNCHANGED <<page, managers, manager, portHolder, fatal, serial, clicks, overlapped>>
  BY DEF Ask
<1>3. Moves(t, {"fail", "send", "ack", "socket"})
  BY AskSound
<1>4. op \in [Ops -> OpState] /\ state \in [Kind -> State] /\ op[t].on \in Kind
  BY <1>1, AloneHas DEF Sound, OpsSound, PlainTypes
<1>5. CASE op[t].on = "bridge"
  <2>1. SerialClear /\ Unheld({"open"})
    BY <1>1, <1>5, AloneHas DEF BridgeAt
  <2>2. portHolder # "webserial" /\ WsOpen
    BY <2>1 DEF WsOpen, Unheld, NoOne
  <2>3. Move(t, "send")
    BY <1>5, <2>2 DEF Ask
  <2>4. op'[t].at = "send" /\ UNCHANGED <<bridge, sockets, state>>
    BY <1>4, <2>3 DEF Move, Goto, OpState
  <2>5. BridgeAt(op[t])'
    BY <1>2, <2>1, <2>4 DEF BridgeAt, Unheld
  <2>6. SerialClear'
    BY <1>2, <2>1, <2>4 DEF SerialClear, Clear
  <2>7. Alone(t)'
    BY <1>1, <1>2, <1>3, <1>5, <2>5, <2>6, AloneGoes, AloneHas DEF page
  <2> QED
    BY <1>1, <1>2, <2>4, <2>7, TimersAndSockets DEF Calm
<1>6. CASE op[t].on = "webserial"
  <2>1. BridgeClear /\ Claimed /\ serial = "open"
    BY <1>1, <1>6, AloneHas DEF SerialAt
  <2>2. Goto(t, "ack") /\ state' = [state EXCEPT !["webserial"] = "connecting"] /\ UNCHANGED <<bridge, sockets>>
    BY <1>6, <2>1 DEF Ask, Reading
  <2>3. op'[t].at = "ack"
    BY <1>4, <2>2 DEF Goto, OpState
  <2>4. state'["webserial"] = "connecting" /\ state'["bridge"] = state["bridge"]
    BY <1>4, <2>2, TwoKinds
  <2>5. SerialAt(op[t])'
    BY <1>2, <2>1, <2>3, <2>4 DEF SerialAt, Claimed, Reading
  <2>6. BridgeClear'
    BY <1>2, <2>1, <2>2, <2>4 DEF BridgeClear, Clear
  <2>7. Alone(t)'
    BY <1>1, <1>2, <1>3, <1>6, <2>5, <2>6, AloneGoes, AloneHas DEF page
  <2> QED
    BY <1>1, <1>2, <2>2, <2>7, TimersAndSockets DEF Calm
<1> QED
  BY <1>4, <1>5, <1>6, TwoKinds

\* The bridge client asks for a session and waits.
LEMMA SendCalm ==
  ASSUME Sound, Calm, NEW t \in Ops, Send(t)
  PROVE  Calm'
<1>1. op[t].at = "send" /\ NoTimers /\ OldSockets /\ Alone(t)
  BY BusyAlone DEF Send
<1>2. UNCHANGED <<page, managers, manager, portHolder, fatal, serial, clicks, overlapped>>
  BY DEF Send
<1>3. "start" \in Place
  BY DEF Place, Waiting
<1>4. Moves(t, {"start"})
  BY <1>3, SendSound, SoundMoves
<1>5. op[t].on = "bridge" /\ SerialClear /\ Unheld({"open"})
  BY <1>1, AloneHas DEF BridgeAt, Shape
<1>6. /\ state \in [Kind -> State] /\ bridge \in BridgeState /\ sockets \in [1 .. Sockets -> SocketState]
      /\ NoOne \notin Ops
  BY SessionAssumption DEF Sound, PlainTypes
<1>7. bridge'.ws = bridge.ws /\ bridge'.had = bridge.had /\ bridge'.waiter = t
  <2>1. bridge' = Waited(bridge, t)
    BY DEF Send, Waited
  <2> QED
    BY <1>6, <2>1, WaitedFields
<1>8. bridge.ws \in 1 .. Sockets
  BY <1>5, <1>6, SessionAssumption DEF Unheld, BridgeState
<1>9. sockets'[bridge.ws] = "asked" /\ \A s \in 1 .. Sockets : s # bridge.ws => sockets'[s] = sockets[s]
  BY <1>5, <1>6, <1>8 DEF Send, Unheld
<1>10. state'["bridge"] = "connecting" /\ state'["webserial"] = state["webserial"]
  BY <1>6, TwoKinds DEF Send
<1>11. Unheld({"asked", "closed"})'
  BY <1>2, <1>5, <1>7, <1>9, <1>10 DEF Unheld
<1>12. BridgeAt(op[t])'
  BY <1>4, <1>6, <1>7, <1>11 DEF BridgeAt, Moves
<1>13. SerialClear'
  BY <1>2, <1>5, <1>10 DEF SerialClear, Clear
<1>14. Alone(t)'
  BY <1>1, <1>2, <1>4, <1>5, <1>12, <1>13, AloneGoes, AloneHas DEF page
<1>15. NoTimers' /\ OldSockets'
  BY <1>1, <1>2, <1>7, <1>9 DEF NoTimers, OldSockets
<1> QED
  BY <1>14, <1>15 DEF Calm

\* The port opens, or not.
LEMMA PortOpensCalm ==
  ASSUME Sound, Calm, NEW t \in Ops, PortOpens(t)
  PROVE  Calm'
<1>1. op[t].at = "port" /\ NoTimers /\ OldSockets /\ Alone(t)
  BY BusyAlone DEF PortOpens
<1>2. UNCHANGED <<page, managers, manager, fatal, bridge, sockets, clicks, overlapped>>
  BY DEF PortOpens
<1>3. Moves(t, {"fail", "begin", "ask"})
  BY PortOpensSound
<1>4. /\ op[t].on = "webserial" /\ op[t].do = "connect" /\ op[t].next \in {"begin", "ask"} /\ BridgeClear /\ Claimed
  BY <1>1, AloneHas DEF SerialAt, Shape, Opening, Again2, Calmly
<1>5. op \in [Ops -> OpState] /\ state \in [Kind -> State]
  BY DEF Sound, OpsSound, PlainTypes
<1>6. SerialAt(op[t])' /\ BridgeClear'
  <2>1. CASE serial' = "open" /\ Goto(t, op[t].next) /\ UNCHANGED <<portHolder, state>>
    <3>1. op'[t].at = op[t].next
      BY <1>5, <2>1 DEF Goto, OpState
    <3> QED
      BY <1>2, <1>4, <2>1, <3>1 DEF SerialAt, Claimed, BridgeClear, Clear
  <2>2. CASE /\ Goto(t, "fail") /\ portHolder' = Released("webserial")
             /\ state' = [state EXCEPT !["webserial"] = "disconnected"]
    <3>1. op'[t].at = "fail"
      BY <1>5, <2>2 DEF Goto, OpState
    <3>2. state'["webserial"] = "disconnected" /\ state'["bridge"] = state["bridge"]
      BY <1>5, <2>2, TwoKinds
    <3>3. portHolder' # "bridge"
      BY <1>4, <2>2 DEF Released, Claimed, NoOne
    <3> QED
      BY <1>2, <1>4, <3>1, <3>2, <3>3 DEF SerialAt, Claimed, BridgeClear, Clear
  <2> QED
    BY <1>4, <2>1, <2>2 DEF PortOpens
<1>7. Alone(t)'
  BY <1>1, <1>2, <1>3, <1>4, <1>6, AloneGoes, AloneHas DEF page
<1> QED
  BY <1>1, <1>2, <1>7, TimersAndSockets DEF Calm

\* The answer does not come in time.
LEMMA StartTimeoutCalm ==
  ASSUME Sound, Calm, NEW t \in Ops, StartTimeout(t)
  PROVE  Calm'
<1>1. op[t].at = "start" /\ NoTimers /\ OldSockets /\ Alone(t)
  BY BusyAlone DEF StartTimeout
<1>2. UNCHANGED <<page, managers, manager, portHolder, fatal, serial, sockets, clicks, overlapped>>
  BY DEF StartTimeout
<1>3. "fail" \in Place
  BY DEF Place, Running
<1>4. Moves(t, {"fail"})
  BY <1>3, StartTimeoutSound, SoundMoves
<1>5. op[t].on = "bridge" /\ SerialClear /\ ~bridge.had /\ ~fatal["bridge"]
  BY <1>1, AloneHas DEF BridgeAt, Shape, Unheld
<1>6. bridge \in BridgeState /\ state \in [Kind -> State]
  BY DEF Sound, PlainTypes
<1>7. bridge'.ws = bridge.ws /\ bridge'.had = bridge.had
  <2>1. bridge' = Waited(bridge, NoOne)
    BY DEF StartTimeout, Waited
  <2> QED
    BY <1>6, <2>1, WaitedFields
<1>8. state'["bridge"] = "disconnected" /\ state'["webserial"] = state["webserial"]
  BY <1>6, TwoKinds DEF StartTimeout
<1>9. BridgeAt(op[t])'
  BY <1>2, <1>4, <1>5, <1>7, <1>8 DEF BridgeAt, BridgeEnds, Moves
<1>10. SerialClear'
  BY <1>2, <1>5, <1>8 DEF SerialClear, Clear
<1>11. Alone(t)'
  BY <1>1, <1>2, <1>4, <1>5, <1>9, <1>10, AloneGoes, AloneHas DEF page
<1> QED
  BY <1>1, <1>2, <1>7, <1>11, TimersAndSockets DEF Calm

\* The device answers over Web Serial, or not.
LEMMA AcksCalm ==
  ASSUME Sound, Calm, NEW t \in Ops, Acks(t)
  PROVE  Calm'
<1>1. op[t].at = "ack" /\ NoTimers /\ OldSockets /\ Alone(t)
  BY BusyAlone DEF Acks
<1>2. UNCHANGED <<page, managers, manager, portHolder, bridge, serial, sockets, clicks, overlapped>>
  BY DEF Acks
<1>3. Moves(t, {"succeed", "fail"})
  BY AcksSound
<1>4. op[t].on = "webserial" /\ BridgeClear /\ Claimed /\ serial \in Reading
  BY <1>1, AloneHas DEF SerialAt, Shape
<1>5. op \in [Ops -> OpState] /\ state \in [Kind -> State] /\ fatal \in [Kind -> BOOLEAN]
  BY DEF Sound, OpsSound, PlainTypes
<1>6. SerialAt(op[t])' /\ BridgeClear'
  <2>1. CASE /\ serial = "open" /\ Goto(t, "succeed")
             /\ state' = [state EXCEPT !["webserial"] = "active"]
             /\ fatal' = [fatal EXCEPT !["webserial"] = FALSE]
    <3>1. op'[t].at = "succeed"
      BY <1>5, <2>1 DEF Goto, OpState
    <3>2. /\ state'["webserial"] = "active" /\ state'["bridge"] = state["bridge"]
          /\ ~fatal'["webserial"] /\ fatal'["bridge"] = fatal["bridge"]
      BY <1>5, <2>1, TwoKinds
    <3>3. SerialSession'
      BY <1>2, <1>4, <2>1, <3>2 DEF SerialSession, Claimed
    <3>4. BridgeClear'
      BY <1>2, <1>4, <3>2 DEF BridgeClear, Clear
    <3> QED
      BY <3>1, <3>3, <3>4 DEF SerialAt
  <2>2. CASE Goto(t, "fail") /\ UNCHANGED <<state, fatal>>
    <3>1. op'[t].at = "fail"
      BY <1>5, <2>2 DEF Goto, OpState
    <3> QED
      BY <1>2, <1>4, <2>2, <3>1 DEF SerialAt, Claimed, BridgeClear, Clear
  <2> QED
    BY <2>1, <2>2 DEF Acks
<1>7. Alone(t)'
  BY <1>1, <1>2, <1>3, <1>4, <1>6, AloneGoes, AloneHas DEF page
<1> QED
  BY <1>1, <1>2, <1>7, TimersAndSockets DEF Calm

\* Who waits for a socket, or for an answer over it, is the one that runs, and it is its socket.
LEMMA SocketOwner ==
  ASSUME Sound, Calm, Settled, NEW s \in 1 .. Sockets,
         sockets[s] \in {"connecting", "asked", "askedTwice"}
  PROVE  \E t \in Ops : /\ Alone(t) /\ op[t].on = "bridge" /\ SerialClear /\ s = bridge.ws
                        /\ \/ op[t].at = "socket" /\ op[t].socket = bridge.ws /\ Unheld({"connecting"})
                           \/ op[t].at = "start" /\ bridge.waiter # NoOne /\ Unheld({"asked", "closed"})
<1>1. s = bridge.ws /\ bridge.ws # 0
  BY DEF Calm, OldSockets, Live
<1>2. ~BridgeClear /\ ~BridgeSession
  BY <1>1 DEF BridgeClear, BridgeSession
<1>3. ~Resting
  BY <1>2 DEF Resting, Off, On
<1>4. PICK t \in Ops : Alone(t)
  BY <1>3 DEF Calm
<1>5. op[t].on = "bridge" /\ SerialClear /\ BridgeAt(op[t])
  BY <1>2, <1>4, AloneHas
<1>6. op[t].at \notin Running
  BY DEF Settled
<1>7. \/ op[t].at = "socket" /\ op[t].socket = bridge.ws /\ Unheld({"connecting"})
      \/ op[t].at = "start" /\ bridge.waiter # NoOne /\ Unheld({"asked", "closed"})
  BY <1>5, <1>6 DEF BridgeAt, Running
<1> QED
  BY <1>1, <1>4, <1>5, <1>7

\* A socket opens.
LEMMA SocketOpensCalm ==
  ASSUME Sound, Calm, NEW s \in 1 .. Sockets, SocketOpens(s)
  PROVE  Calm'
<1>1. Settled /\ sockets[s] = "connecting"
  BY DEF SocketOpens
<1>2. PICK t \in Ops : /\ Alone(t) /\ op[t].on = "bridge" /\ SerialClear /\ s = bridge.ws
                       /\ \/ op[t].at = "socket" /\ op[t].socket = bridge.ws /\ Unheld({"connecting"})
                          \/ op[t].at = "start" /\ bridge.waiter # NoOne /\ Unheld({"asked", "closed"})
  BY <1>1, SocketOwner
<1>3. op[t].at = "socket" /\ op[t].socket = s /\ Unheld({"connecting"})
  BY <1>1, <1>2 DEF Unheld
<1>4. UNCHANGED <<page, managers, manager, portHolder, state, fatal, bridge, serial, clicks, overlapped>>
  BY DEF SocketOpens
<1>5. op' = [u \in Ops |-> IF op[u].at = "socket" /\ op[u].socket = s THEN Sent(op[u], op[u].next) ELSE op[u]]
  BY DEF SocketOpens, Sent
<1>6. op[t] \in OpState /\ op[t].next \in {"begin", "ask", "send"}
  BY <1>2, <1>3, AloneHas DEF Shape
<1>7. op[t].next \in Place
  BY <1>6 DEF Place, Running
<1>8. /\ Sent(op[t], op[t].next) \in OpState /\ Sent(op[t], op[t].next).at = op[t].next
      /\ Sent(op[t], op[t].next).do = op[t].do /\ Sent(op[t], op[t].next).manager = op[t].manager
      /\ Sent(op[t], op[t].next).on = op[t].on
  BY <1>6, <1>7, SentFields
<1>9. op'[t] = Sent(op[t], op[t].next) /\ \A u \in Ops : u # t => op'[u] = op[u]
  BY <1>2, <1>3, <1>5 DEF Alone
<1>10. op' \in [Ops -> OpState]
  BY SocketOpensSound DEF Sound, OpsSound
<1>11. Moves(t, {"begin", "ask", "send"})
  BY <1>6, <1>8, <1>9, <1>10 DEF Moves
<1>12. sockets' = [sockets EXCEPT ![s] = "open"] /\ sockets \in [1 .. Sockets -> SocketState]
  BY DEF SocketOpens, Sound, PlainTypes
<1>13. sockets'[bridge.ws] = "open" /\ \A i \in 1 .. Sockets : i # bridge.ws => sockets'[i] = sockets[i]
  BY <1>2, <1>12
<1>14. BridgeAt(op[t])'
  BY <1>3, <1>4, <1>11, <1>13 DEF BridgeAt, Unheld, Moves
<1>15. SerialClear'
  BY <1>2, <1>4 DEF SerialClear, Clear
<1>16. Alone(t)'
  BY <1>2, <1>4, <1>11, <1>14, <1>15, AloneGoes, AloneHas DEF page
<1>17. NoTimers' /\ OldSockets'
  BY <1>4, <1>13 DEF NoTimers, OldSockets, Calm
<1> QED
  BY <1>16, <1>17 DEF Calm

\* The bridge answers that the session has started; it is the answer of the one that waits.
LEMMA StartedMsgCalm ==
  ASSUME Sound, Calm, NEW s \in 1 .. Sockets, StartedMsg(s)
  PROVE  Calm'
<1>1. Settled /\ sockets[s] \in {"asked", "askedTwice"}
  BY DEF StartedMsg
<1>2. PICK t \in Ops : /\ Alone(t) /\ op[t].on = "bridge" /\ SerialClear /\ s = bridge.ws
                       /\ \/ op[t].at = "socket" /\ op[t].socket = bridge.ws /\ Unheld({"connecting"})
                          \/ op[t].at = "start" /\ bridge.waiter # NoOne /\ Unheld({"asked", "closed"})
  BY <1>1, SocketOwner
<1>3. op[t].at = "start" /\ bridge.waiter # NoOne /\ Unheld({"asked", "closed"}) /\ sockets[s] = "asked"
  BY <1>1, <1>2 DEF Unheld
<1>4. UNCHANGED <<page, managers, manager, serial, clicks, overlapped>>
  BY DEF StartedMsg
<1>5. bridge.waiter \in Ops /\ op[bridge.waiter].at = "start"
  BY <1>3 DEF Sound, PlainTypes, BridgeState, OpsSound, Waiter
<1>6. bridge.waiter = t
  BY <1>2, <1>5 DEF Alone
<1>7. "succeed" \in Place
  BY DEF Place, Running
<1>8. Moves(t, {"succeed"})
  BY <1>3, <1>6, <1>7, StartedMsgSound, SoundMoves
<1>9. /\ state \in [Kind -> State] /\ fatal \in [Kind -> BOOLEAN] /\ bridge \in BridgeState
      /\ sockets \in [1 .. Sockets -> SocketState]
  BY DEF Sound, PlainTypes
<1>10. bridge'.ws = bridge.ws /\ bridge'.had = TRUE
  <2>1. bridge' = Answered(bridge)
    BY DEF StartedMsg, Answered
  <2> QED
    BY <1>9, <2>1, BridgePairs
<1>11. sockets'[bridge.ws] = "open" /\ \A i \in 1 .. Sockets : i # bridge.ws => sockets'[i] = sockets[i]
  BY <1>2, <1>3, <1>9 DEF StartedMsg
<1>12. /\ state'["bridge"] = "active" /\ state'["webserial"] = state["webserial"]
       /\ ~fatal'["bridge"] /\ fatal'["webserial"] = fatal["webserial"]
  BY <1>3, <1>9, TwoKinds DEF StartedMsg
<1>13. portHolder' = "bridge"
  BY <1>3 DEF StartedMsg, Unheld
<1>14. BridgeSession'
  BY <1>3, <1>10, <1>11, <1>12, <1>13 DEF BridgeSession, Unheld
<1>15. BridgeAt(op[t])'
  BY <1>8, <1>14 DEF BridgeAt, Moves
<1>16. SerialClear'
  BY <1>2, <1>4, <1>12, <1>13 DEF SerialClear, Clear
<1>17. Alone(t)'
  BY <1>2, <1>4, <1>8, <1>15, <1>16, AloneGoes, AloneHas DEF page
<1>18. NoTimers' /\ OldSockets'
  BY <1>4, <1>10, <1>11 DEF NoTimers, OldSockets, Calm
<1> QED
  BY <1>17, <1>18 DEF Calm

\* The loss of the link of the current session changes the state of its transport only.
LEMMA LinkLossCalm ==
  ASSUME NEW after, HandleLinkLoss(after), manager # 0 => after[managers[manager].transport] # "active"
  PROVE  state' = after /\ NoChange /\ managers' = managers
BY DEF HandleLinkLoss

\* What a closed socket does to the links.
LEMMA SocketClosesLinks ==
  ASSUME Sound, Calm, ~overlapped', NEW s \in 1 .. Sockets, SocketCloses(s)
  PROVE  /\ UNCHANGED <<unit, adapter, managers, manager, portHolder, fatal, serial>>
         /\ bridge.had => s = bridge.ws
         /\ bridge'.ws = bridge.ws /\ bridge'.had = FALSE /\ bridge'.waiter = bridge.waiter
         /\ sockets[s] # "closed" /\ sockets'[s] = "closed"
         /\ \A i \in 1 .. Sockets : i # s => sockets'[i] = sockets[i]
         /\ state'["webserial"] = state["webserial"]
         /\ ~fatal["bridge"] => state'["bridge"] = IF bridge.had THEN "degraded" ELSE "disconnected"
         /\ state'["bridge"] \in {state["bridge"], "degraded", "disconnected"}
<1>1. /\ state \in [Kind -> State] /\ sockets \in [1 .. Sockets -> SocketState] /\ bridge \in BridgeState
      /\ overlapped \in BOOLEAN
  BY DEF Sound, PlainTypes
<1>2. UNCHANGED <<manager, portHolder, fatal, serial>> /\ (bridge.had => s = bridge.ws)
  BY <1>1 DEF SocketCloses
<1>3. bridge'.ws = bridge.ws /\ bridge'.had = FALSE /\ bridge'.waiter = bridge.waiter
  <2>1. bridge' = Ended(bridge)
    BY DEF SocketCloses, Ended
  <2> QED
    BY <1>1, <2>1, EndedFields
<1>4. sockets[s] # "closed" /\ sockets'[s] = "closed" /\ \A i \in 1 .. Sockets : i # s => sockets'[i] = sockets[i]
  BY <1>1 DEF SocketCloses
<1>5. bridge.had /\ manager # 0 => managers[manager].transport = "bridge"
  <2>1. bridge.had => ~BridgeClear
    BY DEF BridgeClear
  <2>2. ASSUME NEW t \in Ops, Alone(t), ~BridgeClear
        PROVE  managers[manager].transport = "bridge"
    BY <2>2, AloneHas
  <2> QED
    BY <2>1, <2>2 DEF Calm, Resting, On
<1>6. CASE bridge.had /\ ~fatal["bridge"]
  <2>1. HandleLinkLoss([state EXCEPT !["bridge"] = "degraded"])
    BY <1>6 DEF SocketCloses
  <2>2. /\ [state EXCEPT !["bridge"] = "degraded"]["bridge"] = "degraded"
        /\ [state EXCEPT !["bridge"] = "degraded"]["webserial"] = state["webserial"]
    BY <1>1, TwoKinds
  <2>3. state' = [state EXCEPT !["bridge"] = "degraded"] /\ NoChange /\ managers' = managers
    BY <1>5, <1>6, <2>1, <2>2, LinkLossCalm
  <2> QED
    BY <1>2, <1>3, <1>4, <1>6, <2>2, <2>3 DEF NoChange
<1>7. CASE ~(bridge.had /\ ~fatal["bridge"])
  <2>1. /\ state' = IF fatal["bridge"] THEN state ELSE [state EXCEPT !["bridge"] = "disconnected"]
        /\ NoChange /\ managers' = managers
    BY <1>7 DEF SocketCloses
  <2>2. /\ state'["webserial"] = state["webserial"]
        /\ state'["bridge"] = IF fatal["bridge"] THEN state["bridge"] ELSE "disconnected"
    BY <1>1, <2>1, TwoKinds
  <2> QED
    BY <1>2, <1>3, <1>4, <1>7, <2>1, <2>2 DEF NoChange
<1> QED
  BY <1>6, <1>7

\* A socket closes.
LEMMA SocketClosesCalm ==
  ASSUME Sound, Calm, ~overlapped', NEW s \in 1 .. Sockets, SocketCloses(s)
  PROVE  Calm'
<1>1. /\ UNCHANGED <<unit, adapter, managers, manager, portHolder, fatal, serial>>
      /\ bridge.had => s = bridge.ws
      /\ bridge'.ws = bridge.ws /\ bridge'.had = FALSE /\ bridge'.waiter = bridge.waiter
      /\ sockets[s] # "closed" /\ sockets'[s] = "closed"
      /\ \A i \in 1 .. Sockets : i # s => sockets'[i] = sockets[i]
      /\ state'["webserial"] = state["webserial"]
      /\ ~fatal["bridge"] => state'["bridge"] = IF bridge.had THEN "degraded" ELSE "disconnected"
      /\ state'["bridge"] \in {state["bridge"], "degraded", "disconnected"}
  BY SocketClosesLinks
<1>2. /\ bridge.had \in BOOLEAN /\ bridge.ws \in 0 .. Sockets
  BY DEF Sound, PlainTypes, BridgeState
<1>3. NoTimers' /\ OldSockets'
  BY <1>1 DEF Calm, NoTimers, OldSockets, Live
<1>4. BridgeClear => BridgeClear'
  BY <1>1 DEF BridgeClear, Clear
<1>5. SerialClear => SerialClear'
  BY <1>1 DEF SerialClear, Clear
<1>6. BridgeSession => BridgeSession'
  <2> SUFFICES ASSUME BridgeSession
               PROVE  BridgeSession'
    OBVIOUS
  <2>1. bridge.ws \in 1 .. Sockets
    BY <1>2, SessionAssumption DEF BridgeSession
  <2>2. sockets'[bridge.ws] = "closed"
    BY <1>1, <1>2, <2>1 DEF BridgeSession
  <2>3. state'["bridge"] \in {"degraded", "disconnected"}
    BY <1>1 DEF BridgeSession
  <2> QED
    BY <1>1, <2>2, <2>3 DEF BridgeSession
<1>7. op' = [u \in Ops |-> IF op[u].at = "socket" /\ op[u].socket = s THEN Sent(op[u], "fail") ELSE op[u]]
  BY DEF SocketCloses, Sent
<1>8. CASE Resting
  <2>1. \A u \in Ops : op'[u].at = "idle"
    BY <1>7, <1>8 DEF Resting
  <2>2. Resting'
    BY <1>1, <1>4, <1>5, <1>6, <1>8, <2>1 DEF Resting, Off, On, SerialSession
  <2> QED
    BY <1>3, <2>2 DEF Calm
<1>9. ASSUME NEW t \in Ops, Alone(t)
      PROVE  Alone(t)'
  <2>1. \A u \in Ops : u # t => op'[u] = op[u]
    BY <1>7, <1>9 DEF Alone
  <2>2. op' \in [Ops -> OpState]
    BY SocketClosesSound DEF Sound, OpsSound
  <2>3. op[t].at \notin Running
    BY DEF SocketCloses, Settled
  <2>4. CASE op[t].on = "bridge" /\ op[t].at = "socket" /\ op[t].socket = s
    <3>1. "fail" \in Place
      BY DEF Place, Running
    <3>2. Sent(op[t], "fail").at = "fail" /\ Sent(op[t], "fail").do = op[t].do /\ Sent(op[t], "fail").on = op[t].on
          /\ Sent(op[t], "fail").manager = op[t].manager
      BY <1>9, <3>1, AloneHas, SentFields
    <3>3. op'[t] = Sent(op[t], "fail")
      BY <1>7, <2>4
    <3>4. Moves(t, {"fail"})
      BY <2>1, <2>2, <3>2, <3>3 DEF Moves
    <3>5. ~bridge.had /\ ~fatal["bridge"] /\ SerialClear
      BY <1>9, <2>4, AloneHas DEF BridgeAt, Unheld
    <3>6. BridgeAt(op[t])'
      BY <1>1, <3>4, <3>5 DEF BridgeAt, BridgeEnds, Moves
    <3> QED
      BY <1>1, <1>5, <1>9, <2>4, <3>4, <3>5, <3>6, AloneGoes, AloneHas
  <2>5. CASE ~(op[t].on = "bridge" /\ op[t].at = "socket" /\ op[t].socket = s)
    <3>1. op'[t] = op[t]
      BY <1>7, <1>9, <2>5, AloneHas DEF Shape
    <3>2. Moves(t, {op[t].at}) /\ "idle" \notin {op[t].at}
      BY <1>9, <2>1, <2>2, <3>1 DEF Moves, Alone
    <3>3. ASSUME op[t].on = "bridge"
          PROVE  SerialClear' /\ BridgeAt(op[t])'
      <4>1. SerialClear /\ BridgeAt(op[t])
        BY <1>9, <3>3, AloneHas
      <4>2. \/ op[t].at = "socket" /\ op[t].socket = bridge.ws /\ Unheld({"connecting"})
            \/ op[t].at = "start" /\ bridge.waiter # NoOne /\ Unheld({"asked", "closed"})
        BY <2>3, <4>1 DEF BridgeAt, Running
      <4>3. bridge.ws \in 1 .. Sockets
        BY <1>2, <4>2, SessionAssumption DEF Unheld
      <4>4. CASE op[t].at = "socket" /\ op[t].socket = bridge.ws /\ Unheld({"connecting"})
        <5>1. s # bridge.ws
          BY <2>5, <3>3, <4>4
        <5>2. Unheld({"connecting"})'
          BY <1>1, <4>3, <4>4, <5>1 DEF Unheld
        <5> QED
          BY <1>1, <1>5, <3>1, <4>1, <4>4, <5>2 DEF BridgeAt
      <4>5. CASE op[t].at = "start" /\ bridge.waiter # NoOne /\ Unheld({"asked", "closed"})
        <5>1. Unheld({"asked", "closed"})'
          BY <1>1, <4>3, <4>5 DEF Unheld
        <5> QED
          BY <1>1, <1>5, <3>1, <4>1, <4>5, <5>1 DEF BridgeAt
      <4> QED
        BY <4>2, <4>4, <4>5
    <3>4. ASSUME op[t].on # "bridge"
          PROVE  BridgeClear' /\ SerialAt(op[t])'
      <4>1. BridgeClear /\ SerialAt(op[t])
        BY <1>9, <3>4, AloneHas
      <4> QED
        BY <1>1, <1>4, <3>1, <4>1 DEF SerialAt, Claimed, SerialSession, SerialClear, Clear
    <3> QED
      BY <1>1, <1>9, <3>2, <3>3, <3>4, AloneGoes, AloneHas
  <2> QED
    BY <2>4, <2>5
<1> QED
  BY <1>3, <1>8, <1>9 DEF Calm

\* The Web Serial link is lost.
LEMMA SerialLinkLossCalm ==
  ASSUME Sound, Calm, SerialLinkLoss
  PROVE  Calm'
<1>1. UNCHANGED <<manager, portHolder, fatal, bridge, sockets, op>> /\ serial = "open" /\ serial' \in {"open", "lost"}
  BY DEF SerialLinkLoss
<1>2. state \in [Kind -> State]
  BY DEF Sound, PlainTypes
<1>3. ~SerialClear
  BY <1>1 DEF SerialClear
<1>4. manager # 0 => managers[manager].transport # "bridge"
  <2>1. ASSUME NEW t \in Ops, Alone(t)
        PROVE  managers[manager].transport # "bridge"
    BY <1>3, <2>1, AloneHas
  <2> QED
    BY <1>3, <2>1 DEF Calm, Resting, On
<1>5. manager # 0 => managers[manager].transport = "webserial"
  <2>1. ASSUME manager # 0
        PROVE  managers[manager].transport \in Kind
    <3>1. manager \in 1 .. Len(managers)
      BY <2>1 DEF Sound, PlainTypes
    <3>2. managers[manager] \in ManagerState
      BY <3>1, ElementOfSeq DEF Sound, PlainTypes
    <3> QED
      BY <3>2 DEF ManagerState
  <2> QED
    BY <1>4, <2>1, TwoKinds
<1>6. /\ state'["bridge"] = state["bridge"] /\ UNCHANGED <<unit, adapter, managers>>
      /\ \/ state["webserial"] = "active" /\ state'["webserial"] = "degraded"
         \/ state["webserial"] # "active" /\ state'["webserial"] = state["webserial"]
         \/ fatal["webserial"] /\ state'["webserial"] = state["webserial"]
  <2>1. CASE state["webserial"] = "active" /\ ~fatal["webserial"]
    <3>1. HandleLinkLoss([state EXCEPT !["webserial"] = "degraded"])
      BY <2>1 DEF SerialLinkLoss
    <3>2. /\ [state EXCEPT !["webserial"] = "degraded"]["webserial"] = "degraded"
          /\ [state EXCEPT !["webserial"] = "degraded"]["bridge"] = state["bridge"]
      BY <1>2, TwoKinds
    <3>3. state' = [state EXCEPT !["webserial"] = "degraded"] /\ NoChange /\ managers' = managers
      BY <1>5, <3>1, <3>2, LinkLossCalm
    <3> QED
      BY <2>1, <3>2, <3>3 DEF NoChange
  <2>2. CASE ~(state["webserial"] = "active" /\ ~fatal["webserial"])
    <3>1. NoChange /\ UNCHANGED <<managers, state>>
      BY <2>2 DEF SerialLinkLoss
    <3> QED
      BY <2>2, <3>1 DEF NoChange
  <2> QED
    BY <2>1, <2>2
<1>7. SerialSession => SerialSession'
  <2>1. state["webserial"] # "active" => serial' = "lost"
    BY DEF SerialLinkLoss
  <2> QED
    BY <1>1, <1>6, <2>1 DEF SerialSession
<1>8. BridgeClear => BridgeClear'
  BY <1>1, <1>6 DEF BridgeClear, Clear
<1>9. NoTimers' /\ OldSockets'
  BY <1>1, <1>6, TimersAndSockets DEF Calm
<1>10. CASE Resting
  <2>1. manager # 0
    BY <1>3, <1>10 DEF Resting, Off
  <2>2. Resting'
    BY <1>1, <1>4, <1>6, <1>7, <1>8, <1>10, <2>1 DEF Resting, On
  <2> QED
    BY <1>9, <2>2 DEF Calm
<1>11. ASSUME NEW t \in Ops, Alone(t)
       PROVE  Alone(t)'
  <2>1. op[t].on # "bridge" /\ BridgeClear /\ SerialAt(op[t])
    BY <1>3, <1>11, AloneHas
  <2>2. op[t].at \notin Running
    BY DEF SerialLinkLoss, Settled
  <2>3. op[t].at \notin {"begin", "ask", "connect", "left", "succeed", "stop", "fail", "stopped", "leave"}
    BY <2>2 DEF Running
  <2>4. SerialAt(op[t])'
    <3>1. CASE op[t].at = "exit" /\ SerialSession
      BY <1>1, <1>7, <3>1 DEF SerialAt
    <3>2. CASE op[t].at \in {"port", "ack"} /\ Claimed
      BY <1>1, <1>6, <3>2 DEF SerialAt, Claimed, Reading
    <3>3. CASE op[t].at = "gone" /\ state["webserial"] # "active"
      BY <1>1, <1>6, <3>3 DEF SerialAt
    <3> QED
      BY <2>1, <2>3, <3>1, <3>2, <3>3 DEF SerialAt
  <2> QED
    BY <1>1, <1>6, <1>8, <1>11, <2>1, <2>4 DEF Alone
<1> QED
  BY <1>9, <1>10, <1>11 DEF Calm

\* The device of a port that was left open is pulled out: no operation and no session has it.
LEMMA HeldPortPulledCalm ==
  ASSUME Sound, Calm, HeldPortPulled
  PROVE  Calm'
<1>1. /\ UNCHANGED <<page, managers, manager, portHolder, state, fatal, bridge, sockets, op>>
      /\ serial \in {"held", "locked"} /\ serial' = IF serial = "held" THEN "none" ELSE "closed"
  BY DEF HeldPortPulled
<1>2. NoTimers' /\ OldSockets'
  BY <1>1 DEF Calm, NoTimers, OldSockets
<1>3. (SerialClear => SerialClear') /\ ~SerialSession
  BY <1>1 DEF SerialClear, Clear, SerialSession
<1>4. (BridgeClear => BridgeClear') /\ (BridgeSession => BridgeSession')
  BY <1>1 DEF BridgeClear, Clear, BridgeSession
<1>5. Resting => Resting'
  BY <1>1, <1>3, <1>4 DEF Resting, Off, On, page
<1>6. ASSUME NEW t \in Ops, Alone(t)
      PROVE  Alone(t)'
  <2>1. BridgeAt(op[t]) => BridgeAt(op[t])'
    BY <1>1, <1>4 DEF BridgeAt, Unheld, BridgeEnds
  <2>2. SerialAt(op[t]) => SerialAt(op[t])'
    BY <1>1, <1>3 DEF SerialAt, Claimed, Reading
  <2> QED
    BY <1>1, <1>3, <1>4, <1>6, <2>1, <2>2 DEF Alone, page
<1> QED
  BY <1>2, <1>5, <1>6 DEF Calm

\* The session of the one operation is active; the device is of the wanted kind, or not.
LEMMA SucceedCalm ==
  ASSUME Sound, Calm, NEW t \in Ops, Succeed(t)
  PROVE  Calm'
<1>1. op[t].at = "succeed" /\ NoTimers /\ OldSockets /\ Alone(t)
  BY BusyAlone DEF Succeed
<1>2. /\ op[t] \in OpState /\ op[t].do = "connect" /\ manager # 0
      /\ op[t].on = managers[manager].transport /\ adapter.timer = FALSE
      /\ op[t].on = "bridge" => SerialClear /\ BridgeSession
      /\ op[t].on # "bridge" => op[t].on = "webserial" /\ BridgeClear /\ SerialSession
  BY <1>1, AloneHas DEF BridgeAt, SerialAt, Shape, Opening, Again2, Calmly
<1>3. UNCHANGED <<activeTransport, manager, links, clicks, overlapped>>
  BY DEF Succeed
<1>4. \/ OnStateChange("active") /\ Step(t, Idle) /\ managers' = managers
      \/ Step(t, Doing(Sent(op[t], "stop"), "mismatch")) /\ NoChange /\ managers' = managers
  BY <1>2, SucceedSound
<1>5. NoTimers' /\ OldSockets'
  BY <1>1, <1>3, <1>4 DEF NoTimers, OldSockets, links
<1>6. /\ SerialClear => SerialClear'
      /\ BridgeClear => BridgeClear'
      /\ BridgeSession => BridgeSession'
      /\ SerialSession => SerialSession'
  BY <1>3 DEF SerialClear, BridgeClear, Clear, BridgeSession, SerialSession, links
<1>7. CASE OnStateChange("active") /\ Step(t, Idle) /\ managers' = managers
  <2>1. \A u \in Ops : op'[u].at = "idle"
    BY <1>1, <1>7, IdleFields DEF Step, Alone
  <2>2. "active" \in State
    BY DEF State
  <2>3. unit'.connected /\ ~unit'.degraded /\ adapter'.timer
    BY <1>7, <2>2, PageTyped DEF Sound, PlainTypes
  <2>4. /\ unit' \in [connected : BOOLEAN, degraded : BOOLEAN, kind : Kind]
        /\ adapter' \in [connected : BOOLEAN, timer : BOOLEAN]
    BY <1>7, <2>2, PageTyped DEF Sound, PlainTypes
  <2>5. unit'.connected = TRUE /\ unit'.degraded = FALSE /\ adapter'.timer = TRUE
    BY <2>3, <2>4
  <2>6. On'
    BY <1>2, <1>3, <1>6, <1>7, <2>5 DEF On
  <2>7. Resting'
    BY <1>2, <1>3, <2>1, <2>6 DEF Resting
  <2> QED
    BY <1>5, <2>7 DEF Calm
<1>8. CASE Step(t, Doing(Sent(op[t], "stop"), "mismatch")) /\ NoChange /\ managers' = managers
  <2> DEFINE h1 == Sent(op[t], "stop")
             h == Doing(h1, "mismatch")
  <2>1. "stop" \in Place /\ "mismatch" \in Task
    BY DEF Place, Running, Task
  <2>2. h1 \in OpState /\ h1.at = "stop" /\ h1.on = op[t].on
    BY <1>2, <2>1, SentFields
  <2>3. Step(t, h)
    BY <1>8
  <2> HIDE DEF h1
  <2>4. h.at = "stop" /\ h.do = "mismatch" /\ h.on = op[t].on
    BY <2>1, <2>2, DoingFields
  <2> HIDE DEF h
  <2>5. /\ op'[t].at = "stop" /\ op'[t].do = "mismatch" /\ op'[t].on = op[t].on
        /\ \A u \in Ops : u # t => op'[u] = op[u]
    BY <2>3, <2>4 DEF Step
  <2>6. adapter' = adapter
    BY <1>8 DEF NoChange
  <2>7. op[t].on = "bridge" => SerialClear' /\ BridgeAt(op[t])'
    BY <1>2, <1>6, <2>5 DEF BridgeAt
  <2>8. op[t].on # "bridge" => BridgeClear' /\ SerialAt(op[t])'
    BY <1>2, <1>6, <2>5 DEF SerialAt
  <2>9. Alone(t)'
    BY <1>1, <1>2, <1>3, <1>8, <2>5, <2>6, <2>7, <2>8 DEF Alone, Calmly
  <2> QED
    BY <1>5, <2>9 DEF Calm
<1> QED
  BY <1>4, <1>7, <1>8

\* stopSession of the transport.
LEMMA StopCalm ==
  ASSUME Sound, Calm, NEW t \in Ops, Stop(t)
  PROVE  Calm'
<1>1. op[t].at = "stop" /\ NoTimers /\ OldSockets /\ Alone(t)
  BY BusyAlone DEF Stop
<1>2. /\ op[t] \in OpState /\ op[t].on \in Kind
      /\ op[t].on = "bridge" => SerialClear /\ BridgeSession
      /\ op[t].on # "bridge" => op[t].on = "webserial" /\ BridgeClear /\ SerialSession
  BY <1>1, AloneHas DEF BridgeAt, SerialAt
<1>3. UNCHANGED <<page, managers, manager, clicks, overlapped, fatal, serial, sockets>>
  BY DEF Stop, links
<1>4. Moves(t, {"exit", "stopped"})
  BY StopSound
<1>5. op \in [Ops -> OpState] /\ state \in [Kind -> State] /\ bridge \in BridgeState
  BY DEF Sound, OpsSound, PlainTypes
<1>6. bridge'.ws = bridge.ws
  <2>1. bridge' = bridge \/ bridge' = Ended(bridge)
    BY DEF Stop, Ended, links
  <2> QED
    BY <1>5, <2>1, EndedFields
<1>7. CASE op[t].on = "bridge" /\ WsOpen
  <2>1. /\ bridge' = [bridge EXCEPT !.had = FALSE] /\ portHolder' = Released("bridge")
        /\ state' = [state EXCEPT !["bridge"] = IF @ \in Active THEN "disconnected" ELSE @]
        /\ Goto(t, "stopped")
    BY <1>7 DEF Stop
  <2>2. op'[t].at = "stopped"
    BY <1>5, <2>1 DEF Goto, OpState
  <2>3. bridge'.had = FALSE
    <3>1. bridge' = Ended(bridge)
      BY <2>1 DEF Ended
    <3> QED
      BY <1>5, <3>1, EndedFields
  <2>4. state'["bridge"] \in {"disconnected", "degraded"} /\ state'["webserial"] = state["webserial"]
    BY <1>2, <1>5, <1>7, <2>1, TwoKinds DEF BridgeSession, Active
  <2>5. BridgeAt(op[t])'
    BY <1>2, <1>3, <1>7, <2>2, <2>3, <2>4 DEF BridgeAt, BridgeEnds, BridgeSession
  <2>6. portHolder' = NoOne
    BY <1>2, <1>7, <2>1 DEF Released, BridgeSession
  <2>7. SerialClear'
    BY <1>2, <1>3, <1>7, <2>4, <2>6 DEF SerialClear, Clear, NoOne
  <2>8. Alone(t)'
    BY <1>1, <1>3, <1>4, <1>7, <2>5, <2>7, AloneGoes, AloneHas DEF page
  <2> QED
    BY <1>1, <1>3, <1>6, <2>8, TimersAndSockets DEF Calm
<1>8. CASE op[t].on = "bridge" /\ ~WsOpen
  <2>1. Goto(t, "stopped") /\ UNCHANGED links
    BY <1>8 DEF Stop
  <2>2. op'[t].at = "stopped"
    BY <1>5, <2>1 DEF Goto, OpState
  <2>3. ~bridge.had /\ state["bridge"] \in {"disconnected", "degraded"}
    BY <1>2, <1>8 DEF BridgeSession, WsOpen
  <2>4. BridgeAt(op[t])'
    BY <1>2, <1>8, <2>1, <2>2, <2>3 DEF BridgeAt, BridgeEnds, BridgeSession, links
  <2>5. SerialClear'
    BY <1>2, <1>8, <2>1 DEF SerialClear, Clear, links
  <2>6. Alone(t)'
    BY <1>1, <1>3, <1>4, <1>8, <2>4, <2>5, AloneGoes, AloneHas DEF page
  <2> QED
    BY <1>1, <1>3, <1>6, <2>6, TimersAndSockets DEF Calm
<1>9. CASE op[t].on = "webserial"
  <2>1. Goto(t, "exit") /\ UNCHANGED links
    BY <1>2, <1>9 DEF Stop, SerialSession, Reading
  <2>2. op'[t].at = "exit"
    BY <1>5, <2>1 DEF Goto, OpState
  <2>3. SerialAt(op[t])'
    BY <1>2, <1>9, <2>1, <2>2 DEF SerialAt, SerialSession, links
  <2>4. BridgeClear'
    BY <1>2, <1>9, <2>1 DEF BridgeClear, Clear, links
  <2>5. Alone(t)'
    BY <1>1, <1>3, <1>4, <1>9, <2>3, <2>4, AloneGoes, AloneHas DEF page
  <2> QED
    BY <1>1, <1>3, <1>6, <2>5, TimersAndSockets DEF Calm
<1> QED
  BY <1>2, <1>7, <1>8, <1>9, TwoKinds

\* EXIT_USB is answered, or not.
LEMMA ExitedCalm ==
  ASSUME Sound, Calm, NEW t \in Ops, Exited(t)
  PROVE  Calm'
<1>1. op[t].at = "exit" /\ NoTimers /\ OldSockets /\ Alone(t)
  BY BusyAlone DEF Exited
<1>2. op[t].on = "webserial" /\ BridgeClear /\ SerialSession
  BY <1>1, AloneHas DEF SerialAt, Shape
<1>3. UNCHANGED <<page, managers, manager, portHolder, fatal, bridge, serial, sockets, clicks, overlapped>>
  BY DEF Exited
<1>4. "stopped" \in Place
  BY DEF Place, Running
<1>5. Moves(t, {"stopped"})
  BY <1>4, ExitedSound, SoundMoves
<1>6. state \in [Kind -> State]
  BY DEF Sound, PlainTypes
<1>7. state'["webserial"] \in {"degraded", "disconnected"} /\ state'["bridge"] = state["bridge"]
  BY <1>2, <1>6, TwoKinds DEF Exited, SerialSession, Active
<1>8. SerialAt(op[t])'
  BY <1>2, <1>3, <1>5, <1>7 DEF SerialAt, SerialSession, Moves
<1>9. BridgeClear'
  BY <1>2, <1>3, <1>7 DEF BridgeClear, Clear
<1>10. Alone(t)'
  BY <1>1, <1>2, <1>3, <1>5, <1>8, <1>9, AloneGoes, AloneHas DEF page
<1> QED
  BY <1>1, <1>3, <1>10, TimersAndSockets DEF Calm

\* After stopSession.
LEMMA StoppedCalm ==
  ASSUME Sound, Calm, NEW t \in Ops, Stopped(t)
  PROVE  Calm'
<1>1. op[t].at = "stopped" /\ NoTimers /\ OldSockets /\ Alone(t)
  BY BusyAlone DEF Stopped
<1>2. /\ op[t] \in OpState /\ op[t].on \in Kind /\ adapter.timer = FALSE
      /\ op[t].on = "bridge" => SerialClear /\ BridgeEnds
      /\ op[t].on # "bridge" => /\ op[t].on = "webserial" /\ BridgeClear
                                /\ state["webserial"] \notin {"active", "connecting"}
  BY <1>1, AloneHas DEF BridgeAt, SerialAt
<1>3. UNCHANGED <<activeTransport, managers, manager, serial, sockets, clicks, overlapped>>
  BY DEF Stopped
<1>4. "leave" \in Place
  BY DEF Place, Running
<1>5. Moves(t, {"leave"})
  BY <1>4, StoppedSound, SoundMoves
<1>6. /\ state \in [Kind -> State] /\ fatal \in [Kind -> BOOLEAN] /\ bridge \in BridgeState
      /\ portHolder \in Kind \cup {NoOne}
  BY DEF Sound, PlainTypes
<1>7. adapter'.timer = FALSE
  <2>1. CASE op[t].do \in Mismatch
    BY <2>1 DEF Stopped
  <2>2. CASE op[t].do \notin Mismatch
    <3>1. OnStateChange(state[op[t].on]) /\ state[op[t].on] \in State
      BY <1>2, <1>6, <2>2 DEF Stopped
    <3>2. state[op[t].on] # "active"
      BY <1>2, TwoKinds DEF BridgeEnds
    <3>3. adapter'.timer = adapter.timer
      BY <3>1, <3>2, PageTyped DEF Sound, PlainTypes
    <3> QED
      BY <1>2, <3>3
  <2> QED
    BY <2>1, <2>2
<1>8. /\ bridge'.ws = bridge.ws /\ bridge'.waiter = bridge.waiter
      /\ ~bridge.had => ~bridge'.had
  <2>1. bridge' = bridge \/ bridge' = Ended(bridge)
    BY DEF Stopped, Ended
  <2> QED
    BY <1>6, <2>1, EndedFields
<1>9. \/ UNCHANGED <<state, fatal, portHolder>>
      \/ /\ state' = [state EXCEPT ![op[t].on] = "disconnected"]
         /\ fatal' = [fatal EXCEPT ![op[t].on] = TRUE]
         /\ portHolder' = IF op[t].on = "bridge" THEN Released("bridge") ELSE portHolder
  BY DEF Stopped
<1>10. CASE op[t].on = "bridge"
  <2>1. state'["bridge"] \in {state["bridge"], "disconnected"} /\ state'["webserial"] = state["webserial"]
    BY <1>6, <1>9, <1>10, TwoKinds
  <2>2. fatal'["webserial"] = fatal["webserial"]
    BY <1>6, <1>9, <1>10, TwoKinds
  <2>3. portHolder # "webserial" => portHolder' # "webserial"
    BY <1>9 DEF Released, NoOne
  <2>4. BridgeAt(op[t])'
    BY <1>2, <1>5, <1>8, <1>10, <2>1 DEF BridgeAt, BridgeEnds, Moves
  <2>5. SerialClear'
    BY <1>2, <1>3, <1>10, <2>1, <2>2, <2>3 DEF SerialClear, Clear
  <2> QED
    BY <1>1, <1>3, <1>5, <1>7, <1>8, <1>10, <2>4, <2>5, AloneGoes, TimersAndSockets DEF Calm
<1>11. CASE op[t].on = "webserial"
  <2>1. state'["webserial"] \in {state["webserial"], "disconnected"} /\ state'["bridge"] = state["bridge"]
    BY <1>6, <1>9, <1>11, TwoKinds
  <2>2. fatal'["bridge"] = fatal["bridge"] /\ portHolder' = portHolder
    BY <1>6, <1>9, <1>11, TwoKinds
  <2>3. SerialAt(op[t])'
    BY <1>2, <1>5, <1>11, <2>1 DEF SerialAt, Moves
  <2>4. BridgeClear'
    BY <1>2, <1>8, <1>11, <2>1, <2>2 DEF BridgeClear, Clear
  <2> QED
    BY <1>1, <1>3, <1>5, <1>7, <1>8, <1>11, <2>3, <2>4, AloneGoes, TimersAndSockets DEF Calm
<1> QED
  BY <1>2, <1>10, <1>11, TwoKinds

\* cancelAutoRetry leaves no timer.
LEMMA CancelCalm ==
  ASSUME Sound, NoTimers, manager \in 1 .. Len(managers),
         ManagerStep(manager, Tried(manager, 0, FALSE))
  PROVE  NoTimers' /\ managers'[manager].transport = managers[manager].transport
<1>1. Tried(manager, 0, FALSE).timer = FALSE /\ Tried(manager, 0, FALSE).transport = managers[manager].transport
  BY DEF Tried
<1> QED
  BY <1>1 DEF ManagerStep, NoTimers

\* disconnect of the bridge client: its socket is closed, and it forgets everything.
LEMMA LeaveBridgeCalm ==
  ASSUME Sound, NEW t \in Ops, Alone(t), op[t].at = "leave", OldSockets, Gone("bridge"),
         bridge' = Dropped(bridge), op'[t].at = "left",
         sockets' = IF bridge.ws = 0 \/ sockets[bridge.ws] = "closed" THEN sockets
                    ELSE [sockets EXCEPT ![bridge.ws] = "closing"]
  PROVE  OldSockets' /\ BridgeClear' /\ BridgeAt(op[t])'
<1>1. /\ bridge \in BridgeState /\ sockets \in [1 .. Sockets -> SocketState]
  BY DEF Sound, PlainTypes
<1>2. bridge'.ws = 0 /\ bridge'.had = FALSE /\ bridge'.waiter = bridge.waiter
  BY <1>1, BridgePairs
<1>3. bridge.waiter = NoOne
  <2>1. bridge.waiter # NoOne => bridge.waiter \in Ops /\ op[bridge.waiter].at = "start"
    BY <1>1 DEF Sound, OpsSound, Waiter, BridgeState
  <2> QED
    BY <2>1 DEF Alone
<1>4. portHolder' # "bridge" /\ state'["bridge"] = "disconnected" /\ ~fatal'["bridge"]
  BY GoneTyped, TwoKinds DEF Sound
<1>5. BridgeClear'
  BY <1>2, <1>3, <1>4 DEF BridgeClear, Clear
<1>6. \A s \in 1 .. Sockets : sockets'[s] \notin Live
  <2> TAKE s \in 1 .. Sockets
  <2>1. CASE s # bridge.ws
    <3>1. sockets[s] \notin Live
      BY <2>1 DEF OldSockets
    <3>2. sockets'[s] = sockets[s]
      BY <1>1, <2>1
    <3> QED
      BY <3>1, <3>2
  <2>2. CASE s = bridge.ws /\ sockets[s] = "closed"
    BY <2>2 DEF Live
  <2>3. CASE s = bridge.ws /\ sockets[s] # "closed"
    <3>1. bridge.ws # 0
      BY <2>3, SessionAssumption
    <3>2. sockets'[s] = "closing"
      BY <1>1, <2>3, <3>1
    <3> QED
      BY <3>2 DEF Live
  <2> QED
    BY <2>1, <2>2, <2>3
<1>7. OldSockets'
  BY <1>6 DEF OldSockets
<1> QED
  BY <1>5, <1>7 DEF BridgeAt

\* disconnect of the manager.
LEMMA LeaveCalm ==
  ASSUME Sound, Calm, NEW t \in Ops, Leave(t)
  PROVE  Calm'
<1>1. op[t].at = "leave" /\ NoTimers /\ OldSockets /\ Alone(t)
  BY BusyAlone DEF Leave
<1>2. /\ op[t] \in OpState /\ op[t].on \in Kind /\ op[t].do \in Calmly /\ adapter.timer = FALSE
      /\ manager # 0 /\ manager \in 1 .. Len(managers) /\ op[t].on = managers[manager].transport
      /\ op[t].on = "bridge" => SerialClear
      /\ op[t].on # "bridge" => /\ op[t].on = "webserial" /\ BridgeClear
                                /\ state["webserial"] # "active"
  BY <1>1, AloneHas DEF SerialAt
<1>3. UNCHANGED <<page, manager, serial, clicks, overlapped>>
  BY DEF Leave
<1>4. ManagerStep(manager, Tried(manager, 0, FALSE))
  BY <1>2, LeaveSound DEF Calmly
<1>5. NoTimers' /\ managers'[manager].transport = managers[manager].transport
  BY <1>1, <1>2, <1>4, CancelCalm
<1> DEFINE k == op[t].on
<1>6. \/ /\ k = "bridge" /\ op' = SetOver(op, t, "left", k) /\ Gone(k) /\ bridge' = Dropped(bridge)
         /\ sockets' = IF bridge.ws = 0 \/ sockets[bridge.ws] = "closed" THEN sockets
                       ELSE [sockets EXCEPT ![bridge.ws] = "closing"]
      \/ /\ k # "bridge" /\ op' = SetOver(op, t, "gone", k)
         /\ UNCHANGED <<portHolder, state, fatal, bridge, sockets>>
  BY <1>2 DEF Leave, SetOver, Dropped
<1>7. ASSUME NEW a \in Place, NEW i \in Kind, i = k, op' = SetOver(op, t, a, i)
      PROVE  Moves(t, {a})
  <2> DEFINE h1 == Sent(op[t], a)
             h == Over(h1, i)
  <2>1. op \in [Ops -> OpState]
    BY DEF Sound, OpsSound
  <2>2. SetOver(op, t, a, i) = [op EXCEPT ![t] = h]
    BY <2>1, SendsOver
  <2>3. op' = [op EXCEPT ![t] = h]
    BY <1>7, <2>2
  <2>4. h1 \in OpState /\ h1.at = a /\ h1.do = op[t].do /\ h1.manager = op[t].manager
    BY <1>2, SentFields
  <2> HIDE DEF h1
  <2>5. h \in OpState /\ h.at = a /\ h.do = op[t].do /\ h.manager = op[t].manager /\ h.on = k
    BY <1>2, <1>7, <2>4, OverFields
  <2> HIDE DEF h
  <2>6. Step(t, h)
    BY <2>3, <2>5, Put DEF Sound, OpsSound
  <2> QED
    BY <2>5, <2>6 DEF Step, Moves
<1>8. "left" \in Place /\ "gone" \in Place
  BY DEF Place, Running, Waiting
<1>9. CASE /\ k = "bridge" /\ op' = SetOver(op, t, "left", k) /\ Gone(k) /\ bridge' = Dropped(bridge)
           /\ sockets' = IF bridge.ws = 0 \/ sockets[bridge.ws] = "closed" THEN sockets
                         ELSE [sockets EXCEPT ![bridge.ws] = "closing"]
  <2>1. Moves(t, {"left"})
    BY <1>2, <1>7, <1>8, <1>9
  <2>2. op'[t].at = "left"
    BY <2>1 DEF Moves
  <2>3. OldSockets' /\ BridgeClear' /\ BridgeAt(op[t])'
    BY <1>1, <1>9, <2>2, LeaveBridgeCalm
  <2>4. state \in [Kind -> State] /\ fatal \in [Kind -> BOOLEAN]
    BY DEF Sound, PlainTypes
  <2>5. state'["webserial"] = state["webserial"] /\ fatal'["webserial"] = fatal["webserial"]
    BY <1>9, <2>4, TwoKinds DEF Gone
  <2>6. portHolder # "webserial" => portHolder' # "webserial"
    BY <1>9 DEF Gone, Released, NoOne
  <2>7. SerialClear'
    BY <1>2, <1>3, <1>9, <2>5, <2>6 DEF SerialClear, Clear
  <2>8. Alone(t)'
    BY <1>1, <1>2, <1>3, <1>5, <1>9, <2>1, <2>3, <2>7, AloneGoes DEF page
  <2> QED
    BY <1>5, <2>3, <2>8 DEF Calm
<1>10. CASE /\ k # "bridge" /\ op' = SetOver(op, t, "gone", k)
            /\ UNCHANGED <<portHolder, state, fatal, bridge, sockets>>
  <2>1. Moves(t, {"gone"})
    BY <1>2, <1>7, <1>8, <1>10
  <2>2. SerialAt(op[t])'
    BY <1>2, <1>10, <2>1 DEF SerialAt, Moves
  <2>3. BridgeClear' /\ OldSockets'
    BY <1>1, <1>2, <1>10 DEF BridgeClear, Clear, OldSockets
  <2>4. Alone(t)'
    BY <1>1, <1>2, <1>3, <1>5, <1>10, <2>1, <2>2, <2>3, AloneGoes DEF page
  <2> QED
    BY <1>5, <2>3, <2>4 DEF Calm
<1> QED
  BY <1>6, <1>9, <1>10

\* Web Serial: the port is given up.
LEMMA PortGoneCalm ==
  ASSUME Sound, Calm, NEW t \in Ops, PortGone(t)
  PROVE  Calm'
<1>1. op[t].at = "gone" /\ NoTimers /\ OldSockets /\ Alone(t)
  BY BusyAlone DEF PortGone
<1>2. op[t].on = "webserial" /\ BridgeClear /\ adapter.timer = FALSE
  BY <1>1, AloneHas DEF Shape
<1>3. /\ UNCHANGED <<page, managers, manager, bridge, sockets, clicks, overlapped>>
      /\ serial' \in {"none", "held"} /\ Gone("webserial")
  BY PortTyped DEF PortGone, Sound, PlainTypes
<1>4. "left" \in Place
  BY DEF Place, Running
<1>5. Moves(t, {"left"})
  BY <1>4, PortGoneSound, SoundMoves
<1>6. portHolder' # "webserial" /\ state'["webserial"] = "disconnected" /\ ~fatal'["webserial"]
  BY <1>3, GoneTyped, TwoKinds DEF Sound
<1>7. SerialAt(op[t])'
  BY <1>3, <1>5, <1>6 DEF SerialAt, SerialClear, Clear, Moves
<1>8. state \in [Kind -> State] /\ fatal \in [Kind -> BOOLEAN]
  BY DEF Sound, PlainTypes
<1>9. state'["bridge"] = state["bridge"] /\ fatal'["bridge"] = fatal["bridge"]
  BY <1>3, <1>8, TwoKinds DEF Gone
<1>10. portHolder # "bridge" => portHolder' # "bridge"
  BY <1>3 DEF Gone, Released, NoOne
<1>11. BridgeClear'
  BY <1>2, <1>3, <1>9, <1>10 DEF BridgeClear, Clear
<1>12. Alone(t)'
  BY <1>1, <1>2, <1>3, <1>5, <1>7, <1>11, AloneGoes DEF page
<1> QED
  BY <1>1, <1>3, <1>12, TimersAndSockets DEF Calm

\* The page is told that the session is over.
LEMMA LeftCalm ==
  ASSUME Sound, Calm, NEW t \in Ops, Left(t)
  PROVE  Calm'
<1>1. op[t].at = "left" /\ NoTimers /\ OldSockets /\ Alone(t)
  BY BusyAlone DEF Left
<1>2. op[t].on \in Kind /\ BridgeClear /\ SerialClear /\ adapter.timer = FALSE
  BY <1>1, AloneHas DEF BridgeAt, SerialAt
<1>3. OnStateChange("disconnected") /\ manager' = 0 /\ UNCHANGED <<managers, links>>
  BY DEF Left
<1>4. "disconnected" \in State
  BY DEF State
<1>5. /\ unit' \in [connected : BOOLEAN, degraded : BOOLEAN, kind : Kind]
      /\ ~unit'.connected /\ ~unit'.degraded /\ adapter'.timer = adapter.timer
  BY <1>3, <1>4, PageTyped DEF Sound, PlainTypes
<1>6. Off'
  BY <1>2, <1>3, <1>5 DEF Off, BridgeClear, SerialClear, Clear, links
<1>7. \A u \in Ops : op'[u].at = "idle"
  BY <1>1, LeftSound, IdleFields DEF Step, Alone
<1>8. Resting'
  BY <1>3, <1>6, <1>7 DEF Resting
<1> QED
  BY <1>1, <1>3, <1>8, TimersAndSockets DEF Calm, links

\* connectHardware gives up.
LEMMA FailCalm ==
  ASSUME Sound, Calm, NEW t \in Ops, Fail(t)
  PROVE  Calm'
<1>1. op[t].at = "fail" /\ NoTimers /\ OldSockets /\ Alone(t)
  BY BusyAlone DEF Fail
<1>2. /\ op[t] \in OpState /\ op[t].on \in Kind /\ op[t].do \in Calmly /\ manager # 0 /\ adapter.timer = FALSE
      /\ op[t].on = "bridge" => SerialClear /\ BridgeEnds
      /\ op[t].on # "bridge" => /\ op[t].on = "webserial" /\ BridgeClear
                                /\ state["webserial"] # "active"
  BY <1>1, AloneHas DEF BridgeAt, SerialAt
<1>3. /\ UNCHANGED <<page, manager, portHolder, fatal, bridge, serial, sockets, clicks, overlapped>>
  BY DEF Fail
<1>4. managers' = managers /\ state' = state
  BY <1>2 DEF Fail, Calmly
<1>5. "leave" \in Place
  BY DEF Place, Running
<1>6. Moves(t, {"leave"})
  BY <1>2, <1>5, FailSound, SoundMoves DEF Calmly, Again2
<1>7. CASE op[t].on = "bridge"
  <2>1. BridgeAt(op[t])' /\ SerialClear'
    BY <1>2, <1>3, <1>4, <1>6, <1>7 DEF BridgeAt, BridgeEnds, SerialClear, Clear, Moves
  <2> QED
    BY <1>1, <1>2, <1>3, <1>4, <1>6, <1>7, <2>1, AloneGoes, TimersAndSockets DEF Calm, page
<1>8. CASE op[t].on # "bridge"
  <2>1. SerialAt(op[t])' /\ BridgeClear'
    BY <1>2, <1>3, <1>4, <1>6, <1>8 DEF SerialAt, BridgeClear, Clear, Moves
  <2> QED
    BY <1>1, <1>2, <1>3, <1>4, <1>6, <1>8, <2>1, AloneGoes, TimersAndSockets DEF Calm, page
<1> QED
  BY <1>7, <1>8

\* A click while an operation runs is where operations meet.
LEMMA ClickRests ==
  ASSUME Sound, Calm, NEW t \in Ops, Click(t), ~overlapped'
  PROVE  /\ NoTimers /\ OldSockets /\ Resting /\ \A u \in Ops : op[u].at = "idle"
         /\ manager # 0 => /\ manager \in 1 .. Len(managers) /\ managers[manager] \in ManagerState
                           /\ managers[manager].transport \in Kind
<1>1. \A u \in Ops : op[u].at = "idle"
  BY DEF Click, Busy
<1>2. Resting
  BY <1>1 DEF Calm, Alone
<1>3. Len(managers) \in Nat /\ managers \in Seq(ManagerState) /\ manager \in 0 .. Len(managers)
  BY LenProperties DEF Sound, PlainTypes
<1>4. CASE manager # 0
  <2>1. manager \in 1 .. Len(managers)
    BY <1>3, <1>4
  <2>2. managers[manager] \in ManagerState
    BY <1>3, <2>1, ElementOfSeq
  <2> QED
    BY <1>1, <1>2, <2>1, <2>2 DEF Calm, ManagerState
<1> QED
  BY <1>1, <1>2, <1>4 DEF Calm

\* A click on Connect.
LEMMA ConnectHardwareCalm ==
  ASSUME Sound, Calm, NEW t \in Ops, ConnectHardware(t), ~overlapped'
  PROVE  Calm'
<1> DEFINE h == New("connect", "connect", manager', unit.kind)
           n == Len(managers)
<1>1. NoTimers /\ OldSockets /\ Resting /\ \A u \in Ops : op[u].at = "idle"
  BY ClickRests DEF ConnectHardware
<1>2. Off
  BY <1>1 DEF ConnectHardware, Resting, On
<1>3. /\ Step(t, h) /\ manager' = n + 1 /\ Len(managers') = n + 1
      /\ managers'[n + 1] = [transport |-> unit.kind, count |-> 0, timer |-> FALSE]
      /\ \A i \in 1 .. n : managers'[i].timer = managers[i].timer
  BY ConnectHardwareSound
<1>4. n \in Nat /\ unit.kind \in Kind
  BY LenProperties DEF Sound, PlainTypes
<1>5. UNCHANGED <<unit, adapter, links>>
  BY DEF ConnectHardware
<1>6. manager' \in Nat /\ "connect" \in Task /\ "connect" \in Place
  BY <1>3, <1>4 DEF Task, Place, Running
<1>7. h.do = "connect" /\ h.at = "connect" /\ h.on = unit.kind
  BY <1>4, <1>6, NewFields
<1> HIDE DEF h
<1>8. op'[t] = h /\ \A u \in Ops : u # t => op'[u].at = "idle"
  BY <1>1, <1>3 DEF Step
<1>9. managers'[manager'].transport = unit.kind /\ managers'[manager'].timer = FALSE /\ manager' # 0
  BY <1>3, <1>4
<1>10. NoTimers'
  <2> SUFFICES ASSUME NEW i \in 1 .. Len(managers')
               PROVE  managers'[i].timer = FALSE
    BY DEF NoTimers
  <2>1. CASE i = n + 1
    BY <1>3, <1>9, <2>1
  <2>2. CASE i # n + 1
    <3>1. i \in 1 .. n
      BY <1>3, <1>4, <2>2
    <3> QED
      BY <1>1, <1>3, <3>1 DEF NoTimers
  <2> QED
    BY <2>1, <2>2
<1>11. BridgeClear' /\ SerialClear' /\ adapter'.timer = FALSE /\ OldSockets'
  BY <1>1, <1>2, <1>5 DEF Off, BridgeClear, SerialClear, Clear, OldSockets, links
<1>12. BridgeAt(op[t])' /\ SerialAt(op[t])'
  BY <1>7, <1>8, <1>11 DEF BridgeAt, SerialAt
<1>13. Alone(t)'
  BY <1>7, <1>8, <1>9, <1>11, <1>12 DEF Alone, Calmly
<1> QED
  BY <1>10, <1>11, <1>13 DEF Calm

\* A click on Disconnect.
LEMMA DisconnectHardwareCalm ==
  ASSUME Sound, Calm, NEW t \in Ops, DisconnectHardware(t), ~overlapped'
  PROVE  Calm'
<1>1. /\ NoTimers /\ OldSockets /\ Resting /\ \A u \in Ops : op[u].at = "idle"
      /\ manager # 0 => /\ manager \in 1 .. Len(managers) /\ managers[manager].transport \in Kind
  BY ClickRests DEF DisconnectHardware
<1>2. manager # 0 /\ On
  BY <1>1 DEF DisconnectHardware, Resting, Off
<1> DEFINE k == managers[manager].transport
           h == New("disconnect", "stop", manager, k)
<1>3. k \in Kind /\ manager \in 1 .. Len(managers) /\ Len(managers) \in Nat
  BY <1>1, <1>2, LenProperties DEF Sound, PlainTypes
<1>4. Step(t, h) /\ ManagerStep(manager, Tried(manager, 0, FALSE))
  BY <1>2, DisconnectHardwareSound
<1>5. /\ NoTimers' /\ managers'[manager].transport = k
  BY <1>1, <1>3, <1>4, CancelCalm
<1>6. adapter' = [connected |-> FALSE, timer |-> FALSE] /\ UNCHANGED <<unit, activeTransport, manager, links>>
  BY DEF DisconnectHardware
<1>7. manager \in Nat /\ "disconnect" \in Task /\ "stop" \in Place
  BY <1>3 DEF Task, Place, Running
<1>8. h.do = "disconnect" /\ h.at = "stop" /\ h.on = k
  BY <1>3, <1>7, NewFields
<1> HIDE DEF h
<1>9. op'[t] = h /\ \A u \in Ops : u # t => op'[u].at = "idle"
  BY <1>1, <1>4 DEF Step
<1>10. adapter'.timer = FALSE
  BY <1>6
<1>11. IF k = "bridge" THEN SerialClear' /\ BridgeSession' ELSE BridgeClear' /\ SerialSession'
  BY <1>2, <1>6 DEF On, BridgeClear, SerialClear, Clear, BridgeSession, SerialSession, links
<1>12. IF k = "bridge" THEN SerialClear' /\ BridgeAt(op[t])' ELSE BridgeClear' /\ SerialAt(op[t])'
  BY <1>8, <1>9, <1>11 DEF BridgeAt, SerialAt
<1>13. Alone(t)'
  BY <1>2, <1>5, <1>6, <1>8, <1>9, <1>10, <1>12 DEF Alone, Calmly
<1>14. OldSockets'
  BY <1>1, <1>6 DEF OldSockets, links
<1> QED
  BY <1>5, <1>13, <1>14 DEF Calm

\* Nothing to reconnect, and no retry is due.
LEMMA NoneAgain ==
  ASSUME Sound, Calm, ~overlapped', NEW t \in Ops
  PROVE  ~ReconnectHardware(t) /\ ~Again(t) /\ \A m \in 1 .. Len(managers) : ~AutoRetry(t, m)
<1>1. ~ReconnectHardware(t)
  <2> SUFFICES ASSUME ReconnectHardware(t)
               PROVE  FALSE
    OBVIOUS
  <2>1. Resting
    BY ClickRests DEF ReconnectHardware
  <2> QED
    BY <2>1 DEF Resting, Off, On, ReconnectHardware
<1>2. ~Again(t)
  <2> SUFFICES ASSUME Again(t)
               PROVE  FALSE
    OBVIOUS
  <2>1. op[t].at = "again" /\ Alone(t)
    BY BusyAlone DEF Again
  <2>2. Shape(op[t]) /\ op[t].do \in Calmly
    BY <2>1, AloneHas
  <2> QED
    BY <2>1, <2>2 DEF Shape, Calmly, Again2
<1>3. \A m \in 1 .. Len(managers) : ~AutoRetry(t, m)
  BY DEF Calm, NoTimers, AutoRetry
<1> QED
  BY <1>1, <1>2, <1>3

\* The choice of the transport, of a unit that is not connected.
LEMMA SelectTransportCalm ==
  ASSUME Sound, Calm, NEW k \in Kind, SelectTransport(k), ~overlapped'
  PROVE  Calm'
<1>1. \A u \in Ops : op[u].at = "idle"
  BY DEF SelectTransport, Busy
<1>2. NoTimers /\ OldSockets /\ Resting
  BY <1>1 DEF Calm, Alone
<1>3. manager = 0 /\ Off
  BY <1>2 DEF Resting, On, SelectTransport
<1>4. managers' = managers /\ unit' = [unit EXCEPT !.kind = k] /\ UNCHANGED <<adapter, manager, links, op>>
  BY <1>3 DEF SelectTransport, SetTransport
<1>5. unit'.connected = unit.connected /\ unit'.degraded = unit.degraded
  BY <1>4 DEF Sound, PlainTypes
<1>6. Off'
  BY <1>3, <1>4, <1>5 DEF Off, BridgeClear, SerialClear, Clear, links
<1>7. Resting'
  BY <1>1, <1>3, <1>4, <1>6 DEF Resting
<1> QED
  BY <1>2, <1>4, <1>7, TimersAndSockets DEF Calm, links

\* At the start nothing is connected.
LEMMA InitCalm ==
  ASSUME Init
  PROVE  Calm
<1>1. NoTimers
  BY DEF Init, NoTimers
<1>2. \A s \in 1 .. Sockets : sockets[s] = "new"
  BY DEF Init
<1>3. OldSockets
  BY <1>2 DEF OldSockets, Live
<1>4. \A u \in Ops : op[u].at = "idle"
  BY IdleFields DEF Init
<1>5. BridgeClear /\ SerialClear
  BY TwoKinds DEF Init, BridgeClear, SerialClear, Clear, NoOne
<1>6. Off /\ manager = 0
  BY <1>5 DEF Init, Off
<1> QED
  BY <1>1, <1>3, <1>4, <1>6 DEF Calm, Resting

\* As long as nothing has met, every step keeps it so.
LEMMA NextCalm ==
  ASSUME Sound, ~overlapped => Calm, [Next]_vars
  PROVE  ~overlapped' => Calm'
<1> SUFFICES ASSUME ~overlapped'
             PROVE  Calm'
  OBVIOUS
<1>1. Calm
  <2>1. overlapped => overlapped'
    <3>1. ASSUME NEW t \in Ops, ConnectHardware(t) \/ DisconnectHardware(t) \/ ReconnectHardware(t)
          PROVE  overlapped => overlapped'
      BY <3>1 DEF ConnectHardware, DisconnectHardware, ReconnectHardware, Click
    <3>2. ASSUME NEW t \in Ops, Continue(t)
          PROVE  overlapped => overlapped'
      BY <3>2 DEF Continue, Connect, Again, Begin, Ask, Send, Succeed, Stop, Stopped, Leave, Left, Fail
    <3>3. ASSUME NEW t \in Ops, Resume(t)
          PROVE  overlapped => overlapped'
      BY <3>3 DEF Resume, PortOpens, StartTimeout, Acks, Exited, PortGone
    <3>4. ASSUME NEW t \in Ops, NEW m \in 1 .. Len(managers), AutoRetry(t, m)
          PROVE  overlapped => overlapped'
      BY <3>4 DEF AutoRetry
    <3>5. ASSUME NEW k \in Kind, SelectTransport(k)
          PROVE  overlapped => overlapped'
      BY <3>5 DEF SelectTransport
    <3>6. ASSUME NEW s \in 1 .. Sockets, SocketOpens(s) \/ SocketCloses(s) \/ StartedMsg(s)
          PROVE  overlapped => overlapped'
      BY <3>6 DEF SocketOpens, SocketCloses, StartedMsg
    <3>7. CASE SerialLinkLoss \/ HeldPortPulled
      BY <3>7 DEF SerialLinkLoss, HeldPortPulled
    <3>8. CASE UNCHANGED vars
      BY <3>8 DEF vars
    <3> QED
      BY <3>1, <3>2, <3>3, <3>4, <3>5, <3>6, <3>7, <3>8 DEF Next
  <2> QED
    BY <2>1
<1>2. ASSUME NEW t \in Ops, ConnectHardware(t) \/ DisconnectHardware(t) \/ ReconnectHardware(t)
      PROVE  Calm'
  BY <1>1, <1>2, ConnectHardwareCalm, DisconnectHardwareCalm, NoneAgain
<1>3. ASSUME NEW t \in Ops, Continue(t)
      PROVE  Calm'
  <2>1. CASE Connect(t)
    BY <1>1, <2>1, ConnectCalm
  <2>2. CASE Again(t)
    BY <1>1, <2>2, NoneAgain
  <2>3. CASE Begin(t)
    BY <1>1, <2>3, BeginCalm
  <2>4. CASE Ask(t)
    BY <1>1, <2>4, AskCalm
  <2>5. CASE Send(t)
    BY <1>1, <2>5, SendCalm
  <2>6. CASE Succeed(t)
    BY <1>1, <2>6, SucceedCalm
  <2>7. CASE Stop(t)
    BY <1>1, <2>7, StopCalm
  <2>8. CASE Stopped(t)
    BY <1>1, <2>8, StoppedCalm
  <2>9. CASE Leave(t)
    BY <1>1, <2>9, LeaveCalm
  <2>10. CASE Left(t)
    BY <1>1, <2>10, LeftCalm
  <2>11. CASE Fail(t)
    BY <1>1, <2>11, FailCalm
  <2> QED
    BY <1>3, <2>1, <2>2, <2>3, <2>4, <2>5, <2>6, <2>7, <2>8, <2>9, <2>10, <2>11 DEF Continue
<1>4. ASSUME NEW t \in Ops, Resume(t)
      PROVE  Calm'
  <2>1. CASE PortOpens(t)
    BY <1>1, <2>1, PortOpensCalm
  <2>2. CASE StartTimeout(t)
    BY <1>1, <2>2, StartTimeoutCalm
  <2>3. CASE Acks(t)
    BY <1>1, <2>3, AcksCalm
  <2>4. CASE Exited(t)
    BY <1>1, <2>4, ExitedCalm
  <2>5. CASE PortGone(t)
    BY <1>1, <2>5, PortGoneCalm
  <2> QED
    BY <1>4, <2>1, <2>2, <2>3, <2>4, <2>5 DEF Resume
<1>5. ASSUME NEW t \in Ops, NEW m \in 1 .. Len(managers), AutoRetry(t, m)
      PROVE  Calm'
  BY <1>1, <1>5, NoneAgain
<1>6. ASSUME NEW k \in Kind, SelectTransport(k)
      PROVE  Calm'
  BY <1>1, <1>6, SelectTransportCalm
<1>7. ASSUME NEW s \in 1 .. Sockets, SocketOpens(s) \/ SocketCloses(s) \/ StartedMsg(s)
      PROVE  Calm'
  BY <1>1, <1>7, SocketOpensCalm, SocketClosesCalm, StartedMsgCalm
<1>8. CASE SerialLinkLoss
  BY <1>1, <1>8, SerialLinkLossCalm
<1>9. CASE UNCHANGED vars
  <2>1. UNCHANGED <<page, managers, manager, links, op>>
    BY <1>9 DEF vars
  <2>2. /\ (BridgeClear => BridgeClear') /\ (SerialClear => SerialClear')
        /\ (BridgeSession => BridgeSession') /\ (SerialSession => SerialSession')
    BY <2>1 DEF links, BridgeClear, SerialClear, Clear, BridgeSession, SerialSession
  <2>3. Resting => Resting'
    BY <2>1, <2>2 DEF page, Resting, Off, On
  <2>4. ASSUME NEW t \in Ops, Alone(t)
        PROVE  Alone(t)'
    <3>1. BridgeAt(op[t]) => BridgeAt(op[t])'
      BY <2>1, <2>2 DEF links, BridgeAt, Unheld, BridgeEnds
    <3>2. SerialAt(op[t]) => SerialAt(op[t])'
      BY <2>1, <2>2 DEF links, SerialAt, Claimed
    <3> QED
      BY <2>1, <2>2, <2>4, <3>1, <3>2 DEF page, Alone
  <2>5. NoTimers' /\ OldSockets'
    BY <1>1, <2>1 DEF links, Calm, NoTimers, OldSockets
  <2> QED
    BY <1>1, <2>3, <2>4, <2>5 DEF Calm
<1>10. CASE HeldPortPulled
  BY <1>1, <1>10, HeldPortPulledCalm
<1> QED
  BY <1>2, <1>3, <1>4, <1>5, <1>6, <1>7, <1>8, <1>9, <1>10 DEF Next

\* It holds in every behaviour in which nothing has met yet.
LEMMA CalmAlways == Spec => [](Sound /\ (~overlapped => Calm))
<1>1. Init => Sound /\ Calm
  BY InitSound, InitCalm
<1>2. Sound /\ (~overlapped => Calm) /\ [Next]_vars => Sound' /\ (~overlapped' => Calm')
  BY NextSound, NextCalm
<1> QED
  BY <1>1, <1>2, PTL DEF Spec

\* A session has its link and the port.
LEMMA SessionHasPort ==
  /\ BridgeSession /\ state["bridge"] = "active" =>
       portHolder = "bridge" /\ WsOpen /\ bridge.had
  /\ SerialSession /\ state["webserial"] = "active" => portHolder = "webserial" /\ serial = "open"
BY DEF BridgeSession, SerialSession, WsOpen

\* Calm, an active session owns the port.
LEMMA CalmOwnsPort ==
  ASSUME Sound, ~overlapped => Calm
  PROVE  ActiveOwnsPort
<1> SUFFICES ASSUME Settled, ~overlapped, NEW k \in Kind, state[k] = "active"
             PROVE  /\ portHolder = k
                    /\ IF k = "bridge" THEN WsOpen /\ bridge.had ELSE serial = "open"
  BY DEF ActiveOwnsPort
<1>1. Calm
  OBVIOUS
<1>2. k = "bridge" => ~BridgeClear
  BY DEF BridgeClear, Clear
<1>3. k = "webserial" => ~SerialClear
  BY DEF SerialClear, Clear
<1>4. (k = "bridge" /\ BridgeSession) \/ (k = "webserial" /\ SerialSession)
  <2>1. CASE Resting
    BY <1>2, <1>3, <2>1, TwoKinds DEF Resting, Off, On
  <2>2. ASSUME NEW t \in Ops, Alone(t)
        PROVE  (k = "bridge" /\ BridgeSession) \/ (k = "webserial" /\ SerialSession)
    <3>1. op[t].at \notin Running
      BY DEF Settled
    <3>2. CASE op[t].on = "bridge"
      <4>1. SerialClear /\ BridgeAt(op[t])
        BY <2>2, <3>2 DEF Alone
      <4>2. k = "bridge"
        BY <1>3, <4>1, TwoKinds
      <4>3. Unheld({"connecting"}) \/ Unheld({"asked", "closed"})
        BY <3>1, <4>1 DEF BridgeAt, Running
      <4> QED
        BY <4>2, <4>3 DEF Unheld
    <3>3. CASE op[t].on # "bridge"
      <4>1. BridgeClear /\ SerialAt(op[t])
        BY <2>2, <3>3 DEF Alone
      <4>2. k = "webserial"
        BY <1>2, <4>1, TwoKinds
      <4>3. Claimed \/ SerialSession
        BY <3>1, <4>1, <4>2 DEF SerialAt, Running
      <4> QED
        BY <4>2, <4>3 DEF Claimed
    <3> QED
      BY <3>2, <3>3
  <2> QED
    BY <1>1, <2>1, <2>2 DEF Calm
<1> QED
  BY <1>4, SessionHasPort

\* Without operations, what rests is off or on.
LEMMA CalmRests ==
  ASSUME ~overlapped => Calm, ~overlapped, ~Busy
  PROVE  NoTimers /\ OldSockets /\ IF manager = 0 THEN Off ELSE On
<1>1. \A t \in Ops : op[t].at = "idle"
  BY DEF Busy
<1> QED
  BY <1>1 DEF Calm, Resting, Alone

\* Off, nothing is left behind.
LEMMA CalmReleases ==
  ASSUME Sound, ~overlapped => Calm
  PROVE  AllReleased
<1> SUFFICES ASSUME ~Busy, ~overlapped, ~unit.connected
             PROVE  /\ portHolder = NoOne /\ serial \in {"none", "held"} /\ ~\E k \in Kind : fatal[k]
                    /\ \A s \in 1 .. Sockets : sockets[s] \in {"new", "closing", "closed"}
                    /\ \A m \in 1 .. Len(managers) : ~managers[m].timer
  BY DEF AllReleased
<1>1. NoTimers /\ OldSockets /\ Off
  BY CalmRests DEF On
<1>2. portHolder \in Kind \cup {NoOne} /\ sockets \in [1 .. Sockets -> SocketState]
  BY DEF Sound, PlainTypes
<1>3. portHolder = NoOne
  BY <1>1, <1>2, TwoKinds DEF Off, BridgeClear, SerialClear, Clear
<1>4. ~\E k \in Kind : fatal[k]
  BY <1>1, TwoKinds DEF Off, BridgeClear, SerialClear, Clear
<1>5. ASSUME NEW s \in 1 .. Sockets
      PROVE  sockets[s] \in {"new", "closing", "closed"}
  <2>1. s # 0
    BY SessionAssumption
  <2>2. sockets[s] \notin Live
    BY <1>1, <2>1 DEF OldSockets, Off, BridgeClear
  <2> QED
    BY <1>2, <2>2 DEF Live, SocketState
<1>6. serial \in {"none", "held"} /\ \A m \in 1 .. Len(managers) : ~managers[m].timer
  BY <1>1 DEF Off, SerialClear, NoTimers
<1> QED
  BY <1>3, <1>4, <1>5, <1>6

(***************************************************************************)
(* As long as no operation and no late event of an old socket has met      *)
(* another session, a transport whose session is active holds the port     *)
(* that the two share and has its link: an open socket that knows of the   *)
(* session, or an open port.                                               *)
(***************************************************************************)
THEOREM OwnsPort == Spec => []ActiveOwnsPort
BY CalmAlways, CalmOwnsPort, PTL

(***************************************************************************)
(* Between operations that never met, the slot adapter asks for periods    *)
(* exactly while the page shows the unit as connected, and the page has a  *)
(* session manager exactly then.                                           *)
(***************************************************************************)
THEOREM PageFollows == Spec => []AdapterFollows
<1>1. Sound /\ (~overlapped => Calm) => AdapterFollows
  BY CalmRests DEF AdapterFollows, Off, On
<1> QED
  BY <1>1, CalmAlways, PTL

(***************************************************************************)
(* A unit that is shown as not connected, after operations that never met, *)
(* has left nothing of its session in the page: nobody holds the port, the *)
(* page has no port object, neither transport is fatal, no socket is open  *)
(* or on its way, no retry is due.  Whether the browser has closed the     *)
(* port is another question, see NeverClosed.                              *)
(***************************************************************************)
THEOREM LeavesNothing == Spec => []AllReleased
BY CalmAlways, CalmReleases, PTL

(***************************************************************************)
(* As long as nothing has met, no automatic retry is ever due, and between *)
(* operations no unit is marked degraded, so that a click on Reconnect is  *)
(* refused (main.js:818): the transports set their state before the        *)
(* manager's link-loss handler looks at it, so the handler finds nothing   *)
(* to do (hardware-session-manager.js:46-55).                              *)
(***************************************************************************)
THEOREM NeverDegraded ==
  Spec => [](~overlapped => /\ \A m \in 1 .. Len(managers) : ~managers[m].timer
                            /\ ~Busy => ~unit.degraded)
<1>1. (~overlapped => Calm) => (~overlapped => /\ \A m \in 1 .. Len(managers) : ~managers[m].timer
                                               /\ ~Busy => ~unit.degraded)
  BY CalmRests DEF Calm, NoTimers, Off, On
<1> QED
  BY <1>1, CalmAlways, PTL

\* The browser has the port open, whether the page still has the object or not.
PortOpen == serial \in {"open", "locked", "held"}

(***************************************************************************)
(* Once the browser has opened the port it stays open until the device     *)
(* goes, whatever the page does: no step of an operation closes it, the    *)
(* disconnection included, because the frame reader keeps its lock on      *)
(* port.readable (web-serial-transport.js:217-221).                        *)
(***************************************************************************)
THEOREM NeverClosed ==
  Spec => [][PortOpen /\ ~PortOpen' => SerialLinkLoss \/ HeldPortPulled]_vars
<1> DEFINE Only == PortOpen /\ ~PortOpen' => SerialLinkLoss \/ HeldPortPulled
<1>1. ASSUME NEW t \in Ops, Continue(t)
      PROVE  Only
  <2>1. CASE Again(t)
    BY <2>1 DEF Again, PortOpen, TornDown
  <2>2. ASSUME ~Again(t)
        PROVE  serial' = serial
    BY <1>1, <2>2 DEF Continue, Connect, Begin, Ask, Send, Succeed, Stop, Stopped, Leave, Left, Fail,
                      links
  <2> QED
    BY <2>1, <2>2 DEF PortOpen
<1>2. ASSUME NEW t \in Ops, Resume(t)
      PROVE  Only
  <2>1. CASE PortOpens(t)
    BY <2>1 DEF PortOpens, PortOpen, TornDown, Unopened
  <2>2. CASE PortGone(t)
    BY <2>2 DEF PortGone, PortOpen, TornDown
  <2>3. ASSUME ~PortOpens(t), ~PortGone(t)
        PROVE  serial' = serial
    BY <1>2, <2>3 DEF Resume, StartTimeout, Acks, Exited
  <2> QED
    BY <2>1, <2>2, <2>3 DEF PortOpen
<1>3. ASSUME NEW t \in Ops, ConnectHardware(t) \/ DisconnectHardware(t) \/ ReconnectHardware(t)
      PROVE  serial' = serial
  BY <1>3 DEF ConnectHardware, DisconnectHardware, ReconnectHardware, links
<1>4. ASSUME NEW t \in Ops, NEW m \in 1 .. Len(managers), AutoRetry(t, m)
      PROVE  serial' = serial
  BY <1>4 DEF AutoRetry, links
<1>5. ASSUME NEW k \in Kind, SelectTransport(k)
      PROVE  serial' = serial
  BY <1>5 DEF SelectTransport, links
<1>6. ASSUME NEW s \in 1 .. Sockets, SocketOpens(s) \/ SocketCloses(s) \/ StartedMsg(s)
      PROVE  serial' = serial
  BY <1>6 DEF SocketOpens, SocketCloses, StartedMsg
<1>7. Next => Only
  BY <1>1, <1>2, <1>3, <1>4, <1>5, <1>6 DEF Next, PortOpen
<1>8. [Next]_vars => [Only]_vars
  BY <1>7
<1> QED
  BY <1>8, PTL DEF Spec

=============================================================================
