----------------------------- MODULE PageAudio -----------------------------
(***************************************************************************)
(* The page's units, their WASM modules and the audio engine behind them   *)
(* (main.js, audio-engine.js).  Every await is a step of its own: loading  *)
(* a module, opening and closing an AudioContext, loading its worklets and *)
(* asking for the microphone.  The page waits for none of them before it   *)
(* takes the next click.                                                   *)
(***************************************************************************)
EXTENDS Integers, Sequences, FiniteSets, SequencesExt

CONSTANTS
  Keys,       \* module types
  MaxUnits,   \* MAX_PROCESSING_UNITS
  Clicks,     \* bound: what the user does
  Fails       \* bound: modules that do not load

ASSUME PageAssumption ==
  /\ {"delay", "passthrough"} \subseteq Keys
  /\ MaxUnits \in Nat \ {0} /\ Clicks \in Nat /\ Fails \in Nat

VARIABLES
  units,      \* the chain, by unit number
  unit,       \* moduleKey, bindings, hardwareDesignated and loopbackEnabled of every unit made
  slots,      \* what the scheduler was given last
  sampling,   \* units whose level sampler runs
  engine,     \* SimAudioEngine; every node is known by the number of its context
  contexts,   \* AudioContexts made so far
  streams,    \* microphone streams that have not been stopped, by the handler that asked
  ui,         \* start button and rebuildInProgress
  ops,        \* handlers that have begun
  left,       \* what the bounds leave
  trouble     \* history: handlers that met, loads out of order, failures

vars == <<units, unit, slots, sampling, engine, contexts, streams, ui, ops, left, trouble>>

None == 0
Unit(key) == [key |-> key, bindings |-> "none", designated |-> FALSE, loopback |-> FALSE]
Handler(kind, at, u, key) == [kind |-> kind, at |-> at, on |-> None, unit |-> u, key |-> key]
Over == Handler("over", "done", None, "none")
Context == [open |-> TRUE, chain |-> FALSE, playback |-> FALSE]

Starting == {"resume", "chain", "playback", "mic"}
InEngine(i) == ops[i].at \in Starting \cup {"closing"}
Quiet == \A i \in DOMAIN ops : ops[i].at = "done"

TypeOK ==
  /\ \A k \in DOMAIN units : units[k] \in DOMAIN unit
  /\ Len(units) <= MaxUnits /\ Cardinality(ToSet(units)) = Len(units)
  /\ \A u \in DOMAIN unit : unit[u] \in [key : Keys, bindings : Keys \cup {"none"},
                                         designated : BOOLEAN, loopback : BOOLEAN]
  /\ Cardinality({u \in ToSet(units) : unit[u].designated}) <= 1
  /\ sampling \subseteq ToSet(units)
  /\ engine \in [running : BOOLEAN, ctx : 0 .. Len(contexts), node : 0 .. Len(contexts),
                 play : 0 .. Len(contexts), source : 0 .. Len(contexts), mic : {None} \cup streams]
  /\ ui \in [text : {"start", "stop"}, disabled : BOOLEAN, rebuilding : BOOLEAN]
  /\ \A i \in DOMAIN ops : ops[i].at \in Starting \cup {"closing", "loading", "done"}
  /\ Cardinality({i \in DOMAIN ops : ops[i].kind = "rebuild" /\ InEngine(i)}) = (IF ui.rebuilding THEN 1 ELSE 0)
  /\ left \in [clicks : 0 .. Clicks, fails : 0 .. Fails]
  /\ trouble \subseteq {"overlap", "failed", "cut", "crossed", "unloaded"}

\* syncBindingsToScheduler
Sync(us, un) ==
  [chain |-> [k \in DOMAIN us |->
                [unit |-> us[k], designated |-> un[us[k]].designated,
                 bindings |-> IF un[us[k]].designated THEN "none" ELSE un[us[k]].bindings]],
   loopback |-> us # <<>> /\ un[Last(us)].loopback]

\* The page adds its first unit by itself.
Init ==
  /\ units = <<1>> /\ unit = <<Unit("delay")>> /\ slots = Sync(units, unit) /\ sampling = {}
  /\ engine = [running |-> FALSE, ctx |-> None, node |-> None, play |-> None, source |-> None, mic |-> None]
  /\ contexts = <<>> /\ streams = {}
  /\ ui = [text |-> "start", disabled |-> FALSE, rebuilding |-> FALSE]
  /\ ops = <<Handler("add", "loading", 1, "delay")>>
  /\ left = [clicks |-> Clicks, fails |-> Fails] /\ trouble = {}

-----------------------------------------------------------------------------
(***************************************************************************)
(* Starting the engine.                                                    *)
(***************************************************************************)
Meets(i) == IF \E j \in DOMAIN ops \ {i} : InEngine(j) THEN {"overlap"} ELSE {}

\* How the handler ends when the engine has started, or when start threw.
Started(i, e) ==
  /\ engine' = e /\ sampling' = ToSet(units)
  /\ ui' = [ui EXCEPT !.text = "stop", !.disabled = @ /\ ops[i].kind # "click",
                      !.rebuilding = @ /\ ops[i].kind # "rebuild"]
  /\ ops' = [ops EXCEPT ![i] = Over]
  /\ UNCHANGED trouble

\* Mutant: a restart that fails leaves the button as it was.
FaultyFailed(i, e) ==
  /\ engine' = e
  /\ ui' = IF ops[i].kind = "click" THEN [ui EXCEPT !.disabled = FALSE]
           ELSE [ui EXCEPT !.rebuilding = FALSE]
  /\ ops' = [ops EXCEPT ![i] = Over]
  /\ trouble' = trouble \cup {"failed"}
  /\ UNCHANGED sampling

Failed(i, e) ==
  /\ engine' = e
  /\ ui' = IF ops[i].kind = "click" THEN [ui EXCEPT !.disabled = FALSE]
           ELSE [ui EXCEPT !.text = "start", !.rebuilding = FALSE]
  /\ ops' = [ops EXCEPT ![i] = Over]
  /\ trouble' = trouble \cup {"failed"}
  /\ UNCHANGED sampling

\* engine.start of handler i up to its first await; os and cs are the handlers and contexts as
\* they are at this point.  The context may be born suspended.
NewContext(i, e, os, cs) ==
  /\ contexts' = Append(cs, Context)
  /\ engine' = [e EXCEPT !.ctx = Len(contexts')]
  /\ \E at \in {"resume", "chain"} : ops' = [os EXCEPT ![i].at = at, ![i].on = Len(contexts')]
  /\ trouble' = trouble \cup Meets(i)

Resumed(i) ==
  /\ ops[i].at = "resume"
  /\ IF engine.ctx = None THEN Failed(i, engine)
     ELSE ops' = [ops EXCEPT ![i].at = "chain", ![i].on = engine.ctx]
          /\ UNCHANGED <<engine, ui, sampling, trouble>>
  /\ UNCHANGED <<units, unit, slots, contexts, streams, left>>

\* addModule has loaded a worklet into the context it was called on; the node is made on the
\* engine's context of now, which must have it.
Registers(i, worklet) == [contexts EXCEPT ![ops[i].on][worklet] = TRUE]

ChainLoaded(i) ==
  /\ ops[i].at = "chain" /\ contexts[ops[i].on].open
  /\ contexts' = Registers(i, "chain")
  /\ IF engine.ctx = None \/ ~contexts'[engine.ctx].chain THEN Failed(i, engine)
     ELSE /\ engine' = [engine EXCEPT !.node = engine.ctx]
          /\ ops' = [ops EXCEPT ![i].at = "playback", ![i].on = engine.ctx]
          /\ UNCHANGED <<ui, sampling, trouble>>
  /\ UNCHANGED <<units, unit, slots, streams, left>>

\* start returns: the engine counts as running before it tells the worklet, which must be there.
Runs(i, e) ==
  IF e.node = None THEN Failed(i, [e EXCEPT !.running = TRUE]) ELSE Started(i, [e EXCEPT !.running = TRUE])

PlaybackLoaded(i) ==
  /\ ops[i].at = "playback" /\ contexts[ops[i].on].open
  /\ contexts' = Registers(i, "playback")
  /\ IF engine.ctx = None \/ ~contexts'[engine.ctx].playback THEN Failed(i, engine)
     ELSE IF engine.source # None THEN Runs(i, [engine EXCEPT !.play = engine.ctx])
     ELSE /\ engine' = [engine EXCEPT !.play = engine.ctx] /\ ops' = [ops EXCEPT ![i].at = "mic"]
          /\ UNCHANGED <<ui, sampling, trouble>>
  /\ UNCHANGED <<units, unit, slots, streams, left>>

\* The user allows the microphone or not; what goes wrong with it is caught.
MicAnswers(i, granted) ==
  /\ ops[i].at = "mic"
  /\ streams' = IF granted THEN streams \cup {i} ELSE streams
  /\ Runs(i, IF granted THEN [engine EXCEPT !.mic = i, !.source = engine.ctx] ELSE engine)
  /\ UNCHANGED <<units, unit, slots, contexts, left>>

\* A worklet does not load, or its context was closed under it.
WorkletFails(i) ==
  /\ ops[i].at \in {"chain", "playback"}
  /\ IF contexts[ops[i].on].open THEN left.fails > 0 /\ left' = [left EXCEPT !.fails = @ - 1]
     ELSE UNCHANGED left
  /\ Failed(i, engine)
  /\ UNCHANGED <<units, unit, slots, contexts, streams>>

-----------------------------------------------------------------------------
(***************************************************************************)
(* Stopping it, and rebuilding: handler i, which os holds.                 *)
(***************************************************************************)
\* What follows when the engine has let go of its context: the button is set, or a rebuild
\* starts the engine again, which does nothing when it runs by now.
AfterStop(i, e, os, cs) ==
  LET gone == [e EXCEPT !.ctx = None, !.node = None, !.play = None, !.source = None]
  IN  IF os[i].kind = "click"
        THEN /\ engine' = gone /\ contexts' = cs /\ ui' = [ui EXCEPT !.text = "start"]
             /\ ops' = [os EXCEPT ![i] = Over]
             /\ UNCHANGED <<sampling, trouble, slots>>
      ELSE /\ slots' = Sync(units, unit)
           /\ IF gone.running THEN Started(i, gone) /\ contexts' = cs
              ELSE NewContext(i, gone, os, cs) /\ UNCHANGED <<sampling, ui>>

\* engine.stop, called when it runs.  Mutant: the microphone stays on.
FaultyStopEngine(i, os, t) ==
  /\ streams' = streams
  /\ engine' = [engine EXCEPT !.running = FALSE, !.mic = None]
  /\ ops' = [os EXCEPT ![i].at = "closing", ![i].on = engine.ctx]
  /\ trouble' = trouble \cup Meets(i) \cup t

StopEngine(i, os, t) ==
  /\ streams' = streams \ {engine.mic}
  /\ engine' = [engine EXCEPT !.running = FALSE, !.mic = None]
  /\ ops' = [os EXCEPT ![i].at = "closing", ![i].on = engine.ctx]
  /\ trouble' = trouble \cup Meets(i) \cup t

\* close throws when the context has been closed, or is being closed, by another handler.
Refused(i) == /\ ops[i].on # None
              /\ \/ ~contexts[ops[i].on].open
                 \/ \E j \in DOMAIN ops \ {i} : ops[j].at = "closing" /\ ops[j].on = ops[i].on

\* The context has been closed; a running engine that had none only yields once.
Closed(i) ==
  /\ ops[i].at = "closing"
  /\ IF ~Refused(i)
       THEN AfterStop(i, engine, ops, IF ops[i].on = None THEN contexts
                                      ELSE [contexts EXCEPT ![ops[i].on].open = FALSE])
     ELSE IF ops[i].kind = "rebuild"
       THEN Failed(i, engine) /\ UNCHANGED <<slots, contexts>>
     ELSE ops' = [ops EXCEPT ![i] = Over] /\ UNCHANGED <<engine, contexts, ui, sampling, trouble, slots>>
  /\ UNCHANGED <<units, unit, streams, left>>

\* rebuildAudioIfRunning of handler i, with units us and un.  Mutant: a rebuild begins while
\* another one is on its way.
FaultyRebuild(i, os, us, un, t) ==
  /\ units' = us /\ unit' = un /\ slots' = Sync(us, un) /\ UNCHANGED contexts
  /\ IF engine.running
       THEN /\ ui' = [ui EXCEPT !.rebuilding = TRUE] /\ sampling' = {}
            /\ StopEngine(i, [os EXCEPT ![i].kind = "rebuild"], t)
       ELSE /\ ops' = [os EXCEPT ![i] = Over] /\ sampling' = sampling \cap ToSet(us)
            /\ trouble' = trouble \cup t /\ UNCHANGED <<ui, engine, streams>>

Rebuild(i, os, us, un, t) ==
  /\ units' = us /\ unit' = un /\ slots' = Sync(us, un) /\ UNCHANGED contexts
  /\ IF engine.running /\ ~ui.rebuilding
       THEN /\ ui' = [ui EXCEPT !.rebuilding = TRUE] /\ sampling' = {}
            /\ StopEngine(i, [os EXCEPT ![i].kind = "rebuild"], t)
       ELSE /\ ops' = [os EXCEPT ![i] = Over] /\ sampling' = sampling \cap ToSet(us)
            /\ trouble' = trouble \cup t /\ UNCHANGED <<ui, engine, streams>>

-----------------------------------------------------------------------------
(***************************************************************************)
(* What the user does.                                                     *)
(***************************************************************************)
New(kind, at, u, key) == Append(ops, Handler(kind, at, u, key))
Fresh == Len(ops) + 1
Click(action) == left.clicks > 0 /\ left' = [left EXCEPT !.clicks = @ - 1] /\ action

StartClick ==
  /\ ~ui.disabled
  /\ IF engine.running
       THEN sampling' = {} /\ StopEngine(Fresh, New("click", "closing", None, "none"), {})
            /\ UNCHANGED <<ui, slots, contexts>>
     ELSE /\ units # <<>>
          /\ ui' = [ui EXCEPT !.disabled = TRUE] /\ slots' = Sync(units, unit)
          /\ NewContext(Fresh, engine, New("click", "chain", None, "none"), contexts)
          /\ UNCHANGED <<sampling, streams>>
  /\ UNCHANGED <<units, unit>>

\* A handler that waits for a WASM module before it goes on.
Waits(kind, u, key, us, un) ==
  /\ units' = us /\ unit' = un /\ ops' = New(kind, "loading", u, key)
  /\ UNCHANGED <<sampling, engine, contexts, streams, ui, trouble>>

\* Only the last unit keeps its loopback.
Visible(us, un) ==
  [v \in DOMAIN un |-> [un[v] EXCEPT !.loopback = @ /\ us # <<>> /\ v = Last(us)]]

AddUnit ==
  /\ Len(units) < MaxUnits
  /\ LET us == Append(units, Len(unit) + 1)
         un == Visible(us, Append(unit, Unit("passthrough")))
     IN  Waits("add", Len(un), "passthrough", us, un) /\ slots' = Sync(us, un)

\* changeModuleType; a designated unit only takes the name.
ChangeModule(u, key) ==
  /\ ~(key = unit[u].key /\ unit[u].bindings # "none")
  /\ LET un == [unit EXCEPT ![u].key = key]
     IN  IF unit[u].designated
           THEN Rebuild(Fresh, New("change", "done", u, key), units, un, {})
           ELSE Waits("change", u, key, units, un) /\ UNCHANGED slots

SetHardwareDesignated(u, on) ==
  /\ unit[u].designated # on
  /\ on => \A v \in ToSet(units) : ~unit[v].designated
  /\ LET un == [unit EXCEPT ![u].designated = on, ![u].bindings = IF on THEN "none" ELSE @]
     IN  IF ~on /\ unit[u].bindings = "none"
           THEN Waits("designate", u, unit[u].key, units, un) /\ UNCHANGED slots
           ELSE Rebuild(Fresh, New("designate", "done", u, unit[u].key), units, un, {})

Place(u) == CHOOSE k \in DOMAIN units : units[k] = u

Drop(u, v) ==
  /\ u # v
  /\ LET us == InsertAt(RemoveAt(units, Place(u)), Place(v), u)
     IN  Rebuild(Fresh, New("drop", "done", u, "none"), us, Visible(us, unit), {})

ToggleLoopback(u) ==
  /\ u = Last(units)
  /\ Rebuild(Fresh, New("loopback", "done", u, "none"), units, [unit EXCEPT ![u].loopback = ~@], {})

\* Mutant: the last unit goes while audio runs.
FaultyMayDelete == TRUE
MayDelete == ~(engine.running /\ Len(units) <= 1)

DeleteUnit(u) ==
  /\ MayDelete
  /\ LET us == RemoveAt(units, Place(u))
     IN  Rebuild(Fresh, New("delete", "done", u, "none"), us, Visible(us, unit),
                 IF us = <<>> /\ \E i \in DOMAIN ops : InEngine(i) THEN {"cut"} ELSE {})

\* The module of a load is there: loadModule sets it whatever has happened to the unit since,
\* then the handler rebuilds.
Crossed(i) ==
  LET u == ops[i].unit
  IN  unit[u].designated \/ (ops[i].key # unit[u].key
                             /\ \A j \in DOMAIN ops : j > i /\ ops[j].unit = u => ops[j].at # "loading")

\* Mutant: the scheduler is told before the module is set.
FaultyLoaded(i) ==
  /\ ops[i].at = "loading"
  /\ units' = units /\ unit' = [unit EXCEPT ![ops[i].unit].bindings = ops[i].key]
  /\ slots' = Sync(units, unit) /\ ops' = [ops EXCEPT ![i] = Over]
  /\ UNCHANGED <<sampling, engine, contexts, streams, ui, trouble, left>>

Loaded(i) ==
  /\ ops[i].at = "loading"
  /\ Rebuild(i, ops, units, [unit EXCEPT ![ops[i].unit].bindings = ops[i].key],
             IF Crossed(i) THEN {"crossed"} ELSE {})
  /\ UNCHANGED left

\* It does not load: the unit keeps the new name and what it had.
LoadFails(i) ==
  /\ ops[i].at = "loading" /\ left.fails > 0
  /\ left' = [left EXCEPT !.fails = @ - 1]
  /\ ops' = [ops EXCEPT ![i] = Over] /\ trouble' = trouble \cup {"unloaded"}
  /\ UNCHANGED <<units, unit, slots, sampling, engine, contexts, streams, ui>>

Next ==
  \/ Click(StartClick) \/ Click(AddUnit)
  \/ \E u \in ToSet(units) : \/ \E key \in Keys : Click(ChangeModule(u, key))
                             \/ \E on \in BOOLEAN : Click(SetHardwareDesignated(u, on))
                             \/ \E v \in ToSet(units) : Click(Drop(u, v))
                             \/ Click(ToggleLoopback(u)) \/ Click(DeleteUnit(u))
  \/ \E i \in DOMAIN ops : \/ Loaded(i) \/ LoadFails(i) \/ Resumed(i) \/ ChainLoaded(i) \/ PlaybackLoaded(i)
                           \/ \E granted \in BOOLEAN : MicAnswers(i, granted)
                           \/ WorkletFails(i) \/ Closed(i)

Spec == Init /\ [][Next]_vars

-----------------------------------------------------------------------------
(***************************************************************************)
(* Properties.                                                             *)
(***************************************************************************)
Open == {c \in DOMAIN contexts : contexts[c].open}
Settled == \A i \in DOMAIN ops : ~InEngine(i)

\* When no start or stop is on its way, a running engine has one open context with all its nodes
\* in it, a stopped one has none, and no microphone stream is on that the engine does not know.
\* Only handlers that met in the engine, or a start that failed, leave something behind.
EngineWhole ==
  Settled /\ trouble \cap {"overlap", "failed"} = {} =>
    /\ streams = {engine.mic} \ {None}
    /\ IF engine.running
         THEN /\ Open = {engine.ctx} /\ engine.node = engine.ctx /\ engine.play = engine.ctx
              /\ engine.source = (IF engine.mic = None THEN None ELSE engine.ctx)
         ELSE Open = {} /\ streams = {}

\* The page shows what the engine does, also after a restart that failed: the button, and the
\* level graphs of all units but those that still wait for their module.
ShownAsRunning ==
  Settled /\ "overlap" \notin trouble =>
    /\ ui.text = (IF engine.running THEN "stop" ELSE "start") /\ ~ui.disabled /\ ~ui.rebuilding
    /\ \A u \in ToSet(units) :
         u \in sampling \/ ~engine.running \/ (unit[u].bindings = "none" /\ ~unit[u].designated)
    /\ ~engine.running => sampling = {}

\* When every handler has ended, the scheduler has the chain the page shows, each unit with the
\* module it is named for, whatever was asked for while audio restarted.  Loads of one unit that
\* end out of order, or under a unit made a hardware slot meanwhile, break it.
SlotsFollow ==
  Quiet /\ trouble \cap {"crossed", "unloaded"} = {} =>
    /\ Len(slots.chain) = Len(units)
    /\ \A k \in DOMAIN units :
         /\ slots.chain[k].unit = units[k] /\ slots.chain[k].designated = unit[units[k]].designated
         /\ slots.chain[k].bindings = (IF unit[units[k]].designated THEN "none" ELSE unit[units[k]].key)
    /\ slots.loopback = (units # <<>> /\ unit[Last(units)].loopback)

\* Audio never runs without a unit, unless the last one was deleted while audio started, or
\* while it restarted.
SoleUnit == engine.running /\ "cut" \notin trouble => units # <<>>

=============================================================================
