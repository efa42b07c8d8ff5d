-------------------------- MODULE SimulatorControl --------------------------
(***************************************************************************)
(* The control plane of the event simulator: operators' requests on the    *)
(* API (api/routes/simulator.py, services/simulator_control.py) and the    *)
(* engine's loop in its own container (simulator/engine.py), which share   *)
(* one JSON document in Redis, siem:simulator:control; the engine reports   *)
(* back in siem:simulator:heartbeat, which the status page reads.           *)
(*                                                                         *)
(* Both sides change the document with a GET and a later SET of the whole  *)
(* of it, and the engine's errors on Redis are suppressed.                 *)
(***************************************************************************)
EXTENDS Integers

CONSTANTS
    Operators,     \* clients of the API
    Calls,         \* what operators ask for: [call, cfg], cfg with some fields
    Rates,         \* events per second an operator asks for
    Scenarios,     \* the scenarios the API lists
    Defaults,      \* the API's settings for a document not written yet
    Config,        \* the rate and the scenario the container starts with
    BurstTicks,    \* how long a burst lasts, in ticks of the loop (8 s)
    SyncTicks,     \* ticks between two reads of the document (2 s)
    BeatTicks,     \* ticks between two heartbeats (5 s)
    Fresh,         \* age at which a heartbeat says nothing any more (15 s)
    Ttl,           \* age at which Redis drops it (20 s)
    Absent,        \* the document has not been written yet
    RequestLimit,  \* bound: requests of the operators
    FaultLimit,    \* bound: calls on Redis that fail
    RestartLimit   \* bound: restarts of the container

EngineSettings == [running : BOOLEAN, rate : Rates, scenario : Scenarios]
Document == [running : BOOLEAN, rate : Rates, scenario : Scenarios, burst : BOOLEAN]
Fields == {"running", "rate", "scenario", "burst"}

ASSUME SimulatorAssumption ==
    /\ Rates \subseteq Nat
    /\ Absent \notin Document
    \* SimulatorConfig: what a call carries has been validated, but for the scenario.
    /\ \A c \in Calls :
         /\ DOMAIN c.cfg \subseteq {"rate", "scenario", "burst"}
         /\ "rate" \in DOMAIN c.cfg => c.cfg.rate \in Rates
         /\ "burst" \in DOMAIN c.cfg => c.cfg.burst \in BOOLEAN
    /\ Defaults \in [running : BOOLEAN, rate : Rates, scenario : Scenarios]
    /\ Config \in [rate : Rates, scenario : Scenarios]
    /\ {BurstTicks, SyncTicks, BeatTicks, Fresh, Ttl} \subseteq Nat \ {0}
    /\ BeatTicks < Fresh /\ Fresh <= Ttl
    /\ RequestLimit \in Nat /\ FaultLimit \in Nat /\ RestartLimit \in Nat

VARIABLES
    control,   \* siem:simulator:control
    request,   \* request[o]: the call an operator has under way
    engine,    \* EngineState, what the loop is about to do, and its tick
    burstLeft, \* ticks until _burst_until
    cleared,   \* what the engine is about to write back, once it saw a burst
    beat,      \* siem:simulator:heartbeat: its age and the settings in it
    requests, faults, restarts,
    asked,     \* history: patches with a burst that were written
    pulses,    \* history: bursts the engine began
    intended,  \* history: the settings the written patches add up to
    overlaps,  \* history: writes that restored what another write had changed
    dropped,   \* history: clearing writes that failed
    silent     \* history: for how long there has been no engine, up to Ttl

vars == <<control, request, engine, burstLeft, cleared, beat, requests, faults, restarts,
          asked, pulses, intended, overlaps, dropped, silent>>
history == <<asked, pulses, intended, overlaps, dropped>>

Default == [f \in Fields |-> IF f = "burst" THEN FALSE ELSE Defaults[f]]
Settings(d) == [f \in Fields \ {"burst"} |-> d[f]]

\* The patch a call comes to: /start with or without a configuration, /stop,
\* /configure.
Patch(c) ==
    IF c.call = "configure" THEN c.cfg
    ELSE [f \in {"running"} \cup DOMAIN c.cfg |->
              IF f = "running" THEN c.call = "start" ELSE c.cfg[f]]

\* 422: a /configure of nothing, or a scenario the API does not list.
Refused(c) ==
    \/ c.call = "configure" /\ DOMAIN c.cfg = {}
    \/ "scenario" \in DOMAIN c.cfg /\ c.cfg.scenario \notin Scenarios

Patches == {Patch(c) : c \in {d \in Calls : ~Refused(d)}}

\* A document is never without its fields, and the engine holds a document to
\* write back exactly while it is clearing a burst.
TypeOK ==
    /\ control \in Document \cup {Absent}
    /\ request \in [Operators -> [patch : Patches, base : Document,
                                  seen : Document \cup {Absent}] \cup {Absent}]
    /\ engine \in [phase : {"tick", "clearing", "beat", "emit", "down"},
                   tick : 0..(SyncTicks * BeatTicks - 1), settings : EngineSettings]
    /\ burstLeft \in 0..BurstTicks
    /\ cleared \in Document \cup {Absent}
    /\ engine.phase = "clearing" <=> cleared # Absent
    /\ beat \in [age : 0..(Ttl - 1), settings : EngineSettings] \cup {Absent}
    /\ silent \in 0..Ttl
    /\ requests \in 0..RequestLimit /\ faults \in 0..FaultLimit /\ restarts \in 0..RestartLimit

\* The command line takes the rate and the scenario from the environment, and
\* starts the engine running whatever the environment says of autostart.
Started == [phase |-> "tick", tick |-> 0,
            settings |-> [running |-> TRUE, rate |-> Config.rate,
                          scenario |-> Config.scenario]]

Init ==
    /\ control = Absent /\ request = [o \in Operators |-> Absent]
    /\ engine = Started /\ burstLeft = 0 /\ cleared = Absent /\ beat = Absent /\ silent = 0
    /\ requests = 0 /\ faults = 0 /\ restarts = 0
    /\ asked = 0 /\ pulses = 0 /\ intended = Default /\ overlaps = 0 /\ dropped = 0
-----------------------------------------------------------------------------
(***************************************************************************)
(* The API.                                                                *)
(***************************************************************************)

\* get_state: the document over the defaults.
State == IF control = Absent THEN Default ELSE control

\* Mutant: the patch takes the place of the state.
MergePatchOnly(d, patch) == patch

\* state.update(patch)
Merge(d, patch) == [f \in Fields |-> IF f \in DOMAIN patch THEN patch[f] ELSE d[f]]

Bursts(patch) == "burst" \in DOMAIN patch /\ patch.burst

\* Mutant: the patch is applied to the defaults instead of the document.
ReadDefault(o, c) ==
    /\ request[o] = Absent /\ requests < RequestLimit /\ ~Refused(c)
    /\ request' = [request EXCEPT ![o] = [patch |-> Patch(c), base |-> Default, seen |-> control]]
    /\ requests' = requests + 1
    /\ UNCHANGED <<control, engine, burstLeft, cleared, beat, faults, restarts, history,
                   silent>>

\* set_state reads the document ...
ReadState(o, c) ==
    /\ request[o] = Absent /\ requests < RequestLimit /\ ~Refused(c)
    /\ request' = [request EXCEPT ![o] = [patch |-> Patch(c), base |-> State, seen |-> control]]
    /\ requests' = requests + 1
    /\ UNCHANGED <<control, engine, burstLeft, cleared, beat, faults, restarts, history,
                   silent>>

\* ... and writes all of it back with the patch applied.
WriteState(o) ==
    /\ request[o] # Absent
    /\ control' = Merge(request[o].base, request[o].patch)
    /\ intended' = Merge(intended, request[o].patch)
    /\ asked' = IF Bursts(request[o].patch) THEN asked + 1 ELSE asked
    /\ overlaps' = IF control # request[o].seen THEN overlaps + 1 ELSE overlaps
    /\ request' = [request EXCEPT ![o] = Absent]
    /\ UNCHANGED <<engine, burstLeft, cleared, beat, requests, faults, restarts,
                   pulses, dropped, silent>>

\* The SET fails, or the client goes away: the request has changed nothing.
RequestFails(o) ==
    /\ request[o] # Absent /\ faults < FaultLimit
    /\ request' = [request EXCEPT ![o] = Absent]
    /\ faults' = faults + 1
    /\ UNCHANGED <<control, engine, burstLeft, cleared, beat, requests, restarts, history,
                   silent>>
-----------------------------------------------------------------------------
(***************************************************************************)
(* The engine.  A tick of its loop reads the document when that is due,    *)
(* reports when that is due, and sends.                                    *)
(***************************************************************************)

\* Mutants: the running flag is all that is taken from the document; a burst
\* never runs out; the heartbeat carries what the engine started with; a
\* heartbeat does not age.
AppliedRunning(e, d) == [e EXCEPT !.settings.running = d.running]
BurstRemains == burstLeft
BeatStarted == [age |-> 0, settings |-> Started.settings]
AgedNever(b) == b

Applied(e, d) == [e EXCEPT !.settings = Settings(d)]
BurstAfterTick == IF burstLeft > 0 THEN burstLeft - 1 ELSE 0

\* The heartbeat holds the time of its writing and the engine's state; Redis
\* drops it after its time to live.
Heartbeat == [age |-> 0, settings |-> engine.settings]
Aged(b) == IF b = Absent \/ b.age + 1 >= Ttl THEN Absent ELSE [b EXCEPT !.age = @ + 1]

SyncDue == engine.tick % SyncTicks = 0
BeatDue == engine.tick % BeatTicks = 0
AfterSync == IF BeatDue THEN "beat" ELSE "emit"

\* A tick of the loop that does not read the document.
SkipSync ==
    /\ engine.phase = "tick" /\ ~SyncDue
    /\ engine' = [engine EXCEPT !.phase = AfterSync]
    /\ UNCHANGED <<control, request, burstLeft, cleared, beat, requests, faults, restarts,
                   history, silent>>

\* _sync_from_redis: apply the document; a burst in it is to be cleared.
Sync ==
    /\ engine.phase = "tick" /\ SyncDue
    /\ IF control # Absent /\ control.burst
       THEN /\ engine' = [Applied(engine, control) EXCEPT !.phase = "clearing"]
            /\ burstLeft' = BurstTicks
            /\ cleared' = [control EXCEPT !.burst = FALSE]
            /\ pulses' = pulses + 1
       ELSE /\ engine' = [(IF control = Absent THEN engine ELSE Applied(engine, control))
                          EXCEPT !.phase = AfterSync]
            /\ UNCHANGED <<burstLeft, cleared, pulses>>
    /\ UNCHANGED <<control, request, beat, requests, faults, restarts,
                   asked, intended, overlaps, dropped, silent>>

\* The GET fails and the error is suppressed: the old settings stay.
SyncFails ==
    /\ engine.phase = "tick" /\ SyncDue /\ faults < FaultLimit
    /\ engine' = [engine EXCEPT !.phase = AfterSync]
    /\ faults' = faults + 1
    /\ UNCHANGED <<control, request, burstLeft, cleared, beat, requests, restarts,
                   history, silent>>

\* The engine writes back the whole document it read ...
WriteBack(d) ==
    /\ engine.phase = "clearing"
    /\ control' = d
    /\ overlaps' = IF control # [cleared EXCEPT !.burst = TRUE] THEN overlaps + 1 ELSE overlaps
    /\ engine' = [engine EXCEPT !.phase = AfterSync] /\ cleared' = Absent
    /\ UNCHANGED <<request, burstLeft, beat, requests, faults, restarts,
                   asked, pulses, intended, dropped, silent>>

\* Mutant: ... as it was read.
ClearNothing == WriteBack([cleared EXCEPT !.burst = TRUE])

\* ... without the burst.
ClearBurst == WriteBack(cleared)

\* The SET fails and the error is suppressed: the next read bursts again.
ClearFails ==
    /\ engine.phase = "clearing" /\ faults < FaultLimit
    /\ engine' = [engine EXCEPT !.phase = AfterSync] /\ cleared' = Absent
    /\ faults' = faults + 1 /\ dropped' = dropped + 1
    /\ UNCHANGED <<control, request, burstLeft, beat, requests, restarts,
                   asked, pulses, intended, overlaps, silent>>

\* _heartbeat, whose error is suppressed.
Beat ==
    /\ engine.phase = "beat"
    /\ beat' = Heartbeat /\ engine' = [engine EXCEPT !.phase = "emit"]
    /\ UNCHANGED <<control, request, burstLeft, cleared, requests, faults, restarts,
                   history, silent>>

BeatFails ==
    /\ engine.phase = "beat" /\ faults < FaultLimit
    /\ engine' = [engine EXCEPT !.phase = "emit"] /\ faults' = faults + 1
    /\ UNCHANGED <<control, request, burstLeft, cleared, beat, requests, restarts,
                   history, silent>>

\* The rest of the tick: the engine sends at its rate, ten times that in a
\* burst, and sleeps.
Emit ==
    /\ engine.phase = "emit"
    /\ engine' = [engine EXCEPT !.phase = "tick",
                                !.tick = (engine.tick + 1) % (SyncTicks * BeatTicks)]
    /\ burstLeft' = BurstAfterTick /\ beat' = Aged(beat)
    /\ UNCHANGED <<control, request, cleared, requests, faults, restarts, history, silent>>

\* A send that the broker holds up: a tick's time passes within the tick.
SendStalls ==
    /\ engine.phase = "emit" /\ faults < FaultLimit
    /\ burstLeft' = BurstAfterTick /\ beat' = Aged(beat) /\ faults' = faults + 1
    /\ UNCHANGED <<control, request, engine, cleared, requests, restarts, history, silent>>

Down == [Started EXCEPT !.phase = "down"]

\* SIGTERM: the loop ends after its tick and withdraws the heartbeat.
Stop ==
    /\ engine.phase = "tick" /\ restarts < RestartLimit
    /\ engine' = Down /\ beat' = Absent
    /\ burstLeft' = 0 /\ restarts' = restarts + 1
    /\ UNCHANGED <<control, request, cleared, requests, faults, history, silent>>

\* The container is killed, whatever it was doing.
Die ==
    /\ engine.phase # "down" /\ restarts < RestartLimit
    /\ engine' = Down
    /\ burstLeft' = 0 /\ cleared' = Absent /\ restarts' = restarts + 1
    /\ dropped' = IF engine.phase = "clearing" THEN dropped + 1 ELSE dropped
    /\ UNCHANGED <<control, request, beat, requests, faults, asked, pulses, intended,
                   overlaps, silent>>

\* Without an engine, or while its producer retries the broker, time passes.
Silence ==
    /\ engine.phase = "down" /\ silent < Ttl
    /\ beat' = Aged(beat) /\ silent' = silent + 1
    /\ UNCHANGED <<control, request, engine, burstLeft, cleared, requests, faults, restarts,
                   history>>

\* The container is started again, with the settings of its environment.
Restart ==
    /\ engine.phase = "down"
    /\ engine' = Started /\ silent' = 0
    /\ UNCHANGED <<control, request, burstLeft, cleared, beat, requests, faults, restarts,
                   history>>

Loop == SkipSync \/ Sync \/ ClearBurst \/ Beat \/ Emit \/ Restart

Next ==
    \/ \E o \in Operators :
         \/ \E c \in Calls : ReadState(o, c)
         \/ WriteState(o)
         \/ RequestFails(o)
    \/ Loop
    \/ SyncFails \/ ClearFails \/ BeatFails \/ SendStalls \/ Stop \/ Die \/ Silence

Spec == Init /\ [][Next]_vars

\* The loop of the engine and a request under way go on; nothing makes an
\* operator ask or a fault happen.
FairSpec == Spec /\ WF_vars(Loop) /\ \A o \in Operators : WF_vars(WriteState(o))

\* get_status: what the page calls a connected simulator.
Connected == beat # Absent /\ beat.age < Fresh
-----------------------------------------------------------------------------
(***************************************************************************)
(* Properties.                                                             *)
(***************************************************************************)

(***************************************************************************)
(* set_state and the clearing of a burst are each a GET and a SET of the   *)
(* whole document (simulator_control.py:60-70, engine.py:75-87).  As long  *)
(* as no two of them overlap, the document holds what the operators' calls *)
(* add up to: the engine writing it back undoes no stop and no new rate.   *)
(***************************************************************************)
SettledSettings == overlaps = 0 => Settings(State) = Settings(intended)

(***************************************************************************)
(* "clear the one-shot flag so a burst is a pulse, not a mode"             *)
(* (engine.py:85).  Every burst the engine begins beyond those asked for   *)
(* comes of a clearing write that failed or of overlapping writes.         *)
(***************************************************************************)
PulsesExplained == pulses <= asked + dropped + overlaps

\* What the engine runs with is what the document says.
Converged ==
    control # Absent =>
        engine.settings = Settings(control) /\ ~control.burst

(***************************************************************************)
(* "The simulator container polls that key and converges its generator     *)
(* rate / scenario to match" (simulator_control.py:4-5): once requests and *)
(* faults are over, the engine runs with the document's settings for good, *)
(* restarts and failed reads notwithstanding.                              *)
(***************************************************************************)
EngineConverges == <>[]Converged

(***************************************************************************)
(* A burst is over in the end: the engine returns to its base rate even if *)
(* a clearing write was lost or an operator's write brought the flag back. *)
(***************************************************************************)
BurstsEnd == <>[](burstLeft = 0)

(***************************************************************************)
(* What the status page shows (simulator_control.py:74-86) is the engine:  *)
(* a simulator shown as connected has run within the last Fresh ticks,     *)
(* however it ended, and whatever of its heartbeats failed.                *)
(***************************************************************************)
ConnectedHasRun == Connected => silent < Fresh

(***************************************************************************)
(* Once requests and faults are over the page shows a connected simulator, *)
(* and the settings in its heartbeat are the desired ones next to them.    *)
(***************************************************************************)
StatusConverges ==
    <>[](Connected /\ (control # Absent => beat.settings = Settings(control)))
=============================================================================
