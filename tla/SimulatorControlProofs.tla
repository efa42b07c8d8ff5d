----------------------- MODULE SimulatorControlProofs -----------------------
(***************************************************************************)
(* Proofs about SimulatorControl, for any operators, calls, periods and    *)
(* bounds.                                                                 *)
(***************************************************************************)
EXTENDS SimulatorControl, TLAPS

\* A document is a function on its fields.
LEMMA DocumentFacts ==
    ASSUME NEW d
    PROVE  d \in Document <=> /\ d = [f \in Fields |-> d[f]]
                              /\ d.running \in BOOLEAN /\ d.rate \in Rates
                              /\ d.scenario \in Scenarios /\ d.burst \in BOOLEAN
  BY DEF Document, Fields

LEMMA SettingsFacts ==
    ASSUME NEW d \in Document
    PROVE  Settings(d) \in EngineSettings
  BY DEF Document, Fields, Settings, EngineSettings

LEMMA DefaultFacts == Default \in Document /\ Default.burst = FALSE
  BY SimulatorAssumption, DocumentFacts DEF Default, Fields

\* What the API accepts has fields of a document only, of their types.
LEMMA PatchFacts ==
    ASSUME NEW patch \in Patches
    PROVE  /\ DOMAIN patch \subseteq Fields
           /\ "running" \in DOMAIN patch => patch.running \in BOOLEAN
           /\ "rate" \in DOMAIN patch => patch.rate \in Rates
           /\ "scenario" \in DOMAIN patch => patch.scenario \in Scenarios
           /\ "burst" \in DOMAIN patch => patch.burst \in BOOLEAN
<1>1. PICK c \in Calls : ~Refused(c) /\ patch = Patch(c)
  BY DEF Patches
<1>2. CASE c.call = "configure"
  BY <1>1, <1>2, SimulatorAssumption DEF Patch, Refused, Fields
<1>3. CASE c.call # "configure"
  BY <1>1, <1>3, SimulatorAssumption DEF Patch, Refused, Fields
<1> QED
  BY <1>2, <1>3

LEMMA MergeFacts ==
    ASSUME NEW d \in Document, NEW patch \in Patches
    PROVE  Merge(d, patch) \in Document
  BY PatchFacts, DocumentFacts DEF Merge, Fields

\* The tick of the loop stays below the period after which both of its
\* intervals begin together.
LEMMA TickFacts ==
    ASSUME NEW t \in 0..(SyncTicks * BeatTicks - 1)
    PROVE  (t + 1) % (SyncTicks * BeatTicks) \in 0..(SyncTicks * BeatTicks - 1)
<1>1. SyncTicks \in Nat \ {0} /\ BeatTicks \in Nat \ {0}
  BY SimulatorAssumption
<1>2. SyncTicks * BeatTicks \in Nat \ {0}
  BY <1>1
<1>3. ASSUME NEW n \in Nat \ {0}, NEW i \in Nat PROVE i % n \in 0..(n - 1)
  BY <1>3
<1> QED
  BY <1>2, <1>3

\* A heartbeat that ages is dropped before its time to live is over.
LEMMA AgedFacts ==
    ASSUME NEW b \in [age : 0..(Ttl - 1), settings : EngineSettings] \cup {Absent}
    PROVE  /\ Aged(b) \in [age : 0..(Ttl - 1), settings : EngineSettings] \cup {Absent}
           /\ Aged(b) # Absent => b # Absent /\ Aged(b).age = b.age + 1
<1>1. Ttl \in Int /\ 0 < Ttl
  BY SimulatorAssumption
<1> QED
  BY <1>1 DEF Aged

LEMMA StartedFacts ==
    /\ Started \in [phase : {"tick"}, tick : {0}, settings : EngineSettings]
    /\ Down = [Started EXCEPT !.phase = "down"]
  BY SimulatorAssumption DEF Started, Down, EngineSettings
-----------------------------------------------------------------------------
(***************************************************************************)
(* Types.                                                                  *)
(***************************************************************************)
LEMMA InitTypeOK == Init => TypeOK
<1> SUFFICES ASSUME Init PROVE TypeOK
  OBVIOUS
<1>1. SyncTicks * BeatTicks \in Nat \ {0} /\ Ttl \in Nat
  BY SimulatorAssumption
<1>2. engine \in [phase : {"tick", "clearing", "beat", "emit", "down"},
                  tick : 0..(SyncTicks * BeatTicks - 1), settings : EngineSettings]
  <2>1. 0 \in 0..(SyncTicks * BeatTicks - 1)
    BY <1>1
  <2> QED
    BY <2>1, StartedFacts DEF Init
<1>3. engine.phase # "clearing"
  BY DEF Init, Started
<1> QED
  BY <1>1, <1>2, <1>3, SimulatorAssumption DEF Init, TypeOK

LEMMA RequestTypeOK ==
    ASSUME TypeOK, NEW o \in Operators,
           (\E c \in Calls : ReadState(o, c)) \/ WriteState(o) \/ RequestFails(o)
    PROVE  TypeOK'
<1>1. CASE \E c \in Calls : ReadState(o, c)
  <2>1. PICK c \in Calls : ReadState(o, c)
    BY <1>1
  <2>2. Patch(c) \in Patches /\ State \in Document
    BY <2>1, DefaultFacts DEF ReadState, Patches, State, TypeOK
  <2>3. requests' \in 0..RequestLimit
    BY <2>1, SimulatorAssumption DEF ReadState, TypeOK
  <2> QED
    BY <2>1, <2>2, <2>3 DEF ReadState, TypeOK
<1>2. CASE WriteState(o)
  <2>1. request[o].base \in Document /\ request[o].patch \in Patches
    BY <1>2 DEF WriteState, TypeOK
  <2>2. control' \in Document
    BY <1>2, <2>1, MergeFacts DEF WriteState
  <2> QED
    BY <1>2, <2>2 DEF WriteState, TypeOK
<1>3. CASE RequestFails(o)
  <2>1. faults' \in 0..FaultLimit
    BY <1>3, SimulatorAssumption DEF RequestFails, TypeOK
  <2> QED
    BY <1>3, <2>1 DEF RequestFails, TypeOK
<1> QED
  BY <1>1, <1>2, <1>3

LEMMA SyncTypeOK ==
    ASSUME TypeOK, SkipSync \/ Sync \/ SyncFails
    PROVE  TypeOK'
<1>1. CASE SkipSync
  BY <1>1 DEF SkipSync, TypeOK, AfterSync
<1>2. CASE SyncFails
  <2>1. faults' \in 0..FaultLimit
    BY <1>2, SimulatorAssumption DEF SyncFails, TypeOK
  <2> QED
    BY <1>2, <2>1 DEF SyncFails, TypeOK, AfterSync
<1>3. CASE Sync
  <2>1. CASE control # Absent /\ control.burst
    <3>1. control \in Document /\ Settings(control) \in EngineSettings
      BY <2>1, SettingsFacts DEF TypeOK
    <3>2. cleared' \in Document
      BY <1>3, <2>1, <3>1 DEF Sync, Document
    <3>4. cleared' # Absent
      BY <3>2, SimulatorAssumption
    <3>3. burstLeft' \in 0..BurstTicks
      BY <1>3, <2>1, SimulatorAssumption DEF Sync
    <3> QED
      BY <1>3, <2>1, <3>1, <3>2, <3>3, <3>4 DEF Sync, TypeOK, Applied
  <2>2. CASE control # Absent /\ ~control.burst
    <3>1. Settings(control) \in EngineSettings
      BY <2>2, SettingsFacts DEF TypeOK
    <3> QED
      BY <1>3, <2>2, <3>1 DEF Sync, TypeOK, Applied, AfterSync
  <2>3. CASE control = Absent
    BY <1>3, <2>3 DEF Sync, TypeOK, AfterSync
  <2> QED
    BY <2>1, <2>2, <2>3
<1> QED
  BY <1>1, <1>2, <1>3

LEMMA ClearTypeOK ==
    ASSUME TypeOK, ClearBurst \/ ClearFails
    PROVE  TypeOK'
<1>1. CASE ClearBurst
  BY <1>1 DEF ClearBurst, WriteBack, TypeOK, AfterSync
<1>2. CASE ClearFails
  <2>1. faults' \in 0..FaultLimit
    BY <1>2, SimulatorAssumption DEF ClearFails, TypeOK
  <2> QED
    BY <1>2, <2>1 DEF ClearFails, TypeOK, AfterSync
<1> QED
  BY <1>1, <1>2

LEMMA TickTypeOK ==
    ASSUME TypeOK, Beat \/ BeatFails \/ Emit \/ SendStalls
    PROVE  TypeOK'
<1>1. faults + 1 \in 0..FaultLimit \/ ~(faults < FaultLimit)
  BY SimulatorAssumption DEF TypeOK
<1>2. CASE Beat
  <2>1. Heartbeat \in [age : 0..(Ttl - 1), settings : EngineSettings]
    BY SimulatorAssumption DEF Heartbeat, TypeOK
  <2> QED
    BY <1>2, <2>1 DEF Beat, TypeOK
<1>3. CASE BeatFails
  BY <1>1, <1>3 DEF BeatFails, TypeOK
<1>4. Aged(beat) \in [age : 0..(Ttl - 1), settings : EngineSettings] \cup {Absent}
  BY AgedFacts DEF TypeOK
<1>5. BurstAfterTick \in 0..BurstTicks
  BY SimulatorAssumption DEF TypeOK, BurstAfterTick
<1>6. CASE Emit
  <2>1. (engine.tick + 1) % (SyncTicks * BeatTicks) \in 0..(SyncTicks * BeatTicks - 1)
    BY TickFacts DEF TypeOK
  <2> QED
    BY <1>4, <1>5, <1>6, <2>1 DEF Emit, TypeOK
<1>7. CASE SendStalls
  BY <1>1, <1>4, <1>5, <1>7 DEF SendStalls, TypeOK
<1> QED
  BY <1>2, <1>3, <1>6, <1>7

LEMMA LifeTypeOK ==
    ASSUME TypeOK, Stop \/ Die \/ Silence \/ Restart
    PROVE  TypeOK'
<1>1. restarts + 1 \in 0..RestartLimit \/ ~(restarts < RestartLimit)
  BY SimulatorAssumption DEF TypeOK
<1>2. 0 \in 0..BurstTicks /\ 0 \in 0..Ttl /\ 0 \in 0..(SyncTicks * BeatTicks - 1)
  <2>1. SyncTicks * BeatTicks \in Nat \ {0}
    BY SimulatorAssumption
  <2> QED
    BY <2>1, SimulatorAssumption
<1>3. CASE Stop
  BY <1>1, <1>2, <1>3, StartedFacts DEF Stop, TypeOK
<1>4. CASE Die
  BY <1>1, <1>2, <1>4, StartedFacts DEF Die, TypeOK
<1>5. CASE Silence
  <2>1. Aged(beat) \in [age : 0..(Ttl - 1), settings : EngineSettings] \cup {Absent}
    BY AgedFacts DEF TypeOK
  <2>2. silent + 1 \in 0..Ttl
    BY <1>5, SimulatorAssumption DEF Silence, TypeOK
  <2> QED
    BY <1>5, <2>1, <2>2 DEF Silence, TypeOK
<1>6. CASE Restart
  BY <1>2, <1>6, StartedFacts DEF Restart, TypeOK
<1> QED
  BY <1>3, <1>4, <1>5, <1>6

LEMMA NextTypeOK == TypeOK /\ [Next]_vars => TypeOK'
  BY RequestTypeOK, SyncTypeOK, ClearTypeOK, TickTypeOK, LifeTypeOK DEF Next, Loop, vars, TypeOK

(***************************************************************************)
(* A document is never without its fields, whatever the operators patch,   *)
(* and the engine writes one back exactly while it is clearing a burst.    *)
(***************************************************************************)
THEOREM TypeOKHolds == Spec => []TypeOK
  BY InitTypeOK, NextTypeOK, PTL DEF Spec
-----------------------------------------------------------------------------
(***************************************************************************)
(* The document and the bursts.                                            *)
(***************************************************************************)

\* A request holds the document as it read it, and the engine writes back one
\* without a burst.
ReadsAreDocuments ==
    /\ \A o \in Operators :
         request[o] # Absent =>
             request[o].base = IF request[o].seen = Absent THEN Default ELSE request[o].seen
    /\ cleared # Absent => ~cleared.burst

CountersOK == asked \in Nat /\ pulses \in Nat /\ overlaps \in Nat /\ dropped \in Nat

\* A flag in the document that the engine has not begun to clear is one more
\* burst to come, and is paid for already.
Owed == IF control # Absent /\ control.burst /\ engine.phase # "clearing" THEN 1 ELSE 0
FlagIsOwed == pulses + Owed <= asked + dropped + overlaps

DocInv ==
    /\ TypeOK
    /\ CountersOK
    /\ ReadsAreDocuments
    /\ SettledSettings
    /\ FlagIsOwed

LEMMA InitDocInv == Init => DocInv
<1> SUFFICES ASSUME Init PROVE DocInv
  OBVIOUS
<1>1. TypeOK
  BY InitTypeOK
<1>2. CountersOK /\ ReadsAreDocuments /\ FlagIsOwed
  BY DEF Init, CountersOK, ReadsAreDocuments, FlagIsOwed, Owed
<1>3. SettledSettings
  BY DEF Init, SettledSettings, State
<1> QED
  BY <1>1, <1>2, <1>3 DEF DocInv

LEMMA ReadDocInv ==
    ASSUME DocInv, TypeOK', NEW o \in Operators,
           (\E c \in Calls : ReadState(o, c)) \/ RequestFails(o)
    PROVE  DocInv'
<1>1. /\ UNCHANGED <<control, engine, cleared, history>>
      /\ \A p \in Operators :
           request'[p] # Absent =>
             \/ request'[p] = request[p]
             \/ request'[p].base = State /\ request'[p].seen = control
  BY DEF ReadState, RequestFails, DocInv, TypeOK
<1>2. ReadsAreDocuments'
  BY <1>1 DEF DocInv, ReadsAreDocuments, State
<1>3. CountersOK' /\ SettledSettings' /\ FlagIsOwed'
  BY <1>1 DEF DocInv, CountersOK, SettledSettings, State, FlagIsOwed, Owed, history
<1> QED
  BY <1>2, <1>3 DEF DocInv

\* An operator's write.  Without an overlap it patches the document it finds.
LEMMA WriteDocInv ==
    ASSUME DocInv, TypeOK', NEW o \in Operators, WriteState(o)
    PROVE  DocInv'
<1> DEFINE r == request[o]
<1>1. /\ r # Absent
      /\ control' = Merge(r.base, r.patch)
      /\ intended' = Merge(intended, r.patch)
      /\ asked' = IF Bursts(r.patch) THEN asked + 1 ELSE asked
      /\ overlaps' = IF control # r.seen THEN overlaps + 1 ELSE overlaps
      /\ request' = [request EXCEPT ![o] = Absent]
      /\ UNCHANGED <<engine, cleared, pulses, dropped>>
  BY DEF WriteState
<1>2. /\ r.base \in Document /\ r.patch \in Patches
      /\ r.base = IF r.seen = Absent THEN Default ELSE r.seen
  BY <1>1 DEF DocInv, TypeOK, ReadsAreDocuments
<1>3. control' \in Document /\ control' # Absent
  BY <1>1, <1>2, MergeFacts, SimulatorAssumption
<1>4. CountersOK'
  BY <1>1 DEF DocInv, CountersOK
<1>5. ReadsAreDocuments'
  BY <1>1 DEF DocInv, ReadsAreDocuments, TypeOK
<1>6. SettledSettings'
  <2> SUFFICES ASSUME overlaps' = 0 PROVE Settings(control') = Settings(intended')
    BY <1>3 DEF SettledSettings, State
  <2>1. control = r.seen /\ overlaps = 0
    BY <1>1 DEF DocInv, CountersOK
  <2>2. r.base = State /\ Settings(State) = Settings(intended)
    BY <1>2, <2>1 DEF State, DocInv, SettledSettings
  <2>3. \A f \in Fields \ {"burst"} : r.base[f] = intended[f]
    BY <2>2 DEF Settings
  <2> QED
    BY <1>1, <2>3 DEF Settings, Merge
<1>7. FlagIsOwed'
  <2>1. CASE Bursts(r.patch) \/ control # r.seen
    <3>1. asked' + overlaps' >= asked + overlaps + 1
      BY <1>1, <2>1 DEF DocInv, CountersOK
    <3> QED
      BY <1>1, <3>1 DEF DocInv, CountersOK, FlagIsOwed, Owed
  <2>2. CASE ~Bursts(r.patch) /\ control = r.seen
    <3>1. control'.burst = IF "burst" \in DOMAIN r.patch THEN r.patch.burst ELSE r.base.burst
      BY <1>1 DEF Merge, Fields
    <3>2. control'.burst => control # Absent /\ control.burst
      BY <1>2, <2>2, <3>1, DefaultFacts DEF Bursts
    <3> QED
      BY <1>1, <2>2, <3>2 DEF DocInv, CountersOK, FlagIsOwed, Owed
  <2> QED
    BY <2>1, <2>2
<1> QED
  BY <1>4, <1>5, <1>6, <1>7 DEF DocInv

\* A burst begins with the flag it was owed for, and the flag counts again only
\* when the clearing write is dropped.
LEMMA SyncDocInv ==
    ASSUME DocInv, TypeOK', Sync
    PROVE  DocInv'
<1>1. UNCHANGED <<control, request, asked, intended, overlaps, dropped>> /\ engine.phase = "tick"
  BY DEF Sync
<1>2. CountersOK' /\ SettledSettings'
  BY <1>1 DEF Sync, DocInv, CountersOK, SettledSettings, State
<1>3. CASE control # Absent /\ control.burst
  <2>1. /\ engine'.phase = "clearing" /\ pulses' = pulses + 1
        /\ cleared' = [control EXCEPT !.burst = FALSE] /\ control \in Document
    BY <1>3 DEF Sync, Applied, DocInv, TypeOK
  <2>2. ~cleared'.burst
    BY <2>1 DEF Document
  <2>3. ReadsAreDocuments'
    BY <1>1, <2>2 DEF DocInv, ReadsAreDocuments
  <2>4. FlagIsOwed'
    BY <1>1, <1>3, <2>1 DEF DocInv, FlagIsOwed, Owed, CountersOK
  <2> QED
    BY <1>2, <2>3, <2>4 DEF DocInv
<1>4. CASE ~(control # Absent /\ control.burst)
  BY <1>1, <1>2, <1>4 DEF Sync, DocInv, ReadsAreDocuments, FlagIsOwed, Owed
<1> QED
  BY <1>3, <1>4

\* The engine's write takes the burst out of the document, and without an
\* overlap nothing else.
LEMMA ClearDocInv ==
    ASSUME DocInv, TypeOK', ClearBurst \/ ClearFails
    PROVE  DocInv'
<1>1. /\ engine.phase = "clearing" /\ cleared \in Document /\ cleared # Absent /\ ~cleared.burst
      /\ cleared' = Absent /\ UNCHANGED <<request, asked, pulses, intended>>
      /\ engine'.phase # "clearing"
  BY DEF ClearBurst, WriteBack, ClearFails, AfterSync, DocInv, TypeOK, ReadsAreDocuments
<1>2. ReadsAreDocuments'
  BY <1>1 DEF DocInv, ReadsAreDocuments
<1>3. CASE ClearBurst
  <2>1. /\ control' = cleared /\ dropped' = dropped
        /\ overlaps' = IF control # [cleared EXCEPT !.burst = TRUE] THEN overlaps + 1 ELSE overlaps
    BY <1>3 DEF ClearBurst, WriteBack
  <2>2. CountersOK' /\ FlagIsOwed'
    BY <1>1, <2>1 DEF DocInv, CountersOK, FlagIsOwed, Owed
  <2>3. SettledSettings'
    <3> SUFFICES ASSUME overlaps' = 0 PROVE Settings(cleared) = Settings(intended)
      BY <1>1, <2>1 DEF SettledSettings, State
    <3>1. control = [cleared EXCEPT !.burst = TRUE] /\ overlaps = 0
      BY <2>1 DEF DocInv, CountersOK
    <3>2. control \in Document /\ control # Absent
      BY <1>1, <3>1, SimulatorAssumption DEF Document
    <3>3. Settings(control) = Settings(cleared)
      BY <1>1, <3>1 DEF Settings, Document, Fields
    <3> QED
      BY <3>1, <3>2, <3>3 DEF DocInv, SettledSettings, State
  <2> QED
    BY <1>2, <2>2, <2>3 DEF DocInv
<1>4. CASE ClearFails
  <2>1. UNCHANGED <<control, overlaps>> /\ dropped' = dropped + 1
    BY <1>4 DEF ClearFails
  <2> QED
    BY <1>1, <1>2, <2>1 DEF DocInv, CountersOK, FlagIsOwed, Owed, SettledSettings, State
<1> QED
  BY <1>3, <1>4

\* The other steps leave the document and what is owed as they are; an engine
\* that dies while it is clearing drops its write.
LEMMA QuietDocInv ==
    ASSUME DocInv, TypeOK',
           \/ SkipSync \/ SyncFails \/ Beat \/ BeatFails \/ Emit \/ SendStalls
           \/ Stop \/ Die \/ Silence \/ Restart \/ UNCHANGED vars
    PROVE  DocInv'
<1>0. TypeOK
  BY DEF DocInv
<1>1. UNCHANGED <<control, request, asked, pulses, intended, overlaps>>
  BY DEF SkipSync, SyncFails, Beat, BeatFails, Emit, SendStalls, Stop, Die, Silence, Restart,
         vars, history
<1>2. cleared' = cleared \/ cleared' = Absent
  BY DEF SkipSync, SyncFails, Beat, BeatFails, Emit, SendStalls, Stop, Die, Silence, Restart, vars
<1>3. \/ dropped' = dropped /\ (engine'.phase = "clearing" <=> engine.phase = "clearing")
      \/ dropped' = dropped + 1
  <2>1. CASE SkipSync \/ SyncFails
    BY <1>0, <2>1 DEF SkipSync, SyncFails, AfterSync, TypeOK, history
  <2>2. CASE Beat \/ BeatFails \/ Emit \/ SendStalls
    BY <1>0, <2>2 DEF Beat, BeatFails, Emit, SendStalls, TypeOK, history
  <2>3. CASE Stop \/ Die \/ Silence \/ Restart \/ UNCHANGED vars
    BY <1>0, <2>3, StartedFacts DEF Stop, Die, Silence, Restart, vars, history
  <2> QED
    BY <2>1, <2>2, <2>3
<1>4. CountersOK' /\ FlagIsOwed'
  BY <1>1, <1>3 DEF DocInv, CountersOK, FlagIsOwed, Owed
<1>5. ReadsAreDocuments' /\ SettledSettings'
  BY <1>1, <1>2 DEF DocInv, ReadsAreDocuments, SettledSettings, State
<1> QED
  BY <1>4, <1>5 DEF DocInv

LEMMA NextDocInv == DocInv /\ [Next]_vars => DocInv'
<1> SUFFICES ASSUME DocInv, [Next]_vars PROVE DocInv'
  OBVIOUS
<1>1. TypeOK'
  BY NextTypeOK DEF DocInv
<1> QED
  BY <1>1, ReadDocInv, WriteDocInv, SyncDocInv, ClearDocInv, QuietDocInv DEF Next, Loop

LEMMA DocInvHolds == Spec => []DocInv
  BY InitDocInv, NextDocInv, PTL DEF Spec

(***************************************************************************)
(* As long as no two read-modify-write cycles on the document overlap, it  *)
(* holds the settings the operators' calls add up to, whatever calls of    *)
(* Redis fail and however often the engine writes it back                  *)
(* (simulator_control.py:57-71, engine.py:71-87).                          *)
(***************************************************************************)
THEOREM SettledSettingsHolds == Spec => []SettledSettings
<1>1. DocInv => SettledSettings
  BY DEF DocInv
<1> QED
  BY <1>1, DocInvHolds, PTL

(***************************************************************************)
(* A burst is a pulse: each one the engine begins was asked for, or comes  *)
(* of a clearing write that failed or of overlapping writes, one each      *)
(* (engine.py:83-87).                                                      *)
(***************************************************************************)
THEOREM PulsesExplainedHolds == Spec => []PulsesExplained
<1>1. DocInv => PulsesExplained
  BY DEF DocInv, CountersOK, FlagIsOwed, Owed, PulsesExplained
<1> QED
  BY <1>1, DocInvHolds, PTL
-----------------------------------------------------------------------------
(***************************************************************************)
(* The heartbeat.                                                          *)
(***************************************************************************)

\* Only time without an engine counts, and a heartbeat that is still there has
\* aged through all of it.
BeatInv ==
    /\ TypeOK
    /\ engine.phase # "down" => silent = 0
    /\ beat # Absent => silent <= beat.age

LEMMA NextBeatInv == BeatInv /\ [Next]_vars => BeatInv'
<1> SUFFICES ASSUME BeatInv, [Next]_vars PROVE BeatInv'
  OBVIOUS
<1>0. TypeOK /\ TypeOK' /\ silent \in Nat
  BY NextTypeOK DEF BeatInv, TypeOK
<1>1. beat # Absent => beat.age \in Nat
  BY <1>0 DEF TypeOK
<1>2. Aged(beat) # Absent => beat # Absent /\ Aged(beat).age = beat.age + 1
  BY <1>0, AgedFacts DEF TypeOK
<1>3. CASE \/ \E o \in Operators : (\E c \in Calls : ReadState(o, c)) \/ WriteState(o) \/ RequestFails(o)
           \/ UNCHANGED vars
  BY <1>0, <1>3 DEF ReadState, WriteState, RequestFails, vars, BeatInv
<1>4. CASE SkipSync \/ Sync \/ SyncFails \/ ClearBurst \/ ClearFails \/ BeatFails
  <2>1. UNCHANGED <<beat, silent>> /\ engine.phase # "down"
    BY <1>4 DEF SkipSync, Sync, SyncFails, ClearBurst, WriteBack, ClearFails, BeatFails
  <2> QED
    BY <1>0, <2>1 DEF BeatInv
<1>5. CASE Beat
  BY <1>0, <1>5 DEF Beat, Heartbeat, BeatInv
<1>6. CASE Emit \/ SendStalls
  <2>1. beat' = Aged(beat) /\ silent' = silent /\ engine.phase # "down"
    BY <1>6 DEF Emit, SendStalls
  <2> QED
    BY <1>0, <1>1, <1>2, <2>1 DEF BeatInv
<1>7. CASE Stop \/ Die
  <2>1. (beat' = Absent \/ beat' = beat) /\ silent' = silent /\ engine'.phase = "down"
    BY <1>7, StartedFacts DEF Stop, Die
  <2> QED
    BY <1>0, <2>1 DEF BeatInv
<1>8. CASE Silence
  <2>1. beat' = Aged(beat) /\ silent' = silent + 1 /\ engine'.phase = "down"
    BY <1>8 DEF Silence
  <2> QED
    BY <1>0, <1>1, <1>2, <2>1 DEF BeatInv
<1>9. CASE Restart
  BY <1>0, <1>1, <1>9 DEF Restart, BeatInv
<1> QED
  BY <1>3, <1>4, <1>5, <1>6, <1>7, <1>8, <1>9 DEF Next, Loop

(***************************************************************************)
(* The page shows no simulator as connected that has not run within the    *)
(* last Fresh ticks, for any periods with a time to live no shorter than   *)
(* that (simulator_control.py:74-86, engine.py:89-102).                    *)
(***************************************************************************)
THEOREM ConnectedHasRunHolds == Spec => []ConnectedHasRun
<1>1. Init => BeatInv
  BY InitTypeOK DEF Init, BeatInv
<1>2. BeatInv => ConnectedHasRun
  BY SimulatorAssumption DEF BeatInv, TypeOK, ConnectedHasRun, Connected
<1> QED
  BY <1>1, <1>2, NextBeatInv, PTL DEF Spec
=============================================================================
