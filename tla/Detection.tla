----------------------------- MODULE Detection -----------------------------
(***************************************************************************)
(* Events on their way from the simulator through the detection engine:    *)
(* the attack queue and the sends of simulator/engine.py, the topic, the   *)
(* worker's from_raw, de-duplication and DetectionEngine.evaluate, the     *)
(* sliding windows in Redis (detection/windows.py) and the row that is     *)
(* stored.                                                                 *)
(*                                                                         *)
(* Two clocks meet in a window: a member is scored, and older ones are     *)
(* trimmed, by the event's own timestamp, while measure() trims, and Redis *)
(* expires the key, by the wall clock.  An event may be long on its way,   *)
(* so the two differ.                                                      *)
(***************************************************************************)
EXTENDS DetectionRules, Scenarios

CONSTANTS
    Slack,     \* what expire() adds to the window
    InFlight,  \* how many of the oldest messages workers may take next
    MaxDrain,  \* bound: how long an attack event waits to be sent
    MaxLag,    \* bound: how long a message waits for a worker, redeliveries included
    DedupTtl,  \* _DEDUP_TTL: 600 seconds
    Budgets    \* bounds: ticks, launches, background and foreign events, faults,
               \* redeliveries, and the room for messages on the topic

Kinds == {"ticks", "launches", "normal", "foreign", "faults", "redeliveries", "room"}

ASSUME DetectionAssumption ==
    /\ Slack \in Nat /\ InFlight \in Nat \ {0}
    /\ MaxDrain \in Nat /\ MaxLag \in Nat /\ DedupTtl \in Nat
    \* siem:seen-events outlives every message that may be read again: what
    \* happens once it expires is in StreamProcessor.
    /\ MaxLag < DedupTtl
    /\ WindowRules = {"RULE-001", "RULE-002", "RULE-003", "RULE-006", "RULE-007"}
    /\ \A rule \in WindowRules : {Params[rule].max, Params[rule].window} \subseteq Nat \ {0}
    /\ \A budget \in Budgets : budget \in [Kinds -> Nat]

\* What the background leaves alone: fewer accounts share a workstation than
\* RULE-002 asks for and flows go to fewer ports than RULE-003 does, an account
\* has two devices (models.py:79-93), a benign query returns at most 120 rows
\* (normal.py:91), and all that is sent is below the volume of RULE-006.
ASSUME BackgroundAssumption ==
    /\ Users \in Seq(Members(Users)) /\ IsFiniteSet(FirewallPorts)
    /\ \A ip \in Addresses :
         Cardinality({u \in Members(Users) : ip \in {HomeOf[u], SecondOf[u]}}) < Params["RULE-002"].max
    /\ Cardinality(FirewallPorts) < Params["RULE-003"].max
    /\ 2 < Params["RULE-007"].max
    /\ LargeRowcount \in Nat /\ 120 < LargeRowcount
    /\ MaxBytes \in Nat /\ \A budget \in Budgets : budget.normal < Params["RULE-006"].max

\* Where an attack comes from, and what a draw of it can be: a brute force does not
\* come from an account's own device (rand_external_ip()).
ASSUME AttackAssumption ==
    /\ AttackIp \in Addresses \ {None} /\ {None, Blank} \cap Members(Users) = {}
    /\ "ssh_brute_force" \in Names =>
         \A u \in Members(Users) : AttackIp \notin {HomeOf[u], SecondOf[u]}
    /\ \A i \in DOMAIN ScanPorts : ValidatePort(<<ScanPorts[i]>>) # <<>>
    /\ Chunk \subseteq 1..MaxBytes

\* What an attack takes to be seen: of the one instance the model follows, what may
\* be lost leaves as many failures, names, ports or bytes as the rule asks for.
ASSUME EnoughAssumption ==
    \A budget \in {b \in Budgets : b.launches > 0}, name \in Names :
        LET n == Sizes[name]
            enough(rule) == Params[rule].max + budget.faults
        IN  /\ budget.launches = 1 /\ budget.foreign = 0
            /\ name = "ssh_brute_force" => n >= enough("RULE-001")
            /\ name = "credential_attack" =>
                 1..n \subseteq DOMAIN Users /\ Cardinality({Users[i] : i \in 1..n}) >= enough("RULE-002")
            /\ name = "port_scan" =>
                 /\ 1..n \subseteq DOMAIN ScanPorts
                 /\ Cardinality({ScanPorts[i] : i \in 1..n}) >= enough("RULE-003")
            /\ name = "privilege_escalation" => n >= 2 + budget.faults
            /\ name = "data_exfiltration" =>
                 \E least \in Chunk : /\ \A bytes \in Chunk : least <= bytes
                                      /\ n >= budget.faults
                                      /\ least * (n - budget.faults) >= Params["RULE-006"].max

VARIABLES
    clock,    \* the wall clock
    queue,    \* SimulatorEngine._attack_queue
    topic,    \* messages sent and not yet done with, oldest first
    sends,    \* messages sent so far: their uuid4
    windows,  \* the sorted sets siem:win:*, each with its expiry
    seen,     \* siem:seen-events
    rows,     \* the table security_events
    attack,   \* history: the scenario launched and what it has set off
    last,     \* history: the last evaluation
    log,      \* history: every member ever added, by key
    cuts,     \* history: what the cutoffs of measure() were due to remove, by key
    taken,    \* history: the evaluations so far, each with its message and its id
    left      \* what is left of the budget

vars == <<clock, queue, topic, sends, windows, seen, rows, attack, last, log, cuts, taken, left>>

\* The rule a scenario is there for; the draws of sql_attack may all be queries
\* that no pattern of RULE-005 matches, and web_attack has no rule.
Demonstrates ==
    [ssh_brute_force |-> "RULE-001", credential_attack |-> "RULE-002", port_scan |-> "RULE-003",
     privilege_escalation |-> "RULE-004", data_exfiltration |-> "RULE-006"]

NoAttack == [scenario |-> "none", at |-> 0, fired |-> {}, evaluated |-> 0, gap |-> 0]
Nothing == [at |-> -1, looks |-> {}, detections |-> {}]

Init ==
    /\ clock = 0 /\ queue = <<>> /\ topic = <<>> /\ sends = 0
    /\ windows = <<>> /\ seen = {} /\ rows = {}
    /\ attack = NoAttack /\ last = Nothing /\ log = <<>> /\ cuts = {}
    /\ taken = {}
    /\ left \in Budgets

Spend(kind) == left[kind] > 0 /\ left' = [left EXCEPT ![kind] = @ - 1]

\* Mutant: Redis never drops a key.
TickWithoutExpiry ==
    /\ Spend("ticks")
    /\ clock' = clock + 1
    /\ UNCHANGED <<queue, topic, sends, windows, seen, rows, attack, last, log, cuts, taken>>

\* Time passes while nothing waits longer than its bound; Redis drops a key
\* whose time has come.
Tick ==
    /\ Spend("ticks")
    /\ queue # <<>> => clock - attack.at < MaxDrain
    /\ \A i \in DOMAIN topic : clock - topic[i].sent < MaxLag
    /\ clock' = clock + 1
    /\ windows' = [k \in {w \in DOMAIN windows : windows[w].expiry > clock + 1} |-> windows[k]]
    /\ UNCHANGED <<queue, topic, sends, seen, rows, attack, last, log, cuts, taken>>

-----------------------------------------------------------------------------
(* The producers. *)

ForeignMessages(now) ==
    LET failure == [Login(now, "linux_server", FALSE, Users[1], AttackIp)
                       EXCEPT !.event_id = [form |-> "text", n |-> 0]]
        command == [MakeEvent(now, "scheduler", "config_change", "success")
                       EXCEPT !.username = "root", !.action = {}, !.message = {"text", "command"},
                              !.extra = [user_role |-> "admin"], !.metadata = <<>>]
    IN  {failure,
         [failure EXCEPT !.event_id = NoId, !.timestamp = NoTimestamp],
         [failure EXCEPT !.timestamp = Garbage],
         [failure EXCEPT !.timestamp = At(now + Day)],
         [failure EXCEPT !.timestamp = At(now + 2 * Day)],
         [failure EXCEPT !.source = Blank, !.source_type = "mainframe"],
         [failure EXCEPT !.username = Overlong, !.status = "refused"],
         [failure EXCEPT !.service = Overlong],
         [failure EXCEPT !.action = {"text", Overlong}],
         [failure EXCEPT !.source_ip = "-", !.event_type = "logon"],
         command,
         [command EXCEPT !.event_type = "db_query", !.username = "app",
                         !.metadata = [query |-> {"text", "union"}, rows_returned |-> <<>>]]}

\* _enqueue_scenario: a complete instance joins the attack queue.
Launch(name) ==
    /\ Spend("launches")
    /\ \E instance \in Instances(name, clock) : queue' = instance
    /\ attack' = [NoAttack EXCEPT !.scenario = name, !.at = clock, !.evaluated = clock]
    /\ UNCHANGED <<clock, topic, sends, windows, seen, rows, last, log, cuts, taken>>

Uuid == [form |-> "uuid", n |-> sends]
Send(raw, from) ==
    /\ Len(topic) < left.room
    /\ topic' = Append(topic, [raw |-> raw, sent |-> clock, n |-> sends, from |-> from])
    /\ sends' = sends + 1

\* _emit_tick: queued attack events go first ...
EmitAttack ==
    /\ queue # <<>>
    /\ queue' = Tail(queue)
    /\ Send([Head(queue) EXCEPT !.event_id = Uuid], "attack")
    /\ UNCHANGED <<clock, windows, seen, rows, attack, last, log, cuts, taken, left>>

\* ... and one that has left the queue is lost when its send fails;
EmitFails ==
    /\ queue # <<>> /\ Spend("faults")
    /\ queue' = Tail(queue)
    /\ UNCHANGED <<clock, topic, sends, windows, seen, rows, attack, last, log, cuts, taken>>

\* ... background is generated as it is sent.
EmitNormal ==
    /\ queue = <<>> /\ Spend("normal")
    /\ \E raw \in NormalEvent(clock) : Send([raw EXCEPT !.event_id = Uuid], "normal")
    /\ UNCHANGED <<clock, queue, windows, seen, rows, attack, last, log, cuts, taken>>

\* Another producer of the topic, with messages of its own making.
Foreign ==
    /\ Spend("foreign")
    /\ \E raw \in ForeignMessages(clock) : Send(raw, "foreign")
    /\ UNCHANGED <<clock, queue, windows, seen, rows, attack, last, log, cuts, taken>>

-----------------------------------------------------------------------------
(* The windows. *)

\* Mutants: the cutoff keeps one instant more; the key lives no longer than
\* the window.
AfterLate(S, cutoff) == {m \in S : m.ts >= cutoff}
ExpireAtWindow(rule) == clock + Params[rule].window

\* ZREMRANGEBYSCORE -inf cutoff, and EXPIRE.
After(S, cutoff) == {m \in S : m.ts > cutoff}
ExpireAt(rule) == clock + Params[rule].window + Slack

Kept(key) == IF key \in DOMAIN windows THEN windows[key] ELSE [members |-> {}, expiry |-> 0]

\* Mutant: add_and_measure is left to its default for `now`, the wall clock.
AddAtWallClock(w, e) ==
    [members |-> After(Kept(w.key).members, clock - Params[w.rule].window)
                     \cup {[value |-> w.value, ts |-> e.timestamp, n |-> e.event_id]},
     expiry  |-> ExpireAt(w.rule)]

\* add_and_measure and incr_sum: trim by the event's time, add, renew the TTL.
AddAndMeasure(w, e) ==
    [members |-> After(Kept(w.key).members, e.timestamp - Params[w.rule].window)
                     \cup {[value |-> w.value, ts |-> e.timestamp, n |-> e.event_id]},
     expiry  |-> ExpireAt(w.rule)]

\* measure: trim by the wall clock.
MeasureOnly(w) ==
    [members |-> After(Kept(w.key).members, clock - Params[w.rule].window),
     expiry  |-> Kept(w.key).expiry]

Looked(w, e) == IF w.mode = "add" THEN AddAndMeasure(w, e) ELSE MeasureOnly(w)

-----------------------------------------------------------------------------
(* The worker. *)

\* A partition keeps the order of the messages with one key: the source_ip, or
\* the source.
PartitionKey(raw) == IF raw.source_ip # None THEN raw.source_ip ELSE raw.source
Deliverable(i) ==
    /\ i <= Len(topic)
    /\ \A j \in 1..(i - 1) : PartitionKey(topic[j].raw) # PartitionKey(topic[i].raw)

\* The offset is committed, or the worker dies before it is and the message is
\* read again; `faults` detectors have raised.
Possible(again, faults) == (again => left.redeliveries > 0) /\ faults <= left.faults
Finish(i, again, faults) ==
    /\ left' = [left EXCEPT !.redeliveries = @ - (IF again THEN 1 ELSE 0), !.faults = @ - faults]
    /\ topic' = IF again THEN topic
                ELSE SubSeq(topic, 1, i - 1) \o SubSeq(topic, i + 1, Len(topic))

\* DetectionEngine.evaluate: the detectors that apply, but for one that raises.
Run(e, broken) == {rule \in Rules \ broken : Applies(rule, e)}

\* What a measure() by the wall clock finds too old.
Outdated(w) ==
    {m \in IF w.key \in DOMAIN log THEN log[w.key] ELSE {} : m.ts <= clock - Params[w.rule].window}

Evaluation(e, broken) ==
    LET run == Run(e, broken)
        asked == {Window(rule, e) : rule \in run \cap WindowRules}
        looks == {[key |-> w.key, rule |-> w.rule, mode |-> w.mode, ts |-> e.timestamp,
                   members |-> Looked(w, e).members] : w \in asked}
        members(rule) == IF rule \in WindowRules
                         THEN (CHOOSE l \in looks : l.rule = rule).members ELSE {}
        added == {w \in asked : w.mode = "add"}
        after == [k \in DOMAIN windows \cup {w.key : w \in asked} |->
                     IF \E w \in asked : w.key = k
                     THEN Looked(CHOOSE w \in asked : w.key = k, e) ELSE windows[k]]
    IN  [run        |-> run,
         looks      |-> looks,
         detections |-> {<<rule, Verdict(rule, e, members(rule))>> : rule \in run}
                            \ (Rules \X {Quiet, "raises"}),
         windows    |-> [k \in {w \in DOMAIN after : after[w].members # {}} |-> after[k]],
         log        |-> [k \in DOMAIN log \cup {w.key : w \in added} |->
                            (IF k \in DOMAIN log THEN log[k] ELSE {})
                                \cup {[value |-> w.value, ts |-> e.timestamp, n |-> e.event_id]
                                         : w \in {a \in added : a.key = k}}],
         cuts       |-> UNION {{[key |-> w.key, member |-> m] : m \in Outdated(w)}
                                   : w \in asked \ added}]

\* `mine` is whether the event is one of the scenario's.
Evaluate(e, broken, mine) ==
    \E found \in {Evaluation(e, broken)} :
        /\ windows' = found.windows
        /\ last' = [at |-> clock, looks |-> found.looks, detections |-> found.detections]
        /\ log' = found.log
        /\ cuts' = cuts \cup found.cuts
        /\ attack' = IF ~mine THEN attack
                     ELSE IF attack.scenario \in DOMAIN Demonstrates
                             /\ Demonstrates[attack.scenario] \in found.run
                     THEN [attack EXCEPT !.fired = @ \cup found.detections, !.evaluated = clock,
                                         !.gap = IF clock - attack.evaluated > @
                                                 THEN clock - attack.evaluated ELSE @]
                     ELSE [attack EXCEPT !.fired = @ \cup found.detections]

Event(i) == FromRaw(topic[i].raw, clock, Cardinality(taken))

\* An unparseable timestamp: dropped and counted.
Reject(i, again) ==
    /\ Possible(again, 0) /\ Deliverable(i) /\ ~Accepted(topic[i].raw)
    /\ Finish(i, again, 0)
    /\ UNCHANGED <<clock, queue, sends, windows, seen, rows, attack, last, log, cuts, taken>>

\* The id has been seen: dropped.
Duplicate(i, again) ==
    /\ Possible(again, 0) /\ Deliverable(i) /\ Accepted(topic[i].raw) /\ Event(i).event_id \in seen
    /\ Finish(i, again, 0)
    /\ UNCHANGED <<clock, queue, sends, windows, seen, rows, attack, last, log, cuts, taken>>

\* process_batch on one message, up to the row: marked as seen, evaluated,
\* inserted; a row that does not fit fails the batch after that.
Process(i, broken, again) ==
    /\ Possible(again, Cardinality(broken)) /\ Deliverable(i) /\ Accepted(topic[i].raw)
    /\ \E e \in {Event(i)} :
       /\ e.event_id \notin seen
       /\ \A rule \in broken : Applies(rule, e)
       /\ seen' = seen \cup {e.event_id}
       /\ Evaluate(e, broken, topic[i].from = "attack")
       /\ rows' = IF Fits(RowFromEvent(e)) THEN rows \cup {RowFromEvent(e)} ELSE rows
       /\ taken' = taken \cup {[of |-> topic[i].n, nth |-> Cardinality(taken), from |-> topic[i].from,
                                 id |-> e.event_id, named |-> topic[i].raw.event_id # NoId,
                                 long |-> Overlong \in {e.source, e.username, e.service} \cup e.action]}
    /\ Finish(i, again, Cardinality(broken))
    /\ UNCHANGED <<clock, queue, sends>>

Next ==
    \/ Tick
    \/ \E name \in Names : Launch(name)
    \/ EmitAttack \/ EmitFails \/ EmitNormal \/ Foreign
    \/ \E i \in 1..InFlight, again \in BOOLEAN :
         \/ Reject(i, again) \/ Duplicate(i, again)
         \/ \E broken \in {{}} \cup {{rule} : rule \in Rules} : Process(i, broken, again)

Spec == Init /\ [][Next]_vars
-----------------------------------------------------------------------------
(***************************************************************************)
(* What detection promises.                                                *)
(***************************************************************************)

TypeOK ==
    /\ clock \in Nat
    /\ \A k \in DOMAIN windows : windows[k].members # {} /\ windows[k].expiry > clock
    /\ \A k \in DOMAIN windows : windows[k].members \subseteq log[k]
    /\ {r.id : r \in rows} \subseteq seen
    /\ seen = {t.id : t \in taken}
    /\ \A kind \in DOMAIN left : left[kind] \in Nat

\* The windows of one address are read in the order they were sent.
ByAddress == {"RULE-001", "RULE-002", "RULE-003", "RULE-006"}

\* A host's clock may be a day ahead (event.py:115-118).  Such an event trims
\* what came before it and stays for a day: its windows are left out below.
OnTime(key) == key \in DOMAIN log => \A m \in log[key] : m.ts <= last.at

(***************************************************************************)
(* "... within window_seconds" (docs/detection-rules.md:31, 50, 67, 122):  *)
(* an evaluation of a rule that watches an address counts exactly the      *)
(* events of its window, for an event no longer on its way than the slack  *)
(* of expire(): neither the TTL nor the trimming loses one, but for those  *)
(* a measure() has cut off by the wall clock (windows.py:64-81).           *)
(***************************************************************************)
CountsWindowExactly ==
    \A l \in last.looks :
        l.rule \in ByAddress /\ OnTime(l.key) /\ (l.mode = "add" => last.at - l.ts <= Slack) =>
        LET now == IF l.mode = "add" THEN l.ts ELSE last.at
            due == {m \in IF l.key \in DOMAIN log THEN log[l.key] ELSE {} :
                       /\ m.ts > now - Params[l.rule].window
                       /\ [key |-> l.key, member |-> m] \notin cuts}
        IN  l.members = due

(***************************************************************************)
(* What a detection reports as its span lies within one window             *)
(* (brute_force.py:62-66); a rule that watches an account reads several    *)
(* partitions, and may see an event that much too early as the evaluated   *)
(* one is late.                                                            *)
(***************************************************************************)
FiresWithinWindow ==
    \A l \in last.looks : OnTime(l.key) => \A f, g \in l.members :
        f.ts - g.ts < Params[l.rule].window + (IF l.rule \in ByAddress THEN 0 ELSE last.at - l.ts)

-----------------------------------------------------------------------------
Done == queue = <<>> /\ \A i \in DOMAIN topic : topic[i].from # "attack"

(***************************************************************************)
(* Each scenario fires the rule it demonstrates (README.md:226-231), with  *)
(* an event lost in a failing send or a failing detector, and however late *)
(* its events are read, as long as no two of them are further apart than   *)
(* the window lives in Redis.                                              *)
(***************************************************************************)
AttackIsDetected ==
    LET rule == Demonstrates[attack.scenario] IN
    /\ attack.scenario \in DOMAIN Demonstrates /\ Done
    /\ rule \in WindowRules => attack.gap < Params[rule].window + Slack
    => \E d \in attack.fired : d[1] = rule

(***************************************************************************)
(* "CRITICAL if a login then succeeds" (README.md:226): the breach that    *)
(* ends a brute force is, when it is read within the window after the      *)
(* attack began, and only then, although its own timestamp would count.    *)
(***************************************************************************)
BreachEscalates ==
    \A l \in last.looks :
        /\ attack.scenario = "ssh_brute_force"
        /\ l.rule = "RULE-001" /\ l.mode = "measure" /\ l.key[2] = AttackIp
        /\ attack.gap < Params[l.rule].window + Slack
        => (<<"RULE-001", "critical">> \in last.detections
                <=> last.at - attack.at < Params[l.rule].window)

(***************************************************************************)
(* Background alone sets off nothing but RULE-001: no account is seen at   *)
(* more than its two devices ("does NOT look like impossible-travel",      *)
(* models.py:79-81), no address at as many accounts or ports as a rule     *)
(* asks for.                                                               *)
(***************************************************************************)
BackgroundIsQuiet ==
    (\A t \in taken : t.from = "normal") =>
        \A d \in last.detections : d[1] = "RULE-001"

(***************************************************************************)
(* Validation is what keeps an event from the database: an accepted event  *)
(* has its row ("dropped, counted, logged; batch continues",               *)
(* docs/architecture.md:180), but for a source, user name, service or      *)
(* action longer than its column, which event.py cuts at 512 characters    *)
(* and models/event.py at 255 or 128.  Such an event takes the batch it is *)
(* in along: StreamProcessor has what becomes of a batch that fails.       *)
(***************************************************************************)
AcceptedIsStored ==
    \A t \in taken : ~t.long =>
        \E r \in rows : r.id = t.id

(***************************************************************************)
(* "event-id idempotency making it effectively-once" (pipeline.py:3-6): a  *)
(* message that is read again, within the 600 seconds its id is            *)
(* remembered, is not evaluated again, unless it has no id: then every     *)
(* reading makes it another event.                                         *)
(***************************************************************************)
OnlyIdlessCountTwice ==
    \A t, u \in taken : t.of = u.of /\ t.named => t = u
=============================================================================
