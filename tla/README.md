# Verification of the SIEM engine

TLA+ models of the real-time SIEM engine, the TLC runs that check them on small
instances, and the TLAPS proofs about them. Paths are those of the repository;
`app/` stands for `backend/app/`.

## The system

Hosts and the simulator send security events to the topic `siem.events.raw`.
Workers of one consumer group read it; each runs a batch through a pipeline
that normalises events, drops duplicates, evaluates seven detection rules with
state in Redis, stores events and alerts in PostgreSQL and publishes them over
Redis pub/sub to dashboards. An API lets analysts work the alerts and operators
drive the simulator.

| Component | State | Operations | Meets |
|---|---|---|---|
| stream processor (`app/worker.py`, `app/streaming/`) | topic offsets, fetch positions, `siem:seen-events`, the rows of `security_events` | fetch, dedup, detect, persist, publish, commit; failure, crash, rebalance, signal | Kafka, Redis, PostgreSQL |
| event schema (`app/schemas/event.py`) | none | normalise, reject, identify | every message and every row |
| rules and windows (`app/detection/`) | one sorted set per rule and entity, with a time to live | add and measure, measure; a verdict per event and rule | workers on the same keys; event time and wall clock |
| producers and scenarios (`simulator/`) | the attack queue | launch, send, drop on failure | the topic |
| alert triage and correlation (`app/services/alerts.py`, `app/detection/correlation.py`) | `alerts`, `audit_logs`, open transactions | look up, insert, fold, commit, roll back; PATCH read and write | workers and analysts on the same rows |
| realtime channel (`app/api/routes/realtime.py`, `frontend/src/realtime/`) | subscriptions, the browser's lists and pause buffer | publish, forward, pause, resume, clear, reconnect | workers, API, browsers |
| simulator control plane (`app/services/simulator_control.py`, `simulator/engine.py`) | the document `siem:simulator:control`, the heartbeat; the engine's settings and burst | start, stop, configure; sync, clear, beat, emit | API and container on one document |
| minute metrics and detectors (`app/streaming/pipeline.py`, `app/detection/anomaly.py`, `ml.py`) | rolling window, minute bucket, EWMA baseline, ML buffer | count, show, roll over, flush, observe, train | workers on the same keys |
| dashboard metrics, system status, rate limiter (`app/services/metrics_service.py`, `app/core/security.py`) | limiter counters | poll | the keys the workers write |

What is hard: the order of Redis marks, transaction, publication and offset
commit under crashes; commits after a rebalance; read-modify-write cycles
without a lock or version (alert rows, simulator document, baselines); a unique
constraint that contains the status; two clocks on one window; caches and
heartbeats that outlive what they tell of; pub/sub without replay; errors that
are logged and dropped. `PROJECT.json` lists each of these hazards at its line.

What makes each part correct:

* stream processor: no committed event is lost without one of the known faults,
  subscribers hear of stored events only, offsets never go back, a redelivery
  is not evaluated twice, nothing gets stuck;
* detection: an evaluation counts exactly the events of its window, attacks are
  found although sends and detectors fail, background stays quiet, what is
  accepted is stored, an event keeps its identity;
* triage and feed: the audit log explains every status, `status_history` tells
  audited moves in order, every detection is counted, moves follow the
  workflow, no screen is ahead of the table and a connected one not behind it;
* control plane: no setting is lost without overlapping requests, bursts are
  pulses, the engine and the page converge to the document;
* metrics: minutes and windows add up, a dead worker is not shown as healthy
  and a live one not as dead, the limiter limits.

## Modules

| Module | Models | Builds on |
|---|---|---|
| `StreamProcessor`; `StreamProcessorProofs`, `StreamDeliveryProofs`, `StreamOnceProofs` | the consumer group and the batch loop | |
| `Delivery` | what the path from topic to database promises (abstract) | implemented by `StreamProcessor` |
| `EventSchema` | normalisation, identity, row | |
| `DetectionRules` | the seven rules as operators | `EventSchema` |
| `Scenarios` | attack scenarios and background | `EventSchema` |
| `Detection`; `DetectionProofs` | queue, topic, windows, evaluation | `DetectionRules`, `Scenarios` |
| `AlertTriage`; `AlertTriageProofs` | correlation and workflow on the rows | |
| `AlertFeed`; `AlertFeedProofs` | publication, web socket, browser | `AlertTriage` |
| `SimulatorControl`; `SimulatorControlProofs` | operators, engine, status page | |
| `MinuteMetrics` | rolling window, minutes, detectors, heartbeat | |
| `Dashboard`; `DashboardProofs` | rate limiter, metrics and status answers | `MinuteMetrics` |
| `MC...` | the small instances | |

### StreamProcessor

`log`, `committed`, `owner` and `position` are the broker's side; `pc`,
`pending` and `stopping` each worker's `run()`; `seen`, `stored` and
`published` the Redis set, the table and the channel. An action is the code
between two awaits:

| Action | Code |
|---|---|
| `Start`, `Assign`, `ResumeAt` | `EventConsumer.start`, group join, `auto_offset_reset="latest"` |
| `Poll` | `getmany`, decoding, stop check and validation (`kafka.py:126-149`, `pipeline.py:68-86`) |
| `CheckSeen`, `MarkSeen` | SISMEMBER and SADD pipelines (`pipeline.py:88-104`) |
| `Detect`, `Persist`, `Publish` | detection loop, transaction, pub/sub (`pipeline.py:106-161`) |
| `Commit` | `consumer.commit()` of the current positions |
| `BatchFails` | an exception caught at `worker.py:87-89`: the position stays |
| `Crash`, `Sigterm`, `Rebalance`, `Reassign`, `SeenExpires` | the environment |

History variables name the ways an event is lost: `orphaned` (marked in Redis by
a batch that never reached the database), `abandoned` (in a batch that raised)
and `skipped` (before the group's first offset). `NoSilentLoss` says there is no
other way.

`BatchMax`, `PublishCap` and the partitions keep their meaning at small values;
`MaxLog` bounds the topic and `FaultLimit` how often each fault strikes. A
failed operation that took effect (a lost reply) is a failure of the next stage.

### Delivery, and how StreamProcessor implements it

`Delivery` knows neither workers nor offsets: a record is sent, its event is
claimed by somebody, stored, told to subscribers, and the record acknowledged,
or it is lost, and then known to be. Its one strong guard is that of
`Acknowledge`: nothing is acknowledged that is not stored, claimed or lost.
`ImplementsDelivery` is that specification under the refinement mapping in
`StreamProcessor`: `sent` are the slots of the log with a well-formed event,
`acked` those of them below the committed offsets, `claimed` the ids in marked
batches, and `lost` what the three histories name. A batch whose worker dies after SADD turns its
claim into a loss (`Lose`), and a batch that fails after the transaction keeps
its events stored.

### EventSchema, DetectionRules, Scenarios, Detection

`FromRaw` is `SecurityEvent.from_raw` with its validators, `EventId` its three
kinds of identity, `Fits` the columns of the table. A text is the set of
features a rule looks for, a number that `int()` refuses is `<<>>`. Source, user
name, service and action are cut at 512 characters and stored in columns of 255
or 128: one that is longer than its column is `Overlong`, before the cut and after.

`DetectionRules` gives each rule as three operators: to which events it applies,
which window it asks for (key, member, add or only measure), and its verdict on
that window. `Scenarios` gives the sets of complete attack instances and of
background events; a draw per event is a rotation, a draw per instance a choice.

`Detection` puts them in motion. `Launch` fills the attack queue; `EmitAttack`,
`EmitFails`, `EmitNormal` and `Foreign` put messages on the topic; `Process`
normalises one, marks its id, evaluates every rule that applies (any of them may
raise) and stores the row; `Reject` and `Duplicate` are the early ends. A
redelivery leaves the message on the topic. `AddAndMeasure` is the MULTI of
`add_and_measure` and `incr_sum` with the event's time as `now`; `MeasureOnly`
trims by the wall clock; `Tick` lets Redis drop a key. A message is processed
alone here: how batches fail and repeat is StreamProcessor's subject. `taken`
keeps every evaluation by its number, so that a message evaluated twice is there
twice. `DedupTtl`, the 600 s that `siem:seen-events` lives, is assumed to be longer
than a message waits, redeliveries included; its expiry is in StreamProcessor.

### AlertTriage

`rows` and `audit` are the committed tables, `draft` the uncommitted rows of a
worker's transaction, `hand` the detection it applies with the row it looked
up, `patch` the request of an analyst with the row it loaded. PostgreSQL is
READ COMMITTED with row locks and the unique constraint on
`(rule_id, correlation_key, status)`; a writer waits for a lock or for an
uncommitted row with the same unique value. `Lookup` then `Insert` or `Fold`
are `AlertCorrelator.apply`; `PatchRead`, then `PatchWrite` or `PatchRefused`,
are `update_alert_status`. SQLAlchemy writes only the columns that changed:
`Fold` therefore leaves the status alone, and takes `metadata` from its own
copy, or leaves it, as the detection changes it or not.

A deadlock is a state in which both sides wait; `Rollback` is always open to a
worker there, as PostgreSQL aborts one. The batch of a rolled-back transaction
is not retried; that loss belongs to StreamProcessor.

### AlertFeed

Every action of AlertTriage with what it publishes. `outbox` is
`alert_payloads`, filled inside the transaction; `sending` what a worker still
publishes after the commit, `telling` the payload of a PATCH. A publication
reaches the subscriptions of its moment (`Broadcast`). `Connect` and `Subscribe`
are two steps since the socket is accepted first. `FeedPatchSame` is the PATCH to
the status an alert has already: nothing is written, but the row that was loaded
is published, after a fold of the same row may have been. The row was then
written again between snapshot and publication, which `untold` records. `Receive` is the browser's
`onmessage`; `Resume` follows React: the updater that merges the pause buffer
runs at rendering, after the click handler has emptied the buffer, so what a
pause kept back is not shown. `untold` and `unheard` collect the reasons why a
browser may not know an alert's latest news or an event.

### SimulatorControl

`control` is the JSON document, `request` the API calls between their GET and
their SET, `cleared` the document the engine is about to write back after a
burst, `beat` the heartbeat with its age. `Patch` and `Refused` are the routes
`/start`, `/stop`, `/configure`. Time is counted in ticks of the engine's loop
(at least a tenth of a second), scaled so that the order of the periods is
kept: reading every 2 s, heartbeat every 5 s, burst 8 s, `Fresh` 15 s, `Ttl`
20 s. `SendStalls` is a tick's time passing within a tick, `Stop` a SIGTERM that
withdraws the heartbeat, `Die` a kill that does not, `Silence` time passing
without an engine. `Started` runs whatever `autostart` says, as
`simulator/__main__.py:82` has it, while the API's default document says it does
not run: the instance has this disagreement.

### MinuteMetrics and Dashboard

A worker's `Pipeline` is `worker[w]`: `n` and `bucket` the minute's counter,
`win` and `opened` the rolling window, `buffer` and `trained` the ML detector,
`round` and `due` where its refresher is and when its next round begins. An action
is the code up to the next call that may fail, or after which a worker may die:

| Action | Code |
|---|---|
| `Beat`, `Measure`, `ExpireLag` | the refresher's SET of the heartbeat, its queries and the HSET of the lag, and the EXPIRE (`worker.py:36-44`) |
| `Batch` | the counting of a batch, to its early return when no event is fresh, or to the window or the minute that is over (`pipeline.py:68-180`) |
| `Show`, `ExpireRolling`, `Record` | HSET and EXPIRE of the rolling hash; publication, history and the new window (`pipeline.py:181-223`) |
| `Flush`, `Observe` | GET and SET of one metric's baseline after another (`pipeline.py:242-252`, `anomaly.py:56-94`) |
| `Learn`, `Alert` | the ML detector; the alerts for what the detectors found, and the next minute's bucket (`pipeline.py:254-259`, `226-230`) |
| `Fail` | a call that does not answer, or whose reply is lost: the batch ends at `worker.py:87-89`, the minute stays open |
| `Die`, `Start`, `Break`, `Mend`, `Tick` | processes, services and the clock |

`Break` and `Mend` change `out`, the set of services out of order. The value of a
metric is the number of the minute's fresh events, and its baseline the number and
the sum of the values folded into it. `folded` is how many metrics of the minute
have theirs: a flush that fails after some of them folds these again with the next
batch. `account[m]` keeps, per metric, what was counted again, what died with a
worker and what another worker's SET overwrote; `torn` the hashes which an HSET
made and whose EXPIRE never came, so that Redis keeps them for ever (`Forever`).

`Dashboard` adds what reads these keys: `Poll` with the fixed-window counter, and
`EventsInWindow`, `SystemStatus`, `StatusRates` and `LagMeasured` as answers of the
API. The metrics page shows rates only while heartbeat and measurement are fresh;
the status page shows whatever rates Redis still holds, up to 300 s old.

## Runs

| Run | Instance | Shows |
|---|---|---|
| `stream_group` | 2 workers, 2 partitions, 2 messages, one of each fault but a signal | no silent loss, no publication before storage, offsets monotone; the invariant of the proofs; every step is one of `Delivery` |
| `stream_solo` | 1 worker, 3 messages, fair | every event is handled; redelivery alone does not evaluate twice |
| `stream_failed_batch` | 1 worker, 1 error | *violated*: a batch that failed in its transaction is retried before a later one is stored and committed (`docs/architecture.md:183`) |
| `stream_crash` | 1 worker, 1 crash | *violated*: committed events are stored (`docs/architecture.md:52`); the event is sent once, marked, lost in the crash and dropped as a duplicate of itself |
| `stream_sigterm` | 1 worker, 1 signal, fair | *violated*: SIGTERM stops a worker (`docs/architecture.md:185`) |
| `alerts_team` | 2 workers, 2 analysts, 2 alerts, 2 keys, 2 detections, 3 moves | audit and history under every race; the invariant of the proofs |
| `alerts_transition_race` | 2 analysts | *violated*: transitions are validated (`docs/threat-model.md:93`) |
| `alerts_resolve_refused` | 1 analyst, 1 key | *violated*: a resolved alert does not block a fresh one (`models/alert.py:50-52`) |
| `alert_feed` | 1 worker, 1 analyst, 1 browser; four plans | counts, workflow; screens neither ahead of the table nor, without a reason, behind it |
| `detection` | all rules and scenarios; four budgets | windows counted exactly, attacks found, background quiet, accepted stored |
| `simulator_control` | 2 operators, 2 requests, 2 faults, 1 restart, fair | losses only by overlap, bursts explained, engine and page converge |
| `dashboard` | 2 workers, 1 client, 2 metrics; six budgets | sums of minutes and windows, training, limiter, what the pages show of workers alive and gone |

The bounds are small and reach the cases that matter.

* Streams: two messages and two partitions let a commit after a rebalance pass
  what another worker fetched; three messages let a later batch pass a failed
  one and a duplicate share its batch.
* Triage: two alerts of one key are what folding, reopening and the unique
  constraint are about; `HistoryMax = 2` makes three moves cut the history.
* `alert_feed`: one plan spends its steps on triage alone (3 detections, 3
  moves), one on the alerts of a screen (2 and 2), one on a screen whose
  connection is lost or whose publication is refused, one on live events with
  pauses. `MaxEvents = 2` and `MaxAlerts = 1` are exceeded.
* `detection`: a tick is 15 s; windows are those of `core/config.py`, thresholds
  and attack sizes are scaled down together so that an attack exceeds its
  threshold by one and survives one loss. The budgets are an attack with time to
  pass while it is queued and read, background, another producer's malformed,
  late, early, id-less or over-long messages with redeliveries, and two such
  messages a window apart. `Slack = 2` ticks is `expire(window + 30)`.
* `simulator_control`: two requests overlap each other or one overlaps the
  engine; a restart and two faults meet both. `SyncTicks` 2 < `BeatTicks` 3 <
  `BurstTicks` 4, as 2 s < 5 s < 8 s.
* `dashboard`: a tick is 10 s, a minute two ticks. Two metrics stand for six:
  one is folded before the other, which is where a flush can break; the proofs
  are for any number. `BeatFresh` 2 < `RollFresh` 3 < `LagTtl` 4 < `RollTtl` 5 keep
  the order of 20 s, 30 s, 60 s and 300 s. The budgets are two workers on the same
  baselines; one through enough minutes to fill the ML buffer and train again on
  a full one; one whose services fail during a flush; one that fails and dies; one
  that dies, is restarted and stays away until its keys expire; and a page that
  asks more often than allowed. `idles` bounds the rounds in which a worker
  without a partition has no lag to tell.

Symmetry is used in `stream_group` and `alerts_team`, which check no liveness.
`CHECK_DEADLOCK FALSE` is set where the bounds on messages, moves, clicks or
time end a behaviour; `simulator_control` runs with the deadlock check, since
the engine's loop never ends.

**Limits of the passing runs.**

* `CountsEveryDetection`, `TwoActiveMeansReopened` and `ShownIsCommitted` are
  checked with one worker: with two, both read the same count, or both look up
  before either inserts, and `correlator.apply` has no defence against it. The
  second insert waits and fails while the status is `open`, but not once the
  first alert has moved on. `OnlyAllowedTransitions` holds with one analyst.
* `CountsWindowExactly` is about the rules keyed by an address, whose events one
  partition keeps in order, about events no later than the slack, and excludes
  the members a `measure()` has cut off by the wall clock (`cuts`).
  `FiresWithinWindow` grants the rule keyed by an account, which reads several
  partitions, as much more than its window as the evaluated event is late. Both
  leave out keys with an event from the future, which stays in its window until
  its own time has passed. Beyond the bounds of the run both can fail for
  another producer's messages, which may carry any timestamp and so break the
  order a partition has with the simulator; the theorems say so (`Alone`).
* `BreachEscalates` says when a breach becomes critical: when it is *read*
  within the window after the attack began. A worker that lags by more finds no
  breach, although the timestamps are seconds apart.
* `AttackIsDetected` has no claim for `sql_attack`, whose draws may all be the
  stacked query that matches no pattern, nor for `web_attack`, which no rule is
  about. `BackgroundIsQuiet` excepts RULE-001: all `svc_` accounts share an
  address, and their occasional failures add up.
* `AcceptedIsStored` excepts events with a text longer than its column. Such an
  event fails the insert of its whole batch, after the ids were marked as seen:
  the others in it are lost as StreamProcessor's `abandoned` are.
* `MinutesAddUp` names what is lost: the running minute of a worker that stops,
  and observations overwritten by another worker's SET; and what counts again:
  the metrics a flush had folded when a later call of it failed, be it the next
  metric's GET or an alert. Two workers feed partial minutes to one baseline,
  which is warm twice as early.
* `SystemStatus` raises, rather than says "down", when Redis is out of order.
* `DeadIsBlank` claims no rates on the metrics page only. The status page shows
  the rates of a worker that is gone for 300 s, and both pages its lag for 60 s;
  either stays for ever when the worker died, or Redis failed, between the HSET
  that made the hash and its EXPIRE, until a later worker's EXPIRE.
* `SettledSettings` says that a setting is lost only by overlapping requests; that
  it is lost then, be it a stop, is what the code does.
* Redis keeps its data over an outage in the models. `docker-compose.yml:79` runs
  it without persistence and with `allkeys-lru`: a restart of Redis loses seen ids,
  windows, baselines, the rate limiter's counters and the control document at
  once, and under memory pressure any key may go. `SeenExpires` is the one such
  loss that is modelled.

`docs/detection-rules.md:31` says "more than" `max_failures`; the code fires at
the threshold itself, as its reason text does.

## Fairness

`StreamProcessor!Fairness` has weak fairness on each worker's steps, on its
restart and on the coordinator's reassignment: asyncio resumes a coroutine when
its reply arrives, containers are restarted, and the group protocol gives
partitions to live members. Nothing is assumed of producers, faults or signals.
`SimulatorControl!FairSpec` has weak fairness on the engine's loop, which
includes the container's restart, and on the SET of each request; operators
and faults are free, and bounded. A call that fails takes the place of the
call that would have succeeded, so the bound on faults is what says that Redis
answers in the end. Detection, AlertFeed and Dashboard have safety properties
only: what must happen there within a time is said with the clock
(`LiveIsHealthy`, `DeadIsBlank`) or of a state in which nothing is under way
(`AttackIsDetected`, `QuietFeedIsCurrent`).

## Proofs

The theorems hold for every value of the constants that satisfies the modules'
named assumptions: counters and periods are naturals, sentinels are not members
of the sets they extend, the parameters of the rules are positive. A theorem
that needs more says so in an `ASSUME` of its own.

| Theorem | Needs | Why the code or the instance has it |
|---|---|---|
| `NoSilentLossHolds`, `PublishedAreStoredHolds`, `OffsetsNeverRegressHolds`, `ImplementsDeliveryHolds` | | |
| `RedeliveryEvaluatesOnceHolds` | one worker, no expiry of the seen ids | two workers check and mark the ids with two calls; an expired set knows nothing |
| `AuditExplainsStatusHolds`, `HistoryIsAuditedHolds` | | |
| `OnlyAllowedTransitionsHolds`, `FeedAllowedTransitionsHolds` | one analyst | two race (`alerts_transition_race`) |
| `TwoActiveMeansReopenedHolds`, `FeedTwoActiveHolds` | one worker, one analyst | two workers both look up before either inserts |
| `CountsEveryDetectionHolds`, `FeedCountsHolds` | one worker | a second one may read the same count, and both commit it |
| `FeedImplementsTriage`, `FeedTypeOKHolds`, `LiveTailHolds` | | |
| `ShownIsCommittedHolds`, `QuietFeedIsCurrentHolds` | one worker | a second one's smaller count may be committed, or published, last |
| `SettledSettingsHolds`, `PulsesExplainedHolds`, `ConnectedHasRunHolds` | | |
| `MinutesCloseOnceHolds`, `RateIsLimitedHolds` | | |
| `MinutesAddUpHolds`, `WindowsAddUpHolds` | finitely many workers (an assumption of the module) | processes |
| `ModelIsRecentHolds` | the training period divides the buffer's size | 720 and 30 |
| `LiveIsHealthyHolds` | the refresher's wait is shorter than a heartbeat is believed | 10 s and 20 s |
| `DeadIsBlankHolds` | there are workers | |
| `AcceptedIsStoredHolds`, `OnlyIdlessCountTwiceHolds` | | |
| `BackgroundIsQuietHolds` | `BackgroundAssumption`: fewer accounts share a workstation and flows go to fewer ports than the rules ask for, an account has two devices, all background flows together stay below RULE-006's volume | `models.py:79-93`, `normal.py`; the last bounds the run: a background flow, some kilobytes against 50 MiB, counts as one unit of volume |
| `AttackIsDetectedHolds`, `BreachEscalatesHolds` | that, `AttackAssumption` and `EnoughAssumption`: one instance and no producer but the simulator, from an address that is no account's own device, with more failures, names, ports or bytes than its rule asks for, by the number of faults | 15 to 32 failures (10 asked for), 12 to 24 names sampled without repetition (8), 25 to 60 ports (20), 120 to 900 MiB (50), a login and 2 to 4 commands |
| `CountsWindowExactlyHolds`, `FiresWithinWindowHolds` | `Alone`: the simulator is the only producer | it is the only one in the repository; see the limits above |

**StreamProcessor.** `NoSilentLoss` is not inductive: `Commit` covers whatever
was fetched, so what is fetched must be accounted for; what `CheckSeen` drops is
dropped because its id is in Redis, so what is in Redis must be settled. `IInv`
therefore has

* `FetchedIsHandled`: a slot below the owner's position is accounted for, or in
  the owner's batch before it was marked;
* `SeenIsSettled`: an id in Redis is stored, in a marked batch, or orphaned;
* `PositionsInOrder`: committed ≤ position ≤ length of the log;
* `PendingInOrder` and `DownOwnsNothing`: what `pc` says of a batch and of
  partitions.

`Invariance` proves `Spec => []IInv`, one lemma per action, from which
`NoSilentLossHolds` and `PublishedAreStoredHolds` follow; `OffsetsNeverRegressHolds`
needs `PositionsInOrder` in the step `Commit`. `StreamDeliveryProofs` names, for
every action, the step of `Delivery` it is under the refinement mapping, or shows
that it changes nothing there; the guard of `Acknowledge` is where
`NoSilentLoss` is used. `StreamOnceProofs` adds that what was evaluated was
marked before (`OnceInv`), and that a batch which passed the check stays fresh
while nobody else marks ids.

**AlertTriage.** `AuditExplainsStatus` could break at `Commit`, which installs a
worker's draft over the rows: `DraftsKeepStatus` says the draft has the
committed status, which no request can change meanwhile because it waits for
the lock, and `OneWriterPerRow` that no other draft competes. `InHandExist`
keeps audited moves, requests and lookups on rows that exist. For
`HistoryIsAudited`, `HistoryInv` says of *every* copy of a history, in the table, in
drafts, in a worker's hand, in a request, that it tells audited moves of its
alert in order: whichever stale copy wins, it is one of those. `FreshRead` says
that a single analyst's request still has the status it was checked against,
and `ReopenInv` that a worker which found no active alert of its key still sees
none but reopened ones. `CountsInv` follows the counts that were read: what the
worker sees is never behind the table, a request's copy never ahead of it. On it
rests `CountedInv`, which compares the *slots* of a key, the pairs of an alert and
a number up to its count, with the detections raised for it, in the table and in
what the worker sees: a flush adds at least the slot of the new detection, and no
step takes one away.

**AlertFeed.** Each step of the feed is a step of triage or leaves its variables
alone, so that `IInv` is there to use. `FeedTypes` types what is in each pipe.
`LiveTail` becomes inductive with the events still in the inbox (`Tailed`): their
numbers increase, and are above all that the browser keeps. For
`ShownIsCommitted`, `BackedInv` says of everything published and not yet shown,
and of everything in an open transaction's outbox, that the table, or the worker's
view of it, backs it. For `QuietFeedIsCurrent`, `QuietInv` follows the *last* message of
an alert (`Latest`) through the queues: unless the alert is in doubt, every worker
and every request that has any news of it to send ends with one that says what the
table says, in whichever order they publish (`Arrives`, `SameArrives`), and
once it is received it is on the screen until others push it out, which needs that
no alert is there twice (`ListsInv`). `NotesInv` says that the outbox tells what the
open transaction has written, `TurnsInv` that nothing is overwritten before it is
published.

**SimulatorControl.** `DocInv` carries `SettledSettings` through the gap between
a GET and a SET: a request, or the engine's clearing, that no write has overlapped
holds a document whose settings are still the current ones; and a burst flag in
the document is owed to somebody (`FlagIsOwed`). `BeatInv` ties the heartbeat's age
to the time since the simulator last ran.

**MinuteMetrics and Dashboard.** The invariants are about all of `DashSpec`,
pages included. `SumsInv` has the two sums and that a process which is down holds
nothing; a step of one worker changes its own column of the held events
(`TotalChange`) and the counters by the same number. For the minutes that is said
of each metric (`Balances`): what the worker read of a baseline is never ahead of it
(`ReadsAreOld`), so that what its SET takes from another's is a number.
`MinuteOrder`
puts the open bucket after every closed minute; `TrainingInv` ties the age of the model to the length of the buffer; `RateInv` ties
the answers granted in the current minute to Redis's counter, from which the
bound on any span follows by counting in two minutes; `RoundInv` bounds the age
of the heartbeat by the refresher's next round, and `LastBeatInv` says the last
heartbeat is not younger than the last worker. `RollingInv` and `LagInv` say of
either hash that it is kept no longer than its time to live after the last worker,
or that a worker has yet to send its EXPIRE, or that it is torn (`KeyInv`).

**Detection.** `Outcome` states what `Evaluation` does to each key: the rule that
asked for it reads exactly what its window operation leaves, and all other keys
stay. `IdInv` numbers the messages, so that only a message without an id can be
taken under two ids. The two theorems about windows rest on `Ordered` (without a
foreign producer the messages of one address reach the windows in the order of
their timestamps, none of which is in the future) and on `Exact`: a member ever
added to a key is either still held or has been *missed* for a reason, because
it was cut off, because it is older than the window of what came later, or
because its key has expired, and then no event within the slack can want it.

`BackgroundIsQuiet` and `AttackIsDetected` are about the scenarios, so what the
generators draw enters as the two assumptions on the constants above. For the
quiet background `QuietInv` says that background messages on the topic are as their
generator makes them (`Plain`), that the number of them is bounded (`Volume`,
`Few`), and that while only background has been evaluated the windows hold *usual*
members: RULE-002's the accounts of one workstation, RULE-003's ports of
`FirewallPorts`, RULE-007's the two devices of its account, RULE-006's one unit of
volume for each. Each verdict is then below its threshold, rule by rule.

For the attack, `AttackInv` distinguishes three situations: nothing is to come that a
rule is promised for (`Moot`), an instance may still be launched and only background
has been evaluated (`Ready`), or one is under way (`AtWar`). An attack under way
is followed by *labels*, one for each of its events the rule counts: the value,
where the rule counts distinct values, else the message. `Promise` is the
set of the labels still queued, unread on the topic, or counted. No step loses one
but a failing send or a raising detector, which takes a fault from the budget,
so that the promise never falls below what the rule asks for plus the faults left
(`Hope`). `Alive` keeps what was counted in Redis until the window's life after the
last evaluation is over, which is where `attack.gap` enters: the timestamps
of an instance are equal, so no add cuts one of its members off. `Fires`
says that the rule has fired once it counted enough. When nothing is queued or
unread, everything promised has been counted (`AttackInvDetects`). For
`BreachEscalates` the order matters: the messages of one address reach a worker in the
order they were sent, so the login is evaluated when nothing else of the attack is
left (`InOrder`), and `measure()` then finds either all of the counted failures or,
a window's length after the attack began, none of them.

**Induction.** The library's induction theorems take an operator as a parameter,
which the provers cannot instantiate. `InductionOnSet` in `AlertFeedProofs` is the
same principle with the set of the numbers that satisfy it in the operator's
place, and `WithoutFacts` and `WithoutOnce` use it for the recursive function behind the
browser's list. A sum over workers or alerts is the number of elements of a set of
pairs, so that the library's facts about cardinality take the place of an
induction over the summands. Where a rule itself sums, RULE-006 over the bytes in its window,
the bounds on the sum (`TotalBounds`, `TotalOver`) are shown by a least counterexample
among the subsets of the window, whose strict inclusion the library proves
well-founded.

Only model-checked is liveness (`EveryEventIsHandled`, `EngineConverges`, `BurstsEnd`,
`StatusConverges`): fairness and ENABLED are out of the prover's reach. Every
invariant of a passing run, and `OffsetsNeverRegress`, `OnlyAllowedTransitions` and
`ImplementsDelivery` besides, is proved.

## Not modelled

* The read API: SQL aggregates over one snapshot, without state changes. Lists
  are paged by OFFSET over an order that moves as alerts fold, so a page may
  repeat or miss a row; that is a property of a single query and its successor,
  with no state of the program in between.
* Dashboard pages: rendering; what they send is an action of the modules above.
* Configuration, seed and migrations: run once and sequentially.
* Scores of the anomaly and ML detectors: floating-point arithmetic and a
  library. Passwords and tokens: libraries.
* The SSE endpoint, which no page uses; the metrics channel, which overwrites
  one value; the delays of the browser's reconnection.
* The active-alert gauge, rewritten field by field without a DEL, and Prometheus
  counters, which nothing in the program reads back.
* The cap of 50 entries on metadata and 128 characters on their keys
  (`schemas/event.py:203`); IPv6 scope ids and NUL characters, which validation lets
  through and a column may refuse.
* How many events a simulator tick sends and which scenario it draws: any
  launch at any time covers them.
* In the modelled parts: payloads, severities of alerts, evidence and wording.

## Plan

Done: all modules, the runs, and the proofs of every safety property above. What
could be added is a second instance of a scenario under way at the same time
(`EnoughAssumption` has one launch), and liveness, should the prover come to
support it.
