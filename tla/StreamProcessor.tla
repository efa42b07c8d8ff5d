-------------------------- MODULE StreamProcessor --------------------------
(***************************************************************************)
(* The stream processor: the topic siem.events.raw, the consumer group of  *)
(* workers reading it (app/worker.py, app/streaming/kafka.py) and the      *)
(* batch pipeline each of them runs (app/streaming/pipeline.py), up to the *)
(* commit of the group's offsets.                                          *)
(*                                                                         *)
(* One action stands for the code between two awaits, because that is      *)
(* where another worker, a failure or a crash can come in.  The alerts a   *)
(* batch raises are the business of AlertTriage; here a batch only carries *)
(* its events.                                                             *)
(***************************************************************************)
EXTENDS Integers, Sequences, FiniteSets

CONSTANTS
    Workers,      \* worker processes, all in the group siem-processor
    Partitions,   \* partitions of the topic
    Events,       \* event ids of the well-formed messages
    Invalid,      \* a JSON message that SecurityEvent.from_raw rejects
    Undecodable,  \* a message that is not JSON
    NoWorker,     \* the owner of a partition nobody consumes
    BatchMax,     \* settings.consumer_batch_max
    PublishCap,   \* events published per batch (100 in the code)
    MaxLog,       \* bound: messages in the topic
    FaultLimit    \* bound: how often each kind of fault may strike

FaultKinds == {"error", "crash", "expire", "rebalance", "sigterm"}

ASSUME StreamAssumption ==
    /\ NoWorker \notin Workers
    /\ Invalid \notin Events
    /\ Undecodable \notin Events
    /\ BatchMax \in Nat \ {0}
    /\ PublishCap \in Nat
    /\ MaxLog \in Nat
    /\ FaultLimit \in [FaultKinds -> Nat]

VARIABLES
    log,        \* the topic: a sequence of messages per partition
    committed,  \* the group's committed offset per partition, or NoOffset
    owner,      \* which worker a partition is assigned to
    position,   \* the owner's fetch position: messages up to it were fetched
    pc,         \* where each worker is in its loop
    pending,    \* the slots of the batch a worker is processing
    stopping,   \* the worker's asyncio.Event "stop" is set
    seen,       \* the Redis set siem:seen-events
    stored,     \* event ids that are rows of security_events
    published,  \* event ids sent to siem:stream:events
    detected,   \* history: event ids the detection engine evaluated
    redetected, \* history: event ids it evaluated more than once
    orphaned,   \* history: ids put in seen by a batch that was never persisted
    abandoned,  \* history: slots of a batch that raised before it was persisted
    skipped,    \* history: slots jumped over by auto_offset_reset="latest"
    faults      \* how often each kind of fault has struck

brokerVars  == <<log, committed, owner, position>>
workerVars  == <<pc, pending, stopping>>
storeVars   == <<seen, stored, published>>
historyVars == <<detected, redetected, orphaned, abandoned, skipped>>
vars == <<brokerVars, workerVars, storeVars, historyVars, faults>>

Messages == Events \cup {Invalid, Undecodable}
NoOffset == -1

\* A slot is one record of the topic: its partition and its place, from 1.
Slots == UNION {{p} \X (1..Len(log[p])) : p \in Partitions}
Msg(s) == log[s[1]][s[2]]
Ids(S) == {Msg(s) : s \in S}

\* A batch between SADD and the end of its transaction, and before SADD.
Marked  == {"detect", "persist"}
Unmarked == {"check", "mark"}
Live == {w \in Workers : pc[w] # "down"}

TypeOK ==
    /\ log \in [Partitions -> Seq(Messages)]
    /\ committed \in [Partitions -> Nat \cup {NoOffset}]
    /\ owner \in [Partitions -> Workers \cup {NoWorker}]
    /\ position \in [Partitions -> Nat]
    /\ pc \in [Workers -> {"down", "poll", "publish", "commit"} \cup Marked \cup Unmarked]
    /\ pending \in [Workers -> SUBSET Slots]
    /\ stopping \in [Workers -> BOOLEAN]
    /\ seen \subseteq Events /\ stored \subseteq Events /\ published \subseteq Events
    /\ detected \subseteq Events /\ redetected \subseteq Events /\ orphaned \subseteq Events
    /\ abandoned \subseteq Slots /\ skipped \subseteq Slots
    /\ faults \in [FaultKinds -> Nat]

Init ==
    /\ log = [p \in Partitions |-> <<>>]
    /\ committed = [p \in Partitions |-> NoOffset]
    /\ owner = [p \in Partitions |-> NoWorker]
    /\ position = [p \in Partitions |-> 0]
    /\ pc = [w \in Workers |-> "down"]
    /\ pending = [w \in Workers |-> {}]
    /\ stopping = [w \in Workers |-> FALSE]
    /\ seen = {} /\ stored = {} /\ published = {}
    /\ detected = {} /\ redetected = {} /\ orphaned = {}
    /\ abandoned = {} /\ skipped = {}
    /\ faults = [k \in FaultKinds |-> 0]

Strike(k) ==
    /\ faults[k] < FaultLimit[k]
    /\ faults' = [faults EXCEPT ![k] = @ + 1]

Goto(w, from, to) ==
    /\ pc[w] = from
    /\ pc' = [pc EXCEPT ![w] = to]
-----------------------------------------------------------------------------
(***************************************************************************)
(* The broker.                                                             *)
(***************************************************************************)

\* A producer appends a message.  The key is the source address, which may be
\* absent, so the same event may be produced twice and to any partition.
Produce(p, m) ==
    /\ Cardinality(Slots) < MaxLog
    /\ log' = [log EXCEPT ![p] = Append(@, m)]
    /\ UNCHANGED <<committed, owner, position, workerVars, storeVars, historyVars, faults>>

\* Mutant: the consumer seeks to the beginning, ignoring the group's offset.
ResumeAtStart(p) == 0

\* Where a consumer starts in a partition it is given: at the committed offset,
\* or at the end when the group has none there (auto_offset_reset="latest").
ResumeAt(p) == IF committed[p] = NoOffset THEN Len(log[p]) ELSE committed[p]

\* The group coordinator hands every partition to one of the members.
Assign(members) ==
    /\ \E a \in [Partitions -> members] : owner' = a
    /\ position' = [p \in Partitions |-> ResumeAt(p)]
    /\ skipped' = skipped \cup {s \in Slots : committed[s[1]] = NoOffset}

\* Mutant: a worker that leaves keeps its partitions.
ReleaseNothing(w) == UNCHANGED owner

\* The partitions of a worker that has left have no owner until a rebalance.
Release(w) == owner' = [p \in Partitions |-> IF owner[p] = w THEN NoWorker ELSE owner[p]]

\* The remaining members take over the partitions nobody owns.
Reassign ==
    /\ Live # {}
    /\ \E p \in Partitions : owner[p] = NoWorker
    /\ Assign(Live)
    /\ UNCHANGED <<log, committed, workerVars, storeVars,
                   detected, redetected, orphaned, abandoned, faults>>

\* A session timeout makes the group rebalance while batches are in flight.
Rebalance ==
    /\ Live # {}
    /\ Strike("rebalance")
    /\ Assign(Live)
    /\ UNCHANGED <<log, committed, workerVars, storeVars,
                   detected, redetected, orphaned, abandoned>>
-----------------------------------------------------------------------------
(***************************************************************************)
(* The worker's loop.                                                      *)
(***************************************************************************)

\* run() joins the group; the start retries until the broker answers.
Start(w) ==
    /\ Goto(w, "down", "poll")
    /\ Assign(Live \cup {w})
    /\ UNCHANGED <<log, committed, pending, stopping, storeVars,
                   detected, redetected, orphaned, abandoned, faults>>

\* Mutant: an off-by-one drops the last record of every fetch.
FetchedShort(upto) == {s \in Slots : position[s[1]] < s[2] /\ s[2] < upto[s[1]]}

\* What one getmany may return: it moves the position of the worker's partitions
\* up to some records that are there, at least one and at most BatchMax.
Fetched(upto) == {s \in Slots : position[s[1]] < s[2] /\ s[2] <= upto[s[1]]}

Fetchable(w) ==
    {upto \in [Partitions -> 0..MaxLog] :
        /\ \A p \in Partitions :
            IF owner[p] = w THEN upto[p] \in position[p]..Len(log[p])
                            ELSE upto[p] = position[p]
        /\ Fetched(upto) # {}
        /\ Cardinality(Fetched(upto)) <= BatchMax}

\* getmany, the decoding loop, the stop check and the validation loop, which
\* run without an await between them.  A batch of undecodable records is not
\* even yielded; one without a valid event goes straight to the commit; a set
\* stop event drops the batch and leaves the group.
Poll(w) ==
    /\ pc[w] = "poll"
    /\ \E upto \in Fetchable(w) :
        LET decoded == {s \in Fetched(upto) : Msg(s) # Undecodable}
            valid   == {s \in Fetched(upto) : Msg(s) \in Events}
        IN  /\ position' = upto
            /\ \/ /\ decoded = {}
                  /\ UNCHANGED <<owner, workerVars>>
               \/ /\ decoded # {} /\ stopping[w]
                  /\ pc' = [pc EXCEPT ![w] = "down"]
                  /\ stopping' = [stopping EXCEPT ![w] = FALSE]
                  /\ Release(w)
                  /\ UNCHANGED pending
               \/ /\ decoded # {} /\ ~stopping[w]
                  /\ pc' = [pc EXCEPT ![w] = IF valid = {} THEN "commit" ELSE "check"]
                  /\ pending' = [pending EXCEPT ![w] = valid]
                  /\ UNCHANGED <<owner, stopping>>
    /\ UNCHANGED <<log, committed, storeVars, historyVars, faults>>

\* SISMEMBER for every id of the batch, one round trip.  Two copies of an event
\* in one batch are both fresh.
CheckSeen(w) ==
    LET fresh == {s \in pending[w] : Msg(s) \notin seen}
    IN  /\ Goto(w, "check", IF fresh = {} THEN "commit" ELSE "mark")
        /\ pending' = [pending EXCEPT ![w] = fresh]
        /\ UNCHANGED <<brokerVars, stopping, storeVars, historyVars, faults>>

\* Mutant: the fresh ids are not added to the set.
MarkNothing(w) ==
    /\ Goto(w, "mark", "detect")
    /\ UNCHANGED <<brokerVars, pending, stopping, storeVars, historyVars, faults>>

\* SADD of the fresh ids and EXPIRE of the whole set, one round trip.
MarkSeen(w) ==
    /\ Goto(w, "mark", "detect")
    /\ seen' = seen \cup Ids(pending[w])
    /\ UNCHANGED <<brokerVars, pending, stopping, stored, published, historyVars, faults>>

\* The engine evaluates each fresh event: it catches what a detector raises.
Detect(w) ==
    LET again == {Msg(s) : s \in {t \in pending[w] :
                     \/ Msg(t) \in detected
                     \/ \E u \in pending[w] : u # t /\ Msg(u) = Msg(t)}}
    IN  /\ Goto(w, "detect", "persist")
        /\ detected' = detected \cup Ids(pending[w])
        /\ redetected' = redetected \cup again
        /\ UNCHANGED <<brokerVars, pending, stopping, storeVars,
                       orphaned, abandoned, skipped, faults>>

\* Mutant: session_scope leaves the transaction uncommitted.
PersistNothing(w) ==
    /\ Goto(w, "persist", "publish")
    /\ UNCHANGED <<brokerVars, pending, stopping, storeVars, historyVars, faults>>

\* The transaction commits: bulk_insert with ON CONFLICT DO NOTHING.
Persist(w) ==
    /\ Goto(w, "persist", "publish")
    /\ stored' = stored \cup Ids(pending[w])
    /\ UNCHANGED <<brokerVars, pending, stopping, seen, published, historyVars, faults>>

\* The first PublishCap events go to the subscribers; metrics follow.
Publish(w) ==
    /\ Goto(w, "publish", "commit")
    /\ \E P \in SUBSET pending[w] :
        /\ Cardinality(P) = PublishCap \/ P = pending[w]
        /\ Cardinality(P) <= PublishCap
        /\ published' = published \cup Ids(P)
    /\ pending' = [pending EXCEPT ![w] = {}]
    /\ UNCHANGED <<brokerVars, stopping, seen, stored, historyVars, faults>>

\* Mutant: the end of the log is committed.
CommitEnd(w) ==
    /\ Goto(w, "commit", "poll")
    /\ committed' = [p \in Partitions |-> IF owner[p] = w THEN Len(log[p]) ELSE committed[p]]
    /\ UNCHANGED <<log, owner, position, pending, stopping, storeVars, historyVars, faults>>

\* consumer.commit() commits the fetch position of every partition the worker
\* owns now, whatever batch it has just processed.
Commit(w) ==
    /\ Goto(w, "commit", "poll")
    /\ committed' = [p \in Partitions |-> IF owner[p] = w THEN position[p] ELSE committed[p]]
    /\ UNCHANGED <<log, owner, position, pending, stopping, storeVars, historyVars, faults>>

Step(w) == Poll(w) \/ CheckSeen(w) \/ MarkSeen(w) \/ Detect(w)
             \/ Persist(w) \/ Publish(w) \/ Commit(w)
-----------------------------------------------------------------------------
(***************************************************************************)
(* Faults.                                                                 *)
(***************************************************************************)

\* What becomes of the marks of a batch that is dropped before it is persisted.
Orphan(w) == orphaned' = IF pc[w] \in Marked THEN orphaned \cup Ids(pending[w]) ELSE orphaned

\* Redis, Postgres or the broker fails an operation of the batch.  A failure
\* whose operation took effect all the same (the reply is lost) is the failure
\* of the next stage.  The loop logs it, sleeps and fetches the next batch: the
\* fetch position stays where it is.
BatchFails(w) ==
    /\ pc[w] \in Unmarked \cup Marked \cup {"publish", "commit"}
    /\ Strike("error")
    /\ pc' = [pc EXCEPT ![w] = "poll"]
    /\ pending' = [pending EXCEPT ![w] = {}]
    /\ Orphan(w)
    /\ abandoned' = IF pc[w] \in Unmarked \cup Marked
                    THEN abandoned \cup pending[w] ELSE abandoned
    /\ UNCHANGED <<brokerVars, stopping, storeVars, detected, redetected, skipped>>

\* The process dies: an open transaction is rolled back, the set in Redis stays.
Crash(w) ==
    /\ pc[w] # "down"
    /\ Strike("crash")
    /\ pc' = [pc EXCEPT ![w] = "down"]
    /\ pending' = [pending EXCEPT ![w] = {}]
    /\ stopping' = [stopping EXCEPT ![w] = FALSE]
    /\ Orphan(w)
    /\ Release(w)
    /\ UNCHANGED <<log, committed, position, storeVars, detected, redetected,
                   abandoned, skipped>>

\* SIGTERM or SIGINT only sets the stop event.
Sigterm(w) ==
    /\ pc[w] # "down" /\ ~stopping[w]
    /\ Strike("sigterm")
    /\ stopping' = [stopping EXCEPT ![w] = TRUE]
    /\ UNCHANGED <<brokerVars, pc, pending, storeVars, historyVars>>

\* Ten minutes without a fresh event, or an eviction, empty the set.
SeenExpires ==
    /\ seen # {}
    /\ Strike("expire")
    /\ seen' = {}
    /\ UNCHANGED <<brokerVars, workerVars, stored, published, historyVars>>

Next ==
    \/ \E p \in Partitions, m \in Messages : Produce(p, m)
    \/ Reassign
    \/ Rebalance
    \/ \E w \in Workers : Start(w) \/ Step(w) \/ BatchFails(w) \/ Crash(w) \/ Sigterm(w)
    \/ SeenExpires

Spec == Init /\ [][Next]_vars

\* Containers are restarted, the coordinator reassigns, and a worker that can
\* go on does: asyncio resumes it when its reply arrives.
Fairness ==
    /\ WF_vars(Reassign)
    /\ \A w \in Workers : WF_vars(Start(w)) /\ WF_vars(Step(w))

FairSpec == Spec /\ Fairness
-----------------------------------------------------------------------------
(***************************************************************************)
(* What the stream processor promises.                                     *)
(***************************************************************************)

\* The ids some worker has marked as seen and not yet persisted.
InFlight == UNION {Ids(pending[w]) : w \in {v \in Workers : pc[v] \in Marked}}

\* An event is settled once it is a row, or is about to be, or was orphaned: its
\* id is in the Redis set because of a batch that never reached the database.
Settled == stored \cup InFlight \cup orphaned

Accounted(s) == Msg(s) \in Settled \/ s \in abandoned \/ s \in skipped

CommittedSlots == {s \in Slots : s[2] <= committed[s[1]] /\ Msg(s) \in Events}

(***************************************************************************)
(* No valid event disappears without a trace of a fault: one the group has *)
(* committed past is in the database, or in flight, or one of the three    *)
(* known ways to lose it struck (pipeline.py:101-117, worker.py:87-89,     *)
(* kafka.py:113).  It bounds what manual commits after process_batch lose. *)
(***************************************************************************)
NoSilentLoss == \A s \in CommittedSlots : Accounted(s)

(***************************************************************************)
(* The subscribers are never told of an event that a crash could still     *)
(* roll back: process_batch publishes after its transaction                *)
(* (pipeline.py:140-143).                                                  *)
(***************************************************************************)
PublishedAreStored == published \subseteq stored

(***************************************************************************)
(* "at-least-once + idempotency" (docs/architecture.md:52), with the       *)
(* losses the code admits: seen without its workers, offsets and stages,   *)
(* the processor takes only the steps of Delivery.  A claim ends in a row  *)
(* or a known loss, and a commit acknowledges nothing else                 *)
(* (pipeline.py:101-143, worker.py:78-89, kafka.py:151-153).               *)
(***************************************************************************)
Record(s) == <<s[1], s[2], Msg(s)>>
ValidSlots == {s \in Slots : Msg(s) \in Events}
LostSlots == {s \in ValidSlots : s \in abandoned \cup skipped \/ Msg(s) \in orphaned}

Abstract == INSTANCE Delivery WITH
    sent <- {Record(s) : s \in ValidSlots},
    claimed <- InFlight,
    told <- published,
    acked <- {Record(s) : s \in CommittedSlots},
    lost <- {Record(s) : s \in LostSlots}

ImplementsDelivery == Abstract!Spec

(***************************************************************************)
(* However the group rebalances while batches are in flight, a commit never *)
(* takes the group's offset backwards (kafka.py:151-153).                  *)
(***************************************************************************)
OffsetsNeverRegress ==
    [][\A p \in Partitions : committed[p] <= committed'[p]]_committed

(***************************************************************************)
(* What a position or an id in Redis stands for, for every worker at every *)
(* stage: the strengthening that makes the three properties above          *)
(* inductive (pipeline.py:88-138, worker.py:78-89).                        *)
(***************************************************************************)
SeenIsSettled == seen \subseteq Settled

FetchedSlots == {s \in Slots : owner[s[1]] # NoWorker /\ s[2] <= position[s[1]]
                                 /\ Msg(s) \in Events}

FetchedIsHandled ==
    \A s \in FetchedSlots :
        \/ Accounted(s)
        \/ pc[owner[s[1]]] \in Unmarked /\ s \in pending[owner[s[1]]]

PositionsInOrder ==
    \A p \in Partitions :
        /\ committed[p] <= Len(log[p])
        /\ owner[p] # NoWorker => committed[p] <= position[p] /\ position[p] <= Len(log[p])

PendingInOrder ==
    \A w \in Workers :
        /\ Ids(pending[w]) \subseteq Events
        /\ pc[w] \in {"down", "poll", "commit"} => pending[w] = {}
        /\ pc[w] = "publish" => Ids(pending[w]) \subseteq stored

DownOwnsNothing == \A p \in Partitions : owner[p] # NoWorker => pc[owner[p]] # "down"

IInv ==
    /\ TypeOK
    /\ SeenIsSettled
    /\ FetchedIsHandled
    /\ PositionsInOrder
    /\ PendingInOrder
    /\ DownOwnsNothing
    /\ NoSilentLoss
    /\ PublishedAreStored

(***************************************************************************)
(* "The broker offset is committed only after the transaction succeeds"    *)
(* (docs/architecture.md:52): an event that is sent once, and committed    *)
(* past, is a row, unless it was there before the group had an offset.     *)
(***************************************************************************)
SentOnce(s) == \A t \in Slots : Msg(t) = Msg(s) => t = s
CommittedAreStored ==
    \A s \in CommittedSlots : SentOnce(s) => Msg(s) \in stored \/ s \in skipped

(***************************************************************************)
(* "Batch transaction fails | offset not committed -> batch retried"       *)
(* (docs/architecture.md:183): when a later event is stored and its batch  *)
(* committed, the events of a batch that failed in its transaction, after  *)
(* their evaluation, are rows as well.                                     *)
(***************************************************************************)
FailedBatchIsRetried ==
    \A s \in abandoned, t \in CommittedSlots :
        /\ s[1] = t[1] /\ s[2] < t[2] /\ Msg(t) # Msg(s) /\ Msg(t) \in stored
        /\ Msg(s) \in detected
        => Msg(s) \in stored

(***************************************************************************)
(* A redelivery alone never makes the sliding windows count an event       *)
(* twice, after a crash, a failure or a rebalance: only a producer that    *)
(* sends it twice can (pipeline.py:88-107).  For a single worker whose     *)
(* dedup set has not expired.                                              *)
(***************************************************************************)
RedeliveryEvaluatesOnce ==
    \A e \in redetected : \E s, t \in Slots : s # t /\ Msg(s) = e /\ Msg(t) = e

(***************************************************************************)
(* Every valid event a producer appends ends up stored, or one of the      *)
(* known faults hit it: whatever duplicates, malformed messages, failures, *)
(* crashes and rebalances come in between, the loop of worker.py:78-89     *)
(* never gets stuck on it or walks past it.                                *)
(***************************************************************************)
EveryEventIsHandled ==
    \A e \in Events, p \in Partitions, i \in 1..MaxLog :
        (i <= Len(log[p]) /\ log[p][i] = e)
            ~> (e \in stored \cup orphaned \/ <<p, i>> \in abandoned \cup skipped)

(***************************************************************************)
(* "SIGTERM | stop consuming -> finish in-flight batch -> commit -> close  *)
(* cleanly" (docs/architecture.md:185).                                    *)
(***************************************************************************)
SigtermStopsWorker == \A w \in Workers : stopping[w] ~> pc[w] = "down"
=============================================================================
