--------------------------- MODULE MinuteMetrics ---------------------------
(***************************************************************************)
(* What the stream processor measures of itself: the rolling window behind *)
(* the Performance page, the minute that feeds the anomaly and the ML      *)
(* detector (streaming/pipeline.py, detection/anomaly.py, detection/ml.py) *)
(* and the worker's heartbeat (app/worker.py).                             *)
(*                                                                         *)
(* Every worker counts in its own memory and writes to keys of Redis that  *)
(* all share.  A minute is over when a batch finds that it is; its metrics  *)
(* are folded into their baselines one after another, each with a GET and  *)
(* a SET.  The value of a metric is here the number of the minute's fresh  *)
(* events, which all six are computed from, and a baseline, a mean and a   *)
(* variance, the number of the values folded into it and their sum.        *)
(***************************************************************************)
EXTENDS Integers, Sequences, FiniteSets

CONSTANTS
    Workers,
    Metrics,      \* how many metrics a minute has (6)
    MinuteTicks,  \* a minute, in ticks of the clock
    WindowTicks,  \* the rolling window (5 s)
    BeatTicks,    \* the refresher's wait (10 s)
    RollTtl,      \* how long Redis keeps the rolling window (300 s)
    LagTtl,       \* and the lag (60 s)
    MinSamples,   \* settings.anomaly_min_samples
    BufferSize,   \* minutes the ML detector keeps (720)
    MinBuffer,    \* minutes it needs (120)
    Retrain,      \* minutes between two trainings (30)
    Budgets       \* bounds: ticks, batches, outages, deaths, polls, rounds without a
                  \* partition, who runs, and what kinds of batches come, as
                  \* [fresh, seen, invalid]

ASSUME MetricsAssumption ==
    /\ Budgets \subseteq
         [ticks : Nat, batches : Nat, outages : Nat, deaths : Nat, polls : Nat, idles : Nat,
          run : SUBSET Workers, kinds : SUBSET [fresh : Nat, seen : Nat, invalid : Nat]]
    /\ IsFiniteSet(Workers)
    /\ {Metrics, MinuteTicks, WindowTicks, BeatTicks, MinBuffer, Retrain} \subseteq Nat \ {0}
    /\ {MinSamples, BufferSize, RollTtl, LagTtl} \subseteq Nat
    /\ MinBuffer <= BufferSize

VARIABLES
    clock,     \* the wall clock
    worker,    \* worker[w]: what the Pipeline of w holds, and where it is
    rolling,   \* siem:metrics:rolling: the events of the window, when it was
               \* measured, and until when Redis keeps it
    baseline,  \* baseline[m]: siem:anomaly:<metric m>
    beat,      \* siem:worker:heartbeat
    lag,       \* siem:metrics:consumer_lag: when it was measured, until when it stays
    out,       \* the services that are out of order
    calm,      \* history: since when none has been
    sums,      \* history: what was counted, measured, lost and repeated
    account,   \* history: account[m]: what metric m lost and counted again
    torn,      \* history: the hashes made by an HSET whose EXPIRE never came
    left       \* what is left of the budget

redis == <<rolling, baseline, beat, lag>>
history == <<sums, account, torn>>
vars == <<clock, worker, redis, out, calm, history, left>>

Never == -1000
Forever == -2000
Minute(t) == t \div MinuteTicks
NoValues == [n |-> 0, sum |-> 0]
NoAccount == [again |-> 0, forgotten |-> 0, overwritten |-> 0]
Up == {w \in Workers : worker[w].pc # "down"}

\* A process starts with a Pipeline of its own, in the minute it is started in,
\* and with a round of the refresher.
Started(t) ==
    [pc |-> "idle", since |-> t, due |-> t, round |-> "wait",
     n |-> 0, bucket |-> Minute(t), now |-> Minute(t), minutes |-> <<>>,
     read |-> NoValues, folded |-> 0, odd |-> FALSE,
     win |-> 0, opened |-> t, buffer |-> 0, trained |-> Never]
Dead(t) == [Started(t) EXCEPT !.pc = "down"]

Init ==
    /\ clock = 0 /\ beat = Never
    /\ rolling = [events |-> 0, at |-> Never, until |-> Never]
    /\ lag = [at |-> Never, until |-> Never]
    /\ baseline = [m \in 1..Metrics |-> NoValues]
    /\ out = {} /\ calm = Never
    /\ sums = [ingested |-> 0, shown |-> 0, shownTwice |-> 0, unshown |-> 0, counted |-> 0]
    /\ account = [m \in 1..Metrics |-> NoAccount] /\ torn = {}
    /\ left \in Budgets
    /\ worker = [w \in Workers |-> IF w \in left.run THEN Started(0) ELSE Dead(Never)]

Spend(kind) == left[kind] > 0 /\ left' = [left EXCEPT ![kind] = @ - 1]
Works(service) == service \notin out

\* A round of the refresher is late only while something is out of order.
Tick ==
    /\ Spend("ticks")
    /\ out # {} \/ \A w \in Up : worker[w].due > clock
    /\ clock' = clock + 1
    /\ UNCHANGED <<worker, redis, out, calm, history>>

Break(service) ==
    /\ Works(service) /\ Spend("outages")
    /\ out' = out \cup {service}
    /\ UNCHANGED <<clock, worker, redis, calm, history>>

Mend(service) ==
    /\ ~Works(service)
    /\ out' = out \ {service} /\ calm' = clock
    /\ UNCHANGED <<clock, worker, redis, history, left>>

-----------------------------------------------------------------------------
(* Hashes that expire. *)

\* Redis keeps a hash without an expiry for ever.
Present(key) == key.until = Forever \/ clock < key.until

\* HSET leaves the expiry of a hash that is there as it is, and makes one
\* without; EXPIRE does nothing to a hash that is gone.
UntilAfterHset(key) == IF Present(key) THEN key.until ELSE Forever
UntilAfterExpire(key, ttl) == IF Present(key) THEN clock + ttl ELSE key.until

-----------------------------------------------------------------------------
(* The refresher, a task of its own in every worker. *)

\* Mutant: the wait is as long as a heartbeat is believed.
WaitTwice == 2 * BeatTicks
Wait == BeatTicks

\* The end of a round, and of one that failed: what comes after the call that
\* failed is left out.
Rest(w) == worker' = [worker EXCEPT ![w].round = "wait", ![w].due = clock + Wait]

\* The heartbeat.
Beat(w) ==
    /\ w \in Up /\ worker[w].round = "wait" /\ worker[w].due <= clock
    /\ IF Works("redis")
       THEN beat' = clock /\ worker' = [worker EXCEPT ![w].round = "lag"]
       ELSE beat' = beat /\ Rest(w)
    /\ UNCHANGED <<clock, rolling, baseline, lag, out, calm, history, left>>

\* The gauge of active alerts, from the database, and HSET of the lag, which the
\* broker tells unless the worker has no partition.
Measure(w) ==
    /\ worker[w].round = "lag"
    /\ \/ /\ out = {} /\ left' = left
          /\ lag' = [at |-> clock, until |-> UntilAfterHset(lag)]
          /\ worker' = [worker EXCEPT ![w].round = "expire"]
       \/ out # {} /\ left' = left /\ lag' = lag /\ Rest(w)
       \/ Spend("idles") /\ lag' = lag /\ Rest(w)
    /\ UNCHANGED <<clock, rolling, baseline, beat, out, calm, history>>

\* EXPIRE of the lag.
ExpireLag(w) ==
    /\ worker[w].round = "expire" /\ Rest(w)
    /\ IF Works("redis")
       THEN /\ lag' = [lag EXCEPT !.until = UntilAfterExpire(lag, LagTtl)]
            /\ torn' = torn \ {"lag"}
       ELSE /\ lag' = lag
            /\ torn' = IF lag.until = Forever THEN torn \cup {"lag"} ELSE torn
    /\ UNCHANGED <<clock, rolling, baseline, beat, out, calm, sums, account, left>>

-----------------------------------------------------------------------------
(* The end of process_batch, _update_metrics and _flush_minute. *)

\* Mutant AfterWindowAlways: every batch ends its minute.
\* Where _update_metrics goes on: the rolling window when it is old enough, the
\* minute when it is over.
AfterWindowAlways(p) == [p EXCEPT !.pc = "flush"]
AfterWindow(p) == [p EXCEPT !.pc = IF p.now # p.bucket THEN "flush" ELSE "idle"]
AfterCount(p) == IF clock - p.opened >= WindowTicks THEN [p EXCEPT !.pc = "window"]
                 ELSE AfterWindow(p)

\* A batch without a fresh event returns early; one that finds Redis or the
\* database out of order fails.  All of its messages are in the window by then.
Batch(w, b) ==
    LET ingested == b.fresh + b.seen + b.invalid
        p == [worker[w] EXCEPT !.win = @ + ingested]
        measured == b.fresh > 0 /\ Works("redis") /\ Works("postgres")
    IN  /\ worker[w].pc = "idle" /\ Works("broker") /\ Spend("batches")
        /\ worker' = [worker EXCEPT ![w] =
               IF measured THEN AfterCount([p EXCEPT !.n = @ + b.fresh, !.now = Minute(clock)])
               ELSE p]
        /\ sums' = [sums EXCEPT !.ingested = @ + ingested,
                                !.counted = @ + (IF measured THEN b.fresh ELSE 0)]
        /\ UNCHANGED <<clock, redis, out, calm, account, torn>>

\* HSET of the rolling hash, which the pages read ...
Show(w) ==
    /\ worker[w].pc = "window" /\ Works("redis")
    /\ rolling' = [events |-> worker[w].win, at |-> clock, until |-> UntilAfterHset(rolling)]
    /\ worker' = [worker EXCEPT ![w].pc = "expire"]
    /\ sums' = [sums EXCEPT !.shown = @ + worker[w].win]
    /\ UNCHANGED <<clock, baseline, beat, lag, out, calm, account, torn, left>>

\* ... its EXPIRE ...
ExpireRolling(w) ==
    /\ worker[w].pc = "expire" /\ Works("redis")
    /\ rolling' = [rolling EXCEPT !.until = UntilAfterExpire(rolling, RollTtl)]
    /\ worker' = [worker EXCEPT ![w].pc = "history"]
    /\ torn' = torn \ {"rolling"}
    /\ UNCHANGED <<clock, baseline, beat, lag, out, calm, sums, account, left>>

\* Mutant: the events of the next window start from those of the last.
KeepWindow(p) == AfterWindow([p EXCEPT !.opened = clock])

\* ... its publication and the history; only then a new window begins.
NewWindow(p) == AfterWindow([p EXCEPT !.win = 0, !.opened = clock])
Record(w) ==
    /\ worker[w].pc = "history" /\ Works("redis")
    /\ worker' = [worker EXCEPT ![w] = NewWindow(@)]
    /\ UNCHANGED <<clock, redis, out, calm, history, left>>

\* The GET of the next metric's baseline; before the first, last_minute.
Flush(w) ==
    /\ worker[w].pc = "flush" /\ Works("redis")
    /\ worker' = [worker EXCEPT ![w].pc = "observe",
                               ![w].read = baseline[worker[w].folded + 1]]
    /\ UNCHANGED <<clock, redis, out, calm, history, left>>

\* The SET, with the minute's value folded into what was read.  The detector may
\* find the value unusual, once it has seen enough of them.
Observe(w) ==
    LET p == worker[w]
        m == p.folded + 1
    IN  /\ p.pc = "observe" /\ Works("redis")
        /\ baseline' = [baseline EXCEPT ![m] = [n |-> p.read.n + 1, sum |-> p.read.sum + p.n]]
        /\ account' = [account EXCEPT ![m].overwritten = @ + baseline[m].sum - p.read.sum]
        /\ worker' = [worker EXCEPT ![w] =
               [p EXCEPT !.pc = IF m = Metrics THEN "learn" ELSE "flush",
                         !.folded = m, !.read = NoValues,
                         !.odd = @ \/ p.read.n >= MinSamples]]
        /\ UNCHANGED <<clock, rolling, beat, lag, out, calm, sums, torn, left>>

\* Mutants: the buffer is cut one short of its size; a flushed minute stays
\* open; its events stay in the counter.
BufferCut(len) == IF len + 1 >= BufferSize THEN BufferSize - 1 ELSE len + 1
CloseNothing(p) == [p EXCEPT !.pc = "idle", !.n = 0, !.folded = 0, !.odd = FALSE,
                             !.minutes = Append(@, p.bucket)]
CloseKeeping(p) == [p EXCEPT !.pc = "idle", !.folded = 0, !.odd = FALSE, !.bucket = p.now,
                             !.minutes = Append(@, p.bucket)]

\* IsolationForestDetector.observe: the buffer after an append, and how many
\* minutes ago the model was trained.
Buffered(len) == IF len < BufferSize THEN len + 1 ELSE BufferSize
Trained(p) ==
    LET len == Buffered(p.buffer) IN
    CASE len < MinBuffer -> p.trained
      [] len >= MinBuffer /\ (p.trained = Never \/ len % Retrain = 0) -> 0
      [] OTHER -> p.trained + 1

\* The minute that the batch was in is begun, without the batch's events.
Close(p) == [p EXCEPT !.pc = "idle", !.n = 0, !.folded = 0, !.odd = FALSE, !.bucket = p.now,
                      !.minutes = Append(@, p.bucket)]

\* The model, once the baselines are written: it may find the minute unusual when
\* its buffer is long enough.
Learn(w) ==
    LET p == worker[w] IN
    /\ p.pc = "learn"
    /\ worker' = [worker EXCEPT ![w] =
           [p EXCEPT !.pc = "alert", !.buffer = Buffered(@), !.trained = Trained(p),
                     !.odd = @ \/ Buffered(p.buffer) >= MinBuffer]]
    /\ UNCHANGED <<clock, redis, out, calm, history, left>>

\* What the detectors found becomes alerts, in transactions of their own, and
\* the minute is closed.
Alert(w) ==
    /\ worker[w].pc = "alert"
    /\ worker' = [worker EXCEPT ![w] = Close(@)]
    /\ UNCHANGED <<clock, redis, out, calm, history, left>>

\* A call fails, or its reply is lost, as that of the last SET; so does the batch.
\* The minute stays open, and all its metrics are folded again with the next
\* batch; a window that has been shown is shown again.
Fail(w) ==
    LET p == worker[w] IN
    /\ \/ p.pc \in {"window", "expire", "history", "flush", "observe", "learn"}
          /\ ~Works("redis")
       \/ p.pc = "alert" /\ p.odd /\ out \cap {"redis", "postgres"} # {}
    /\ worker' = [worker EXCEPT ![w] = [p EXCEPT !.pc = "idle", !.read = NoValues,
                                                !.folded = 0, !.odd = FALSE]]
    /\ sums' = [sums EXCEPT !.shownTwice = IF p.pc \in {"expire", "history"} THEN @ + p.win ELSE @]
    /\ account' = [m \in 1..Metrics |->
           [account[m] EXCEPT !.again = IF m <= p.folded THEN @ + p.n ELSE @]]
    /\ torn' = torn \cup (IF p.pc = "expire" /\ rolling.until = Forever THEN {"rolling"} ELSE {})
    /\ UNCHANGED <<clock, redis, out, calm, left>>

-----------------------------------------------------------------------------
\* A worker stops or dies: what it had not shown or folded goes with it.
Die(w) ==
    LET p == worker[w] IN
    /\ w \in Up /\ Spend("deaths")
    /\ worker' = [worker EXCEPT ![w] = Dead(clock)]
    /\ sums' = [sums EXCEPT !.unshown = IF p.pc \in {"expire", "history"} THEN @ ELSE @ + p.win]
    /\ account' = [m \in 1..Metrics |->
           [account[m] EXCEPT !.forgotten = IF m <= p.folded THEN @ ELSE @ + p.n]]
    /\ torn' = torn
         \cup (IF p.pc = "expire" /\ rolling.until = Forever THEN {"rolling"} ELSE {})
         \cup (IF p.round = "expire" /\ lag.until = Forever THEN {"lag"} ELSE {})
    /\ UNCHANGED <<clock, redis, out, calm>>

Start(w) ==
    /\ w \in left.run \ Up /\ Works("broker")
    /\ worker' = [worker EXCEPT ![w] = Started(clock)]
    /\ UNCHANGED <<clock, redis, out, calm, history, left>>

Next ==
    \/ Tick
    \/ \E s \in {"redis", "postgres", "broker"} : Break(s) \/ Mend(s)
    \/ \E w \in Workers :
         \/ \E b \in left.kinds : Batch(w, b)
         \/ Beat(w) \/ Measure(w) \/ ExpireLag(w)
         \/ Show(w) \/ ExpireRolling(w) \/ Record(w)
         \/ Flush(w) \/ Observe(w) \/ Learn(w) \/ Alert(w)
         \/ Fail(w) \/ Die(w) \/ Start(w)

-----------------------------------------------------------------------------
(***************************************************************************)
(* What the measurements promise.                                          *)
(***************************************************************************)

\* What the workers hold together, when each holds held[w].
Total(held) == Cardinality(UNION {{w} \X (1..held[w]) : w \in Workers})

\* The events of a minute until metric m has them in its baseline, and those of
\* a window until it is shown.
Unflushed(m) == [w \in Workers |-> IF m <= worker[w].folded THEN 0 ELSE worker[w].n]
Unshown == [w \in Workers |->
              IF worker[w].pc \in {"expire", "history"} THEN 0 ELSE worker[w].win]

Baselines == [n : Nat, sum : Nat]
Accounts == [again : Nat, forgotten : Nat, overwritten : Nat]
Counts == [ingested : Nat, shown : Nat, shownTwice : Nat, unshown : Nat, counted : Nat]
Processes ==
    [pc : {"down", "idle", "window", "expire", "history", "flush", "observe", "learn", "alert"},
     since : Int, due : Int, round : {"wait", "lag", "expire"},
     n : Nat, bucket : Int, now : Int, minutes : Seq(Int),
     read : Baselines, folded : 0..Metrics, odd : BOOLEAN,
     win : Nat, opened : Int, buffer : 0..BufferSize, trained : Int]

\* What a process may be at the time t: in a minute it has seen, past which it
\* folds the one before, and with the model only when all metrics are folded.
Sound(p, t) ==
    /\ p.pc # "down" => p.bucket <= p.now /\ p.now <= Minute(t)
    /\ p.pc \in {"flush", "observe", "learn", "alert"} => p.bucket < p.now
    /\ p.pc \in {"flush", "observe"} => p.folded < Metrics
    /\ p.pc \in {"learn", "alert"} => p.folded = Metrics
    /\ p.pc \notin {"flush", "observe", "learn", "alert"} => p.folded = 0
    /\ p.pc = "down" => p.round = "wait"

\* Every process is sound, no key is newer than the clock, and the counters have
\* not gone negative.
TypeOK ==
    /\ clock \in Nat
    /\ worker \in [Workers -> Processes] /\ \A w \in Workers : Sound(worker[w], clock)
    /\ rolling \in [events : Nat, at : Int, until : Int] /\ rolling.at <= clock
    /\ lag \in [at : Int, until : Int] /\ lag.at <= clock
    /\ baseline \in [1..Metrics -> Baselines]
    /\ beat \in Int /\ beat <= clock
    /\ out \subseteq {"redis", "postgres", "broker"} /\ calm \in Int /\ calm <= clock
    /\ sums \in Counts /\ account \in [1..Metrics -> Accounts] /\ torn \subseteq {"rolling", "lag"}

(***************************************************************************)
(* Every fresh event counts in one minute of every metric's baseline,      *)
(* whatever fails, but for what a worker had counted when it died, and     *)
(* what one worker's SET took from another's (anomaly.py:58, 89); an event *)
(* counts again only in the metrics that a flush had folded when a later   *)
(* call of it failed: a later metric's GET or SET, or an alert             *)
(* (pipeline.py:226-259).                                                  *)
(***************************************************************************)
MinutesAddUp ==
    \A m \in 1..Metrics :
        baseline[m].sum + Total(Unflushed(m)) + account[m].forgotten + account[m].overwritten
            = sums.counted + account[m].again

(***************************************************************************)
(* Every message a worker takes, rejected and duplicate ones included, is  *)
(* part of one rolling window that is shown, but for what a worker had not *)
(* shown when it died, and windows whose publication failed and that are   *)
(* shown again (pipeline.py:179-223).                                      *)
(***************************************************************************)
WindowsAddUp ==
    sums.shown + Total(Unshown) + sums.unshown = sums.ingested + sums.shownTwice

(***************************************************************************)
(* A process closes each minute once, and minutes in their order, however  *)
(* many batches find it over and however often its flush failed            *)
(* (pipeline.py:226-230).  It may close several as one, and fold one more  *)
(* often than it closes it.                                                *)
(***************************************************************************)
MinutesCloseOnce ==
    \A w \in Workers : \A i, j \in DOMAIN worker[w].minutes :
        i < j => worker[w].minutes[i] < worker[w].minutes[j]

(***************************************************************************)
(* "Retrain periodically on the rolling buffer" (ml.py:71): once trained,  *)
(* the model is never older than the period.  The test is on the length of *)
(* the buffer, which stays what it is when the buffer is full: only because *)
(* 720 is a multiple of 30 is the model trained again at all.              *)
(***************************************************************************)
ModelIsRecent == \A w \in Workers : worker[w].trained < Retrain
=============================================================================
