-------------------------- MODULE DashboardProofs --------------------------
(***************************************************************************)
(* Proofs about MinuteMetrics and Dashboard, for any workers, metrics,     *)
(* clients, periods and budgets.                                           *)
(***************************************************************************)
EXTENDS Dashboard, FiniteSetTheorems, TLAPS

LEMMA MinuteFacts ==
    ASSUME NEW s \in Int, NEW t \in Int, s <= t
    PROVE  Minute(s) \in Int /\ Minute(t) \in Int /\ Minute(s) <= Minute(t)
<1>1. ASSUME NEW k \in Nat \ {0}
      PROVE  s \div k \in Int /\ t \div k \in Int /\ s \div k <= t \div k
  OBVIOUS
<1> QED
  BY <1>1, MetricsAssumption DEF Minute

LEMMA MetricsFacts ==
    /\ Metrics \in Nat \ {0} /\ 0 \in 0..Metrics /\ 0 < Metrics
    /\ \A j \in 0..Metrics : j < Metrics => j + 1 \in 1..Metrics /\ j + 1 \in 0..Metrics
  BY MetricsAssumption

\* Where a batch goes on after the counters: only its place changes, and it
\* flushes only a minute that is over.
LEMMA AfterFacts ==
    ASSUME NEW p \in Processes, p.bucket <= p.now, NEW q \in {AfterWindow(p), AfterCount(p)}
    PROVE  /\ q \in Processes /\ q = [p EXCEPT !.pc = q.pc]
           /\ q.pc \in {"flush", "idle", "window"} /\ (q.pc = "flush" => q.bucket < q.now)
           /\ q.folded = p.folded /\ q.bucket = p.bucket /\ q.now = p.now /\ q.round = p.round
<1>1. p.bucket \in Int /\ p.now \in Int
  BY DEF Processes
<1>2. PICK c \in {"flush", "idle", "window"} :
        q = [p EXCEPT !.pc = c] /\ (c = "flush" => p.bucket < p.now)
  BY <1>1 DEF AfterWindow, AfterCount
<1> QED
  BY <1>2 DEF Processes

LEMMA BufferedFacts ==
    ASSUME NEW len \in 0..BufferSize
    PROVE  Buffered(len) \in 0..BufferSize
  BY MetricsAssumption DEF Buffered

LEMMA StartedFacts ==
    ASSUME NEW t \in Int
    PROVE  /\ Started(t) \in Processes /\ Dead(t) \in Processes
           /\ Started(t).pc = "idle" /\ Dead(t).pc = "down"
           /\ Started(t).since = t /\ Dead(t).since = t /\ Started(t).due = t
           /\ Started(t).round = "wait" /\ Dead(t).round = "wait"
           /\ Started(t).bucket = Minute(t) /\ Started(t).now = Minute(t)
           /\ Started(t).folded = 0 /\ Dead(t).folded = 0
           /\ Started(t).minutes = <<>> /\ Dead(t).minutes = <<>>
           /\ Started(t).trained = Never /\ Dead(t).trained = Never
<1>1. Minute(t) \in Int /\ 0 \in 0..BufferSize /\ 0 \in 0..Metrics
  BY MinuteFacts, MetricsAssumption
<1>2. <<>> \in Seq(Int) /\ NoValues \in Baselines /\ Never \in Int
  BY DEF NoValues, Baselines, Never
<1>3. Started(t) \in Processes
  BY <1>1, <1>2 DEF Started, Processes
<1>4. Dead(t) \in Processes
  BY <1>3 DEF Dead, Processes
<1> QED
  BY <1>3, <1>4 DEF Started, Dead

LEMMA StartedSound ==
    ASSUME NEW t \in Int
    PROVE  Sound(Started(t), t) /\ Sound(Dead(t), t)
<1>1. Minute(t) \in Int /\ Minute(t) <= Minute(t)
  BY MinuteFacts
<1> QED
  BY <1>1, StartedFacts DEF Sound
-----------------------------------------------------------------------------
(***************************************************************************)
(* Types.                                                                  *)
(***************************************************************************)
Purses == [ticks : Nat, batches : Nat, outages : Nat, deaths : Nat, polls : Nat, idles : Nat,
           run : SUBSET Workers, kinds : SUBSET [fresh : Nat, seen : Nat, invalid : Nat]]

\* What TypeOK says of all that is not a worker's.
KeysOK ==
    /\ rolling \in [events : Nat, at : Int, until : Int] /\ rolling.at <= clock
    /\ lag \in [at : Int, until : Int] /\ lag.at <= clock
    /\ baseline \in [1..Metrics -> Baselines]
    /\ beat \in Int /\ beat <= clock
    /\ out \subseteq {"redis", "postgres", "broker"} /\ calm \in Int /\ calm <= clock
    /\ sums \in Counts /\ account \in [1..Metrics -> Accounts] /\ torn \subseteq {"rolling", "lag"}

\* A baseline a worker has read holds no more than was ever folded into it.
ReadsAreOld ==
    \A w \in Workers : LET p == worker[w] IN
        p.pc = "observe" =>
            p.read.sum <= baseline[p.folded + 1].sum + account[p.folded + 1].overwritten

MetricsInv == TypeOK /\ left \in Purses /\ ReadsAreOld

LEMMA SpendFacts ==
    ASSUME left \in Purses,
           NEW kind \in {"ticks", "batches", "outages", "deaths", "polls", "idles"}, Spend(kind)
    PROVE  left' \in Purses
  BY DEF Spend, Purses

LEMMA WorkerFacts ==
    ASSUME TypeOK, NEW w \in Workers
    PROVE  /\ worker[w] \in Processes /\ Sound(worker[w], clock) /\ clock \in Nat
           /\ Minute(clock) \in Int
           /\ worker[w].n \in Nat /\ worker[w].win \in Nat /\ worker[w].read \in Baselines
           /\ worker[w].folded \in 0..Metrics
<1>1. worker[w] \in Processes /\ Sound(worker[w], clock) /\ clock \in Nat
  BY DEF TypeOK
<1>2. Minute(clock) \in Int
  BY <1>1, MinuteFacts
<1> QED
  BY <1>1, <1>2 DEF Processes

\* A step of one worker.
LEMMA StepTypeOK ==
    ASSUME TypeOK, NEW w \in Workers, NEW q \in Processes, Sound(q, clock),
           worker' = [worker EXCEPT ![w] = q], clock' = clock, KeysOK'
    PROVE  TypeOK'
<1>1. worker' \in [Workers -> Processes]
  BY DEF TypeOK
<1>2. \A v \in Workers : Sound(worker'[v], clock)
  BY DEF TypeOK
<1> QED
  BY <1>1, <1>2 DEF TypeOK, KeysOK

LEMMA StepReads ==
    ASSUME MetricsInv, NEW w \in Workers, NEW q, worker' = [worker EXCEPT ![w] = q],
           q.pc # "observe", baseline' = baseline,
           \A m \in 1..Metrics : account'[m].overwritten = account[m].overwritten
    PROVE  ReadsAreOld'
<1> SUFFICES ASSUME NEW v \in Workers, worker'[v].pc = "observe"
             PROVE  worker'[v].read.sum <= baseline'[worker'[v].folded + 1].sum
                                             + account'[worker'[v].folded + 1].overwritten
  BY DEF ReadsAreOld
<1>1. v # w /\ worker'[v] = worker[v]
  BY DEF MetricsInv, TypeOK
<1>2. worker[v].folded + 1 \in 1..Metrics
  BY <1>1, WorkerFacts, MetricsFacts DEF MetricsInv, Sound
<1> QED
  BY <1>1, <1>2 DEF MetricsInv, ReadsAreOld

\* A step that leaves the minutes' accounts alone.
LEMMA StepMetrics ==
    ASSUME MetricsInv, NEW w \in Workers, NEW q \in Processes, Sound(q, clock),
           worker' = [worker EXCEPT ![w] = q], clock' = clock, KeysOK', left' \in Purses,
           baseline' = baseline, account' = account,
           q.pc = "observe" => q.read = worker[w].read /\ q.folded = worker[w].folded
                                 /\ worker[w].pc = "observe"
    PROVE  MetricsInv'
<1>1. TypeOK'
  BY StepTypeOK DEF MetricsInv
<1>2. ReadsAreOld'
  BY DEF MetricsInv, ReadsAreOld, TypeOK
<1> QED
  BY <1>1, <1>2 DEF MetricsInv

LEMMA InitMetrics == Init => MetricsInv
<1> SUFFICES ASSUME Init PROVE MetricsInv
  OBVIOUS
<1>1. left \in Purses
  BY MetricsAssumption DEF Init, Purses
<1>2. ASSUME NEW w \in Workers
      PROVE  /\ worker[w] \in Processes /\ Sound(worker[w], clock) /\ worker[w].pc # "observe"
             /\ worker[w] = IF w \in left.run THEN Started(0) ELSE Dead(Never)
  <2>1. Never \in Int /\ 0 \in Int /\ clock = 0
    BY DEF Never, Init
  <2>2. worker[w] = IF w \in left.run THEN Started(0) ELSE Dead(Never)
    BY DEF Init
  <2>3. Sound(Started(0), 0) /\ Sound(Dead(Never), 0)
    BY <2>1, StartedFacts, StartedSound DEF Sound
  <2> QED
    BY <2>1, <2>2, <2>3, StartedFacts
<1>3. worker \in [Workers -> Processes]
  BY <1>2 DEF Init
<1>4. sums \in Counts /\ NoAccount \in Accounts /\ NoValues \in Baselines
  BY DEF Init, Counts, NoAccount, Accounts, NoValues, Baselines
<1>5. TypeOK
  BY <1>2, <1>3, <1>4 DEF Init, TypeOK, Never
<1>6. ReadsAreOld
  BY <1>2 DEF ReadsAreOld
<1> QED
  BY <1>1, <1>5, <1>6 DEF MetricsInv

\* The clock and the services.
LEMMA EnvironmentMetrics ==
    ASSUME MetricsInv,
           Tick \/ \E s \in {"redis", "postgres", "broker"} : Break(s) \/ Mend(s)
    PROVE  MetricsInv'
<1>1. left' \in Purses
  BY SpendFacts DEF MetricsInv, Tick, Break, Mend
<1>2. /\ UNCHANGED <<worker, rolling, baseline, beat, lag, sums, account, torn>>
      /\ clock' \in {clock, clock + 1} /\ calm' \in {calm, clock}
      /\ out' \subseteq {"redis", "postgres", "broker"}
  BY DEF MetricsInv, TypeOK, Tick, Break, Mend, redis, history
<1>3. clock \in Nat /\ clock' \in Nat /\ Minute(clock) \in Int /\ Minute(clock') \in Int
      /\ Minute(clock) <= Minute(clock')
  <2>1. clock \in Int /\ clock' \in Nat /\ clock' \in Int /\ clock <= clock'
    BY <1>2 DEF MetricsInv, TypeOK
  <2> QED
    BY <2>1, MinuteFacts DEF MetricsInv, TypeOK
<1>4. ASSUME NEW w \in Workers PROVE Sound(worker[w], clock')
  <2>1. worker[w].now \in Int /\ Sound(worker[w], clock)
    BY DEF MetricsInv, TypeOK, Processes
  <2> QED
    BY <1>3, <2>1 DEF Sound
<1>5. TypeOK'
  BY <1>2, <1>3, <1>4 DEF MetricsInv, TypeOK
<1> QED
  BY <1>1, <1>2, <1>5 DEF MetricsInv, ReadsAreOld

LEMMA UntilFacts ==
    ASSUME clock \in Nat, NEW until \in Int, NEW key, key.until = until, NEW ttl \in Nat
    PROVE  UntilAfterHset(key) \in Int /\ UntilAfterExpire(key, ttl) \in Int
  BY DEF UntilAfterHset, UntilAfterExpire, Forever

\* The rounds of the refresher.
LEMMA RefreshMetrics ==
    ASSUME MetricsInv, NEW w \in Workers, Beat(w) \/ Measure(w) \/ ExpireLag(w)
    PROVE  MetricsInv'
<1>1. worker[w] \in Processes /\ Sound(worker[w], clock) /\ clock \in Nat /\ BeatTicks \in Nat
      /\ LagTtl \in Nat
  BY WorkerFacts, MetricsAssumption DEF MetricsInv
<1>2. PICK r \in {"wait", "lag", "expire"}, d \in Int :
        worker' = [worker EXCEPT ![w] = [worker[w] EXCEPT !.round = r, !.due = d]]
  <2>1. ASSUME Rest(w)
        PROVE  \E d \in Int : worker' = [worker EXCEPT ![w] = [worker[w] EXCEPT !.round = "wait",
                                                                             !.due = d]]
    <3>1. clock + Wait \in Int
      BY <1>1 DEF Wait
    <3>2. worker' = [worker EXCEPT ![w] = [worker[w] EXCEPT !.round = "wait",
                                                         !.due = clock + Wait]]
      BY <1>1, <2>1 DEF Rest
    <3> QED
      BY <3>1, <3>2
  <2>2. ASSUME NEW r \in {"lag", "expire"}, worker' = [worker EXCEPT ![w].round = r]
        PROVE  worker' = [worker EXCEPT ![w] = [worker[w] EXCEPT !.round = r,
                                                                !.due = worker[w].due]]
    BY <1>1, <2>2 DEF Processes
  <2>3. worker[w].due \in Int
    BY <1>1 DEF Processes
  <2> QED
    BY <2>1, <2>2, <2>3 DEF Beat, Measure, ExpireLag
<1> DEFINE q == [worker[w] EXCEPT !.round = r, !.due = d]
<1>3. /\ q \in Processes /\ q.pc = worker[w].pc /\ q.read = worker[w].read
      /\ q.folded = worker[w].folded /\ q.bucket = worker[w].bucket /\ q.now = worker[w].now
  BY <1>1 DEF Processes
<1>4. worker' = [worker EXCEPT ![w] = q]
  BY <1>2
<1> HIDE DEF q
<1>5. Sound(q, clock)
  <2>1. worker[w].pc # "down"
    BY <1>1 DEF Beat, Measure, ExpireLag, Up, Sound
  <2> QED
    BY <1>1, <1>3, <2>1 DEF Sound
<1>6. left' \in Purses
  BY SpendFacts DEF MetricsInv, Beat, Measure, ExpireLag
<1>7. UNCHANGED <<clock, rolling, baseline, out, calm, sums, account>>
  BY DEF Beat, Measure, ExpireLag, history
<1>8. lag.until \in Int
  BY DEF MetricsInv, TypeOK
<1>9. UntilAfterHset(lag) \in Int /\ UntilAfterExpire(lag, LagTtl) \in Int
  BY <1>1, <1>8, UntilFacts
<1>10. lag' \in [at : Int, until : Int] /\ lag'.at <= clock /\ torn' \subseteq {"rolling", "lag"}
       /\ beat' \in Int /\ beat' <= clock
  <2>1. lag \in [at : Int, until : Int] /\ lag.at <= clock /\ torn \subseteq {"rolling", "lag"}
        /\ beat \in Int /\ beat <= clock
    BY DEF MetricsInv, TypeOK
  <2>2. CASE Beat(w)
    BY <1>1, <2>1, <2>2 DEF Beat, history
  <2>3. CASE Measure(w)
    BY <1>1, <1>9, <2>1, <2>3 DEF Measure, history
  <2>4. CASE ExpireLag(w)
    BY <1>1, <1>9, <2>1, <2>4 DEF ExpireLag
  <2> QED
    BY <2>2, <2>3, <2>4
<1>11. KeysOK'
  BY <1>7, <1>10 DEF MetricsInv, TypeOK, KeysOK
<1> QED
  BY <1>3, <1>4, <1>5, <1>6, <1>7, <1>11, StepMetrics

LEMMA BatchMetrics ==
    ASSUME MetricsInv, NEW w \in Workers, NEW b \in left.kinds, Batch(w, b)
    PROVE  MetricsInv'
<1> DEFINE ingested == b.fresh + b.seen + b.invalid
           p == [worker[w] EXCEPT !.win = @ + ingested]
           c == [p EXCEPT !.n = @ + b.fresh, !.now = Minute(clock)]
           measured == b.fresh > 0 /\ Works("redis") /\ Works("postgres")
           q == IF measured THEN AfterCount(c) ELSE p
<1>1. /\ worker' = [worker EXCEPT ![w] = q] /\ worker[w].pc = "idle" /\ Spend("batches")
      /\ sums' = [sums EXCEPT !.ingested = @ + ingested,
                              !.counted = @ + (IF measured THEN b.fresh ELSE 0)]
      /\ UNCHANGED <<clock, rolling, baseline, beat, lag, out, calm, account, torn>>
  BY DEF Batch, redis
<1>2. b \in [fresh : Nat, seen : Nat, invalid : Nat] /\ left' \in Purses
  BY <1>1, SpendFacts DEF MetricsInv, Purses
<1>3. worker[w] \in Processes /\ ingested \in Nat /\ clock \in Nat /\ Minute(clock) \in Int
      /\ worker[w].bucket <= worker[w].now /\ worker[w].now <= Minute(clock)
      /\ worker[w].folded = 0
  BY <1>1, <1>2, WorkerFacts DEF MetricsInv, Sound
<1>4. p \in Processes /\ p.pc = "idle" /\ p.folded = 0
      /\ p.bucket = worker[w].bucket /\ p.now = worker[w].now
  <2>1. worker[w].win + ingested \in Nat
    <3>1. worker[w].win \in Nat
      BY <1>3 DEF Processes
    <3> QED
      BY <1>3, <3>1
  <2> HIDE DEF ingested
  <2> QED
    BY <1>1, <1>3, <2>1 DEF Processes
<1>5. c \in Processes /\ c.folded = 0 /\ c.bucket = p.bucket /\ c.now = Minute(clock)
  <2>1. b.fresh \in Nat
    BY <1>2
  <2>2. p.n + b.fresh \in Nat
    <3>1. p.n \in Nat
      <4> HIDE DEF p
      <4> QED
        BY <1>4 DEF Processes
    <3> QED
      BY <2>1, <3>1
  <2> HIDE DEF p
  <2> QED
    BY <1>3, <1>4, <2>2 DEF Processes
<1>6. c.bucket <= c.now
  <2>1. worker[w].bucket \in Int /\ worker[w].now \in Int
    BY <1>3 DEF Processes
  <2> HIDE DEF c, p
  <2> QED
    BY <1>3, <1>4, <1>5, <2>1
<1>7. /\ AfterCount(c) \in Processes /\ AfterCount(c).folded = 0
      /\ AfterCount(c).bucket = c.bucket /\ AfterCount(c).now = c.now
      /\ AfterCount(c).pc \in {"flush", "idle", "window"}
      /\ AfterCount(c).pc = "flush" => c.bucket < c.now
  <2> HIDE DEF c
  <2> QED
    BY <1>5, <1>6, AfterFacts
<1>8. q \in Processes /\ Sound(q, clock) /\ q.pc # "observe"
  <2> HIDE DEF c, p, measured
  <2>1. CASE measured
    <3>1. q = AfterCount(c)
      BY <2>1
    <3>2. q \in Processes /\ q.folded = 0 /\ q.bucket <= q.now /\ q.now = Minute(clock)
      BY <3>1, <1>4, <1>5, <1>6, <1>7
    <3>3. q.pc \in {"flush", "idle", "window"} /\ (q.pc = "flush" => q.bucket < q.now)
      BY <3>1, <1>7
    <3> HIDE DEF q
    <3> QED
      BY <3>2, <3>3, <1>3, MetricsFacts DEF Sound
  <2>2. CASE ~measured
    BY <2>2, <1>3, <1>4 DEF Sound
  <2> QED
    BY <2>1, <2>2
<1>9. sums' \in Counts
  <2>1. (IF measured THEN b.fresh ELSE 0) \in Nat
    BY <1>2
  <2>2. sums \in Counts
    BY DEF MetricsInv, TypeOK
  <2>3. sums.ingested + ingested \in Nat /\ sums.counted + (IF measured THEN b.fresh ELSE 0) \in Nat
    BY <1>3, <2>1, <2>2 DEF Counts
  <2> HIDE DEF measured, ingested
  <2> QED
    BY <1>1, <2>2, <2>3 DEF Counts
<1>10. KeysOK'
  BY <1>1, <1>9 DEF MetricsInv, TypeOK, KeysOK
<1> HIDE DEF q
<1> QED
  BY <1>1, <1>2, <1>8, <1>10, StepMetrics

\* The rolling window: shown, given its expiry, then begun anew.
LEMMA WindowMetrics ==
    ASSUME MetricsInv, NEW w \in Workers, Show(w) \/ ExpireRolling(w) \/ Record(w)
    PROVE  MetricsInv'
<1>1. worker[w] \in Processes /\ Sound(worker[w], clock) /\ clock \in Nat /\ RollTtl \in Nat
      /\ worker[w].win \in Nat
  BY WorkerFacts, MetricsAssumption DEF MetricsInv
<1>2. rolling.until \in Int
  BY DEF MetricsInv, TypeOK
<1>3. UntilAfterHset(rolling) \in Int /\ UntilAfterExpire(rolling, RollTtl) \in Int
  BY <1>1, <1>2, UntilFacts
<1>4. CASE Show(w)
  <2> DEFINE q == [worker[w] EXCEPT !.pc = "expire"]
  <2>1. /\ worker' = [worker EXCEPT ![w] = q] /\ worker[w].pc = "window"
        /\ rolling' = [events |-> worker[w].win, at |-> clock, until |-> UntilAfterHset(rolling)]
        /\ sums' = [sums EXCEPT !.shown = @ + worker[w].win]
        /\ UNCHANGED <<clock, baseline, beat, lag, out, calm, account, torn, left>>
    BY <1>4 DEF Show
  <2>2. q \in Processes /\ q.pc = "expire" /\ q.folded = worker[w].folded
        /\ q.bucket = worker[w].bucket /\ q.now = worker[w].now
    BY <1>1 DEF Processes
  <2> HIDE DEF q
  <2>3. Sound(q, clock)
    BY <1>1, <2>1, <2>2 DEF Sound
  <2>4. rolling' \in [events : Nat, at : Int, until : Int] /\ rolling'.at <= clock
    BY <1>1, <1>3, <2>1
  <2>5. sums' \in Counts
    <3>1. sums \in Counts
      BY DEF MetricsInv, TypeOK
    <3>2. sums.shown + worker[w].win \in Nat
      BY <1>1, <3>1 DEF Counts
    <3> QED
      BY <2>1, <3>1, <3>2 DEF Counts
  <2>6. KeysOK'
    BY <2>1, <2>4, <2>5 DEF MetricsInv, TypeOK, KeysOK
  <2>7. left' \in Purses
    BY <2>1 DEF MetricsInv
  <2> QED
    BY <2>1, <2>2, <2>3, <2>6, <2>7, StepMetrics
<1>5. CASE ExpireRolling(w)
  <2> DEFINE q == [worker[w] EXCEPT !.pc = "history"]
  <2>1. /\ worker' = [worker EXCEPT ![w] = q] /\ worker[w].pc = "expire"
        /\ rolling' = [rolling EXCEPT !.until = UntilAfterExpire(rolling, RollTtl)]
        /\ torn' = torn \ {"rolling"}
        /\ UNCHANGED <<clock, baseline, beat, lag, out, calm, sums, account, left>>
    BY <1>5 DEF ExpireRolling
  <2>2. q \in Processes /\ q.pc = "history" /\ q.folded = worker[w].folded
        /\ q.bucket = worker[w].bucket /\ q.now = worker[w].now
    BY <1>1 DEF Processes
  <2> HIDE DEF q
  <2>3. Sound(q, clock)
    BY <1>1, <2>1, <2>2 DEF Sound
  <2>4. rolling' \in [events : Nat, at : Int, until : Int] /\ rolling'.at <= clock
    BY <1>3, <2>1 DEF MetricsInv, TypeOK
  <2>5. KeysOK'
    BY <2>1, <2>4 DEF MetricsInv, TypeOK, KeysOK
  <2>6. left' \in Purses
    BY <2>1 DEF MetricsInv
  <2> QED
    BY <2>1, <2>2, <2>3, <2>5, <2>6, StepMetrics
<1>6. CASE Record(w)
  <2> DEFINE p == [worker[w] EXCEPT !.win = 0, !.opened = clock]
             q == NewWindow(worker[w])
  <2>1. worker' = [worker EXCEPT ![w] = q] /\ worker[w].pc = "history"
        /\ UNCHANGED <<clock, rolling, baseline, beat, lag, out, calm, sums, account, torn, left>>
    BY <1>6 DEF Record, redis, history
  <2>2. p \in Processes /\ p.bucket = worker[w].bucket /\ p.now = worker[w].now
        /\ p.folded = worker[w].folded
    <3>1. clock \in Int /\ 0 \in Nat
      BY <1>1
    <3> QED
      BY <1>1, <3>1 DEF Processes
  <2>3. p.bucket <= p.now /\ q = AfterWindow(p) /\ p.now <= Minute(clock) /\ p.folded = 0
    BY <1>1, <2>1, <2>2 DEF Sound, NewWindow
  <2> HIDE DEF p, q
  <2>4. /\ q \in Processes /\ q.folded = p.folded /\ q.bucket = p.bucket /\ q.now = p.now
        /\ q.pc \in {"flush", "idle", "window"} /\ (q.pc = "flush" => q.bucket < q.now)
    BY <2>2, <2>3, AfterFacts
  <2>5. Sound(q, clock) /\ q.pc # "observe"
    BY <2>2, <2>3, <2>4, MetricsFacts DEF Sound
  <2>6. KeysOK' /\ left' \in Purses
    BY <2>1 DEF MetricsInv, TypeOK, KeysOK
  <2> QED
    BY <2>1, <2>4, <2>5, <2>6, StepMetrics
<1> QED
  BY <1>4, <1>5, <1>6

LEMMA FlushMetrics == ASSUME MetricsInv, NEW w \in Workers, Flush(w) PROVE MetricsInv'
<1> DEFINE m == worker[w].folded + 1
           q == [worker[w] EXCEPT !.pc = "observe", !.read = baseline[m]]
<1>1. worker' = [worker EXCEPT ![w] = q] /\ worker[w].pc = "flush"
      /\ UNCHANGED <<clock, rolling, baseline, beat, lag, out, calm, sums, account, torn, left>>
  BY DEF Flush, redis, history
<1>2. worker[w] \in Processes /\ Sound(worker[w], clock) /\ m \in 1..Metrics
  <2>1. worker[w] \in Processes /\ Sound(worker[w], clock) /\ worker[w].folded \in 0..Metrics
    BY WorkerFacts DEF MetricsInv
  <2> QED
    BY <1>1, <2>1, MetricsFacts DEF Sound
<1>3. baseline[m] \in Baselines /\ account[m] \in Accounts
  BY <1>2 DEF MetricsInv, TypeOK
<1>4. q \in Processes /\ q.pc = "observe" /\ q.read = baseline[m] /\ q.folded = worker[w].folded
      /\ q.bucket = worker[w].bucket /\ q.now = worker[w].now
  <2> HIDE DEF m
  <2> QED
    BY <1>2, <1>3 DEF Processes
<1> HIDE DEF q
<1>5. Sound(q, clock)
  BY <1>1, <1>2, <1>4 DEF Sound
<1>6. KeysOK' /\ left' \in Purses
  BY <1>1 DEF MetricsInv, TypeOK, KeysOK
<1>7. TypeOK'
  BY <1>1, <1>4, <1>5, <1>6, StepTypeOK DEF MetricsInv
<1>8. q.read.sum <= baseline[m].sum + account[m].overwritten
  <2> HIDE DEF m
  <2> QED
    BY <1>3, <1>4 DEF Baselines, Accounts
<1>9. ReadsAreOld'
  BY <1>1, <1>4, <1>8 DEF MetricsInv, ReadsAreOld, TypeOK
<1> QED
  BY <1>6, <1>7, <1>9 DEF MetricsInv

\* What one worker's SET takes from another's is never negative: what it had read
\* was folded in before.
LEMMA ObserveMetrics == ASSUME MetricsInv, NEW w \in Workers, Observe(w) PROVE MetricsInv'
<1> DEFINE p == worker[w]
           m == p.folded + 1
           q == [p EXCEPT !.pc = IF m = Metrics THEN "learn" ELSE "flush",
                          !.folded = m, !.read = NoValues,
                          !.odd = @ \/ p.read.n >= MinSamples]
           o == baseline[m].sum - p.read.sum
<1>1. /\ worker' = [worker EXCEPT ![w] = q] /\ p.pc = "observe"
      /\ baseline' = [baseline EXCEPT ![m] = [n |-> p.read.n + 1, sum |-> p.read.sum + p.n]]
      /\ account' = [account EXCEPT ![m].overwritten = @ + baseline[m].sum - p.read.sum]
      /\ UNCHANGED <<clock, rolling, beat, lag, out, calm, sums, torn, left>>
  BY DEF Observe
<1>2. p \in Processes /\ Sound(p, clock) /\ p.read \in Baselines /\ p.n \in Nat
      /\ m \in 1..Metrics /\ m \in 0..Metrics /\ p.folded < Metrics /\ p.folded \in 0..Metrics
  <2>1. p \in Processes /\ Sound(p, clock) /\ p.folded \in 0..Metrics
        /\ p.read \in Baselines /\ p.n \in Nat
    BY WorkerFacts DEF MetricsInv
  <2> QED
    BY <1>1, <2>1, MetricsFacts DEF Sound
<1>3. /\ baseline \in [1..Metrics -> Baselines] /\ account \in [1..Metrics -> Accounts]
      /\ p.read.sum <= baseline[m].sum + account[m].overwritten
  BY <1>1 DEF MetricsInv, TypeOK, ReadsAreOld
<1>4. /\ baseline[m] \in Baselines /\ account[m] \in Accounts
      /\ baseline[m].sum \in Nat /\ account[m].overwritten \in Nat /\ p.read.sum \in Nat
      /\ p.read.n \in Nat
  <2> HIDE DEF m, p
  <2> QED
    BY <1>2, <1>3 DEF Baselines, Accounts
<1>5. q \in Processes /\ q.pc \in {"learn", "flush"} /\ (q.pc = "flush" <=> m # Metrics)
      /\ q.folded = m /\ q.bucket = p.bucket /\ q.now = p.now
  <2>1. NoValues \in Baselines /\ (p.odd \/ p.read.n >= MinSamples) \in BOOLEAN
    BY DEF NoValues, Baselines
  <2> HIDE DEF m
  <2> QED
    BY <1>2, <2>1 DEF Processes
<1>6. m \in Nat /\ Metrics \in Nat /\ m <= Metrics
  BY <1>2, MetricsFacts
<1> HIDE DEF q
<1>7. Sound(q, clock)
  <2> HIDE DEF m
  <2> QED
    BY <1>1, <1>2, <1>5, <1>6 DEF Sound
<1> HIDE DEF m
<1>8. account[m].overwritten + o \in Nat /\ o \in Int
  <2> HIDE DEF p
  <2> QED
    BY <1>3, <1>4
<1>9. account' = [account EXCEPT ![m] = [account[m] EXCEPT !.overwritten = account[m].overwritten + o]]
  <2>1. account[m].overwritten + o = account[m].overwritten + baseline[m].sum - p.read.sum
    <3> HIDE DEF p
    <3> QED
      BY <1>4
  <2> HIDE DEF p, o
  <2> QED
    BY <1>1, <1>2, <1>3, <2>1
<1>10. account' \in [1..Metrics -> Accounts] /\ account'[m].overwritten = account[m].overwritten + o
       /\ \A k \in 1..Metrics : k # m => account'[k] = account[k]
  <2>1. [account[m] EXCEPT !.overwritten = account[m].overwritten + o] \in Accounts
    <3> HIDE DEF o, p
    <3> QED
      BY <1>4, <1>8 DEF Accounts
  <2> HIDE DEF o, p
  <2> QED
    BY <1>2, <1>3, <1>4, <1>9, <2>1 DEF Accounts
<1>11. baseline' \in [1..Metrics -> Baselines] /\ baseline'[m].sum = p.read.sum + p.n
       /\ \A k \in 1..Metrics : k # m => baseline'[k] = baseline[k]
  <2>1. [n |-> p.read.n + 1, sum |-> p.read.sum + p.n] \in Baselines
    BY <1>2, <1>4 DEF Baselines
  <2> HIDE DEF p
  <2> QED
    BY <1>1, <1>2, <1>3, <2>1
<1>12. KeysOK' /\ left' \in Purses
  BY <1>1, <1>10, <1>11 DEF MetricsInv, TypeOK, KeysOK
<1>13. TypeOK'
  BY <1>1, <1>5, <1>7, <1>12, StepTypeOK DEF MetricsInv
<1>14. ASSUME NEW v \in Workers, worker'[v].pc = "observe"
       PROVE  worker'[v].read.sum <= baseline'[worker'[v].folded + 1].sum
                                       + account'[worker'[v].folded + 1].overwritten
  <2>1. v # w /\ worker'[v] = worker[v]
    BY <1>1, <1>5, <1>14 DEF MetricsInv, TypeOK
  <2>2. worker[v].read.sum <= baseline[worker[v].folded + 1].sum
                                + account[worker[v].folded + 1].overwritten
        /\ worker[v].folded + 1 \in 1..Metrics /\ worker[v].read.sum \in Nat
    BY <1>14, <2>1, WorkerFacts, MetricsFacts DEF MetricsInv, Sound, ReadsAreOld, Baselines
  <2>3. CASE worker[v].folded + 1 # m
    BY <1>10, <1>11, <2>1, <2>2, <2>3
  <2>4. CASE worker[v].folded + 1 = m
    <3>1. baseline'[m].sum + account'[m].overwritten
            = baseline[m].sum + account[m].overwritten + p.n
      <4>1. ASSUME NEW b \in Nat, NEW a \in Nat, NEW x \in Nat, NEW k \in Nat
            PROVE  (x + k) + (a + (b - x)) = b + a + k
        OBVIOUS
      <4>2. /\ baseline'[m].sum = p.read.sum + p.n
            /\ account'[m].overwritten = account[m].overwritten + (baseline[m].sum - p.read.sum)
        BY <1>10, <1>11
      <4>3. /\ baseline[m].sum \in Nat /\ account[m].overwritten \in Nat
            /\ p.read.sum \in Nat /\ p.n \in Nat
        BY <1>2, <1>4
      <4> HIDE DEF p
      <4> QED
        BY <4>1, <4>2, <4>3
    <3>2. worker[v].read.sum <= baseline[m].sum + account[m].overwritten
      BY <2>2, <2>4
    <3>3. worker[v].read.sum <= baseline'[m].sum + account'[m].overwritten
      <4> DEFINE s == baseline[m].sum + account[m].overwritten
      <4>1. s \in Nat
        BY <1>4
      <4> HIDE DEF s, p
      <4>2. baseline'[m].sum + account'[m].overwritten = s + p.n
        BY <3>1 DEF s
      <4> QED
        BY <1>2, <2>2, <3>2, <4>1, <4>2 DEF s
    <3> QED
      BY <2>1, <2>4, <3>3
  <2> QED
    BY <2>3, <2>4
<1> QED
  BY <1>12, <1>13, <1>14 DEF MetricsInv, ReadsAreOld

LEMMA LearnFacts ==
    ASSUME NEW p \in Processes,
           NEW q, q = [p EXCEPT !.pc = "alert", !.buffer = Buffered(@), !.trained = Trained(p),
                                !.odd = @ \/ Buffered(p.buffer) >= MinBuffer]
    PROVE  /\ q \in Processes /\ q.pc = "alert" /\ q.folded = p.folded
           /\ q.n = p.n /\ q.win = p.win /\ q.bucket = p.bucket /\ q.now = p.now
           /\ q.minutes = p.minutes /\ q.since = p.since /\ q.due = p.due /\ q.round = p.round
           /\ q.buffer = Buffered(p.buffer) /\ q.trained = Trained(p)
<1>1. p.trained \in Int /\ p.buffer \in 0..BufferSize
  BY DEF Processes
<1>2. Trained(p) \in Int /\ Buffered(p.buffer) \in 0..BufferSize
      /\ (p.odd \/ Buffered(p.buffer) >= MinBuffer) \in BOOLEAN
  BY <1>1, BufferedFacts DEF Trained
<1> QED
  BY <1>2 DEF Processes

LEMMA CloseFacts ==
    ASSUME NEW p \in Processes
    PROVE  /\ Close(p) \in Processes /\ Close(p).pc = "idle" /\ Close(p).folded = 0
           /\ Close(p).n = 0 /\ Close(p).win = p.win
           /\ Close(p).bucket = p.now /\ Close(p).now = p.now
           /\ Close(p).minutes = Append(p.minutes, p.bucket)
           /\ Close(p).buffer = p.buffer /\ Close(p).trained = p.trained
           /\ Close(p).since = p.since /\ Close(p).due = p.due /\ Close(p).round = p.round
<1>1. Append(p.minutes, p.bucket) \in Seq(Int) /\ 0 \in 0..Metrics
  BY MetricsAssumption DEF Processes
<1> QED
  BY <1>1 DEF Close, Processes

LEMMA FailFacts ==
    ASSUME NEW p \in Processes,
           NEW q, q = [p EXCEPT !.pc = "idle", !.read = NoValues, !.folded = 0, !.odd = FALSE]
    PROVE  /\ q \in Processes /\ q.pc = "idle" /\ q.folded = 0
           /\ q.n = p.n /\ q.win = p.win /\ q.bucket = p.bucket /\ q.now = p.now
           /\ q.minutes = p.minutes /\ q.since = p.since /\ q.due = p.due /\ q.round = p.round
           /\ q.buffer = p.buffer /\ q.trained = p.trained
<1>1. NoValues \in Baselines /\ 0 \in 0..Metrics
  BY MetricsAssumption DEF NoValues, Baselines
<1> QED
  BY <1>1 DEF Processes

\* What a failed batch and a death add to the accounts.
LEMMA LossFacts ==
    ASSUME TypeOK, NEW w \in Workers, Fail(w) \/ Die(w)
    PROVE  /\ sums' \in Counts /\ account' \in [1..Metrics -> Accounts]
           /\ torn' \subseteq {"rolling", "lag"}
           /\ \A m \in 1..Metrics : account'[m].overwritten = account[m].overwritten
<1> DEFINE p == worker[w]
<1>1. p.n \in Nat /\ p.win \in Nat
  BY WorkerFacts
<1>2. sums \in Counts /\ account \in [1..Metrics -> Accounts] /\ torn \subseteq {"rolling", "lag"}
  BY DEF TypeOK
<1>3. torn' \subseteq {"rolling", "lag"}
  BY <1>2 DEF Fail, Die
<1>4. sums' \in Counts
  <2>1. sums.shownTwice + p.win \in Nat /\ sums.unshown + p.win \in Nat
    <3>1. sums.shownTwice \in Nat /\ sums.unshown \in Nat
      BY <1>2 DEF Counts
    <3> HIDE DEF p
    <3> QED
      BY <1>1, <3>1
  <2> HIDE DEF p
  <2> QED
    BY <1>2, <2>1 DEF Fail, Die, Counts, p
<1>5. ASSUME NEW m \in 1..Metrics
      PROVE  account'[m] \in Accounts /\ account'[m].overwritten = account[m].overwritten
  <2>1. account[m] \in Accounts
    BY <1>2
  <2>2. account[m].again + p.n \in Nat /\ account[m].forgotten + p.n \in Nat
    BY <1>1, <2>1 DEF Accounts
  <2>3. account'[m] \in {account[m], [account[m] EXCEPT !.again = account[m].again + p.n],
                         [account[m] EXCEPT !.forgotten = account[m].forgotten + p.n]}
    <3>1. account[m] = [account[m] EXCEPT !.again = account[m].again]
          /\ account[m] = [account[m] EXCEPT !.forgotten = account[m].forgotten]
      BY <2>1 DEF Accounts
    <3>2. CASE Fail(w)
      <4>1. account'[m] = [account[m] EXCEPT !.again = IF m <= p.folded THEN @ + p.n ELSE @]
        BY <3>2 DEF Fail
      <4> HIDE DEF p
      <4> QED
        BY <3>1, <4>1
    <3>3. CASE Die(w)
      <4>1. account'[m] = [account[m] EXCEPT !.forgotten = IF m <= p.folded THEN @ ELSE @ + p.n]
        BY <3>3 DEF Die
      <4> HIDE DEF p
      <4> QED
        BY <3>1, <4>1
    <3> QED
      BY <3>2, <3>3
  <2> HIDE DEF p
  <2> QED
    BY <2>1, <2>2, <2>3 DEF Accounts
<1>6. account' \in [1..Metrics -> Accounts]
  <2>1. account' = [m \in 1..Metrics |-> account'[m]]
    BY DEF Fail, Die
  <2> QED
    BY <1>5, <2>1
<1> QED
  BY <1>3, <1>4, <1>5, <1>6

\* The end of a minute, a failed batch, a death and a start.
LEMMA EndMetrics ==
    ASSUME MetricsInv, NEW w \in Workers, Learn(w) \/ Alert(w) \/ Fail(w) \/ Die(w) \/ Start(w)
    PROVE  MetricsInv'
<1>1. worker[w] \in Processes /\ Sound(worker[w], clock) /\ clock \in Nat /\ clock \in Int
  BY WorkerFacts DEF MetricsInv
<1>2. PICK q \in Processes : Sound(q, clock) /\ worker' = [worker EXCEPT ![w] = q]
                               /\ q.pc # "observe"
  <2>1. CASE Alert(w)
    <3>1. Sound(Close(worker[w]), clock)
      <4>1. worker[w].now \in Int
        BY <1>1 DEF Processes
      <4> QED
        BY <1>1, <2>1, <4>1, CloseFacts DEF Sound, Alert
    <3> QED
      BY <1>1, <2>1, <3>1, CloseFacts DEF Alert
  <2>2. CASE Learn(w)
    <3> DEFINE q == [worker[w] EXCEPT !.pc = "alert", !.buffer = Buffered(@),
                                      !.trained = Trained(worker[w]),
                                      !.odd = @ \/ Buffered(worker[w].buffer) >= MinBuffer]
    <3>1. worker' = [worker EXCEPT ![w] = q] /\ worker[w].pc = "learn"
      BY <2>2 DEF Learn
    <3>2. q \in Processes /\ q.pc = "alert" /\ q.folded = worker[w].folded
          /\ q.bucket = worker[w].bucket /\ q.now = worker[w].now
      BY <1>1, LearnFacts
    <3> HIDE DEF q
    <3>3. Sound(q, clock)
      BY <1>1, <3>1, <3>2 DEF Sound
    <3> QED
      BY <3>1, <3>2, <3>3
  <2>3. CASE Fail(w)
    <3> DEFINE q == [worker[w] EXCEPT !.pc = "idle", !.read = NoValues, !.folded = 0,
                                      !.odd = FALSE]
    <3>1. worker' = [worker EXCEPT ![w] = q] /\ worker[w].pc # "down"
      BY <2>3 DEF Fail
    <3>2. q \in Processes /\ q.pc = "idle" /\ q.folded = 0
          /\ q.bucket = worker[w].bucket /\ q.now = worker[w].now
      BY <1>1, FailFacts
    <3> HIDE DEF q
    <3>3. Sound(q, clock)
      BY <1>1, <3>1, <3>2 DEF Sound
    <3> QED
      BY <3>1, <3>2, <3>3
  <2>4. CASE Die(w)
    BY <1>1, <2>4, StartedFacts, StartedSound DEF Die
  <2>5. CASE Start(w)
    BY <1>1, <2>5, StartedFacts, StartedSound DEF Start
  <2> QED
    BY <2>1, <2>2, <2>3, <2>4, <2>5
<1>3. /\ UNCHANGED <<clock, rolling, baseline, beat, lag, out, calm>>
      /\ sums' \in Counts /\ account' \in [1..Metrics -> Accounts]
      /\ torn' \subseteq {"rolling", "lag"}
      /\ \A m \in 1..Metrics : account'[m].overwritten = account[m].overwritten
  <2>1. CASE Learn(w) \/ Alert(w) \/ Start(w)
    BY <2>1 DEF Learn, Alert, Start, redis, history, MetricsInv, TypeOK
  <2>2. CASE Fail(w) \/ Die(w)
    BY <2>2, LossFacts DEF Fail, Die, redis, MetricsInv
  <2> QED
    BY <2>1, <2>2
<1>4. left' \in Purses
  BY SpendFacts DEF Learn, Alert, Fail, Die, Start, MetricsInv
<1>5. KeysOK'
  BY <1>3 DEF MetricsInv, TypeOK, KeysOK
<1>6. TypeOK'
  BY <1>2, <1>3, <1>5, StepTypeOK DEF MetricsInv
<1>7. ReadsAreOld'
  BY <1>2, <1>3, StepReads
<1> QED
  BY <1>4, <1>6, <1>7 DEF MetricsInv

LEMMA PollMetrics ==
    ASSUME MetricsInv, NEW c \in Clients, Poll(c) PROVE MetricsInv'
<1>1. left' \in Purses /\ UNCHANGED <<clock, worker, redis, out, calm, history>>
  BY SpendFacts DEF MetricsInv, Poll
<1> QED
  BY <1>1 DEF MetricsInv, TypeOK, ReadsAreOld, redis, history

LEMMA NextMetrics == MetricsInv /\ [DashNext]_dashVars => MetricsInv'
<1> SUFFICES ASSUME MetricsInv, [DashNext]_dashVars PROVE MetricsInv'
  OBVIOUS
<1>1. CASE UNCHANGED dashVars
  BY <1>1 DEF dashVars, vars, redis, history, MetricsInv, TypeOK, ReadsAreOld
<1> QED
  BY <1>1, EnvironmentMetrics, RefreshMetrics, BatchMetrics, WindowMetrics, FlushMetrics,
     ObserveMetrics, EndMetrics, PollMetrics DEF DashNext, Next

LEMMA MetricsInvHolds == DashSpec => []MetricsInv
<1>1. DashInit => MetricsInv
  BY InitMetrics DEF DashInit
<1> QED
  BY <1>1, NextMetrics, PTL DEF DashSpec

(***************************************************************************)
(* No worker is in a minute that is yet to come, folds one that is not     *)
(* over or asks the model before all metrics are folded, no key is newer   *)
(* than the clock, and no count of what was lost, repeated or overwritten  *)
(* is negative.                                                            *)
(***************************************************************************)
THEOREM TypeOKHolds == DashSpec => []TypeOK
<1>1. MetricsInv => TypeOK
  BY DEF MetricsInv
<1> QED
  BY <1>1, MetricsInvHolds, PTL
-----------------------------------------------------------------------------
(***************************************************************************)
(* Sums over the workers.                                                  *)
(***************************************************************************)
Column(held, w) == {w} \X (1..held[w])

LEMMA ColumnFacts ==
    ASSUME NEW held \in [Workers -> Nat], NEW w \in Workers
    PROVE  IsFiniteSet(Column(held, w)) /\ Cardinality(Column(held, w)) = held[w]
<1>1. held[w] \in Nat
  OBVIOUS
<1>2. IsFiniteSet({w}) /\ Cardinality({w}) = 1
  BY FS_Singleton
<1>3. IsFiniteSet(1..held[w]) /\ Cardinality(1..held[w]) = held[w]
  BY <1>1, FS_Interval
<1> DEFINE numbers == 1..held[w]
<1>4. IsFiniteSet({w} \X numbers)
      /\ Cardinality({w} \X numbers) = Cardinality({w}) * Cardinality(numbers)
  <2> HIDE DEF numbers
  <2> QED
    BY <1>2, <1>3, FS_Product DEF numbers
<1>5. Cardinality({w}) * Cardinality(numbers) = held[w]
  BY <1>1, <1>2, <1>3
<1> QED
  BY <1>4, <1>5 DEF Column

LEMMA TotalIsFinite ==
    ASSUME NEW held \in [Workers -> Nat]
    PROVE  IsFiniteSet(UNION {Column(held, w) : w \in Workers})
<1> DEFINE columns == {Column(held, w) : w \in Workers}
           f == [w \in Workers |-> Column(held, w)]
<1>1. f \in Surjection(Workers, columns)
  BY DEF Surjection
<1>2. IsFiniteSet(columns)
  BY <1>1, FS_Surjection, MetricsAssumption
<1>3. \A c \in columns : IsFiniteSet(c)
  BY ColumnFacts
<1> QED
  BY <1>2, <1>3, FS_UNION

\* When one worker's share changes, so does the total, by as much.
LEMMA TotalChange ==
    ASSUME NEW f \in [Workers -> Nat], NEW g \in [Workers -> Nat], NEW w \in Workers,
           \A v \in Workers \ {w} : g[v] = f[v]
    PROVE  /\ Total(f) \in Nat /\ Total(g) \in Nat
           /\ Total(g) - g[w] = Total(f) - f[w]
<1> DEFINE all(h) == UNION {Column(h, v) : v \in Workers}
           rest == UNION {Column(f, v) : v \in Workers \ {w}}
<1>1. \A v \in Workers \ {w} : Column(g, v) = Column(f, v)
  BY DEF Column
<1>2. all(f) = rest \cup Column(f, w) /\ all(g) = rest \cup Column(g, w)
  BY <1>1
<1>3. rest \cap Column(f, w) = {} /\ rest \cap Column(g, w) = {}
  BY DEF Column
<1>4. IsFiniteSet(rest) /\ Cardinality(rest) \in Nat
  BY <1>2, TotalIsFinite, FS_Subset, FS_CardinalityType
<1>5. Cardinality({}) = 0
  BY FS_EmptySet
<1>6. /\ Cardinality(all(f)) = Cardinality(rest) + f[w]
      /\ Cardinality(all(g)) = Cardinality(rest) + g[w]
  <2>1. ASSUME NEW h \in {f, g} PROVE Cardinality(rest \cup Column(h, w)) = Cardinality(rest) + h[w]
    <3>1. IsFiniteSet(Column(h, w)) /\ Cardinality(Column(h, w)) = h[w] /\ h[w] \in Nat
      BY ColumnFacts
    <3>2. rest \cap Column(h, w) = {}
      BY <1>3
    <3> HIDE DEF rest
    <3>3. Cardinality(rest) \in Nat
      BY <1>4
    <3>4. Cardinality(rest \cup Column(h, w)) = Cardinality(rest) + Cardinality(Column(h, w))
              - Cardinality(rest \cap Column(h, w))
      BY <1>4, <3>1, FS_Union
    <3>5. Cardinality(rest \cap Column(h, w)) = 0
      BY <1>5, <3>2
    <3>6. Cardinality(rest \cup Column(h, w)) = Cardinality(rest) + h[w] - 0
      BY <3>1, <3>4, <3>5
    <3> QED
      BY <3>3, <3>1, <3>6
  <2> HIDE DEF all, rest
  <2> QED
    BY <1>2, <2>1
<1>7. Total(f) = Cardinality(all(f)) /\ Total(g) = Cardinality(all(g))
  BY DEF Total, Column
<1> HIDE DEF all, rest
<1> QED
  BY <1>4, <1>6, <1>7

LEMMA TotalOfNothing ==
    ASSUME NEW f \in [Workers -> Nat], \A w \in Workers : f[w] = 0
    PROVE  Total(f) = 0
<1>1. \A w \in Workers : {w} \X (1..f[w]) = {}
  <2> SUFFICES ASSUME NEW w \in Workers PROVE 1..0 = {}
    OBVIOUS
  <2> QED
    OBVIOUS
<1>2. UNION {{w} \X (1..f[w]) : w \in Workers} = {}
  BY <1>1
<1> QED
  BY <1>2, FS_EmptySet DEF Total

\* What the process p holds of a minute for metric m, and of a window; one that is
\* down, nothing.
HeldMinute(m, p) == IF m <= p.folded THEN 0 ELSE p.n
HeldWindow(p) == IF p.pc \in {"expire", "history"} THEN 0 ELSE p.win

DownIsEmpty == \A w \in Workers : worker[w].pc = "down" => worker[w].n = 0 /\ worker[w].win = 0

SumsInv == MinutesAddUp /\ WindowsAddUp /\ DownIsEmpty

\* What the other accounts lack, and what the workers hold has to make up for.
MinuteGap(b, a, s) == b.sum + a.forgotten + a.overwritten - s.counted - a.again
WindowGap(s) == s.shown + s.unshown - s.ingested - s.shownTwice

LEMMA GapFacts ==
    ASSUME NEW b \in Baselines, NEW a \in Accounts, NEW s \in Counts, NEW t \in Int
    PROVE  /\ MinuteGap(b, a, s) \in Int
           /\ b.sum + t + a.forgotten + a.overwritten = s.counted + a.again
                <=> MinuteGap(b, a, s) + t = 0
<1>1. b.sum \in Int /\ a.forgotten \in Int /\ a.overwritten \in Int /\ s.counted \in Int
      /\ a.again \in Int
  BY DEF Baselines, Accounts, Counts
<1> QED
  BY <1>1 DEF MinuteGap

LEMMA WindowGapFacts ==
    ASSUME NEW s \in Counts, NEW t \in Int
    PROVE  /\ WindowGap(s) \in Int
           /\ s.shown + t + s.unshown = s.ingested + s.shownTwice <=> WindowGap(s) + t = 0
<1> DEFINE a == s.shown
           b == s.unshown
           c == s.ingested
           d == s.shownTwice
<1>1. a \in Int /\ b \in Int /\ c \in Int /\ d \in Int
  BY DEF Counts
<1>2. WindowGap(s) = a + b - c - d
  BY DEF WindowGap
<1> HIDE DEF a, b, c, d
<1>3. /\ a + b - c - d \in Int
      /\ (a + t + b = c + d) <=> ((a + b - c - d) + t = 0)
  BY <1>1
<1>4. /\ WindowGap(s) \in Int
      /\ (a + t + b = c + d) <=> (WindowGap(s) + t = 0)
  BY <1>2, <1>3
<1> QED
  BY <1>4 DEF a, b, c, d

\* A step that takes the process p to q moves what it counts from one account
\* to another.
MinuteBalances(m, p, q) ==
    MinuteGap(baseline'[m], account'[m], sums') + HeldMinute(m, q)
        = MinuteGap(baseline[m], account[m], sums) + HeldMinute(m, p)
WindowBalances(p, q) ==
    WindowGap(sums') + HeldWindow(q) = WindowGap(sums) + HeldWindow(p)
Balances(p, q) ==
    /\ \A m \in 1..Metrics : MinuteBalances(m, p, q)
    /\ WindowBalances(p, q)
    /\ q.pc = "down" => q.n = 0 /\ q.win = 0

\* A step that leaves a process's counters, and all the accounts, alone.
LEMMA SameBalances ==
    ASSUME NEW p, NEW q, \A m \in 1..Metrics : HeldMinute(m, q) = HeldMinute(m, p),
           HeldWindow(q) = HeldWindow(p),
           baseline' = baseline, account' = account, sums' = sums, q.pc # "down"
    PROVE  Balances(p, q)
  BY DEF Balances, MinuteBalances, WindowBalances

LEMMA StepSums ==
    ASSUME TypeOK, TypeOK', SumsInv, NEW w \in Workers,
           worker' = [worker EXCEPT ![w] = worker'[w]],
           Balances(worker[w], worker'[w])
    PROVE  SumsInv'
<1> DEFINE p == worker[w]
           q == worker'[w]
<1>1. p \in Processes /\ q \in Processes /\ worker \in [Workers -> Processes]
      /\ worker' \in [Workers -> Processes]
  BY DEF TypeOK
<1>2. sums \in Counts /\ sums' \in Counts
      /\ \A m \in 1..Metrics : /\ baseline[m] \in Baselines /\ baseline'[m] \in Baselines
                              /\ account[m] \in Accounts /\ account'[m] \in Accounts
  BY DEF TypeOK
<1>3. Balances(p, q)
  OBVIOUS
<1>4. ASSUME NEW f \in [Workers -> Nat], NEW g \in [Workers -> Nat],
             \A v \in Workers \ {w} : g[v] = f[v]
      PROVE  /\ Total(f) \in Nat /\ Total(g) \in Nat /\ f[w] \in Nat /\ g[w] \in Nat
             /\ Total(g) - g[w] = Total(f) - f[w]
  BY <1>4, TotalChange
<1>5. ASSUME NEW m \in 1..Metrics
      PROVE  baseline'[m].sum + Total(Unflushed(m))' + account'[m].forgotten
                 + account'[m].overwritten = sums'.counted + account'[m].again
  <2> DEFINE f == Unflushed(m)
             g == [v \in Workers |-> IF m <= worker'[v].folded THEN 0 ELSE worker'[v].n]
  <2>1. f \in [Workers -> Nat] /\ g \in [Workers -> Nat]
    BY <1>1 DEF Unflushed, Processes
  <2>2. /\ \A v \in Workers \ {w} : g[v] = f[v]
        /\ f[w] = HeldMinute(m, p) /\ g[w] = HeldMinute(m, q)
    BY <1>1 DEF Unflushed, HeldMinute
  <2>3. Total(Unflushed(m))' = Total(g) /\ Total(Unflushed(m)) = Total(f)
    BY DEF Total, Unflushed
  <2> HIDE DEF f, g, p, q
  <2>4. /\ Total(f) \in Nat /\ Total(g) \in Nat /\ f[w] \in Nat /\ g[w] \in Nat
        /\ Total(g) - g[w] = Total(f) - f[w]
    BY <1>4, <2>1, <2>2
  <2>5. MinuteGap(baseline'[m], account'[m], sums') + g[w]
          = MinuteGap(baseline[m], account[m], sums) + f[w]
    BY <1>3, <2>2 DEF Balances, MinuteBalances
  <2>6. /\ MinuteGap(baseline[m], account[m], sums) \in Int
        /\ MinuteGap(baseline'[m], account'[m], sums') \in Int
        /\ MinuteGap(baseline[m], account[m], sums) + Total(f) = 0
    <3>1. baseline[m].sum + Total(f) + account[m].forgotten + account[m].overwritten
            = sums.counted + account[m].again
      BY <2>3 DEF SumsInv, MinutesAddUp
    <3> QED
      BY <1>2, <2>4, <3>1, GapFacts
  <2>7. MinuteGap(baseline'[m], account'[m], sums') + Total(g) = 0
    <3>1. ASSUME NEW x \in Int, NEW y \in Int, NEW u \in Int, NEW v \in Int,
                 NEW k \in Int, NEW l \in Int, v - l = u - k, y + l = x + k, x + u = 0
          PROVE  y + v = 0
      BY <3>1
    <3> DEFINE y == MinuteGap(baseline'[m], account'[m], sums')
               x == MinuteGap(baseline[m], account[m], sums)
               u == Total(f)
               v == Total(g)
    <3>2. /\ x \in Int /\ y \in Int /\ u \in Int /\ v \in Int /\ f[w] \in Int /\ g[w] \in Int
          /\ v - g[w] = u - f[w] /\ y + g[w] = x + f[w] /\ x + u = 0
      BY <2>4, <2>5, <2>6
    <3> HIDE DEF x, y, u, v
    <3>3. y + v = 0
      BY <3>1, <3>2
    <3> QED
      BY <3>3 DEF y, v
  <2>8. baseline'[m].sum + Total(g) + account'[m].forgotten + account'[m].overwritten
          = sums'.counted + account'[m].again
    BY <1>2, <2>4, <2>7, GapFacts
  <2> QED
    BY <2>3, <2>8
<1>6. sums'.shown + Total(Unshown)' + sums'.unshown = sums'.ingested + sums'.shownTwice
  <2> DEFINE f == Unshown
             g == [v \in Workers |->
                     IF worker'[v].pc \in {"expire", "history"} THEN 0 ELSE worker'[v].win]
  <2>1. f \in [Workers -> Nat] /\ g \in [Workers -> Nat]
    BY <1>1 DEF Unshown, Processes
  <2>2. /\ \A v \in Workers \ {w} : g[v] = f[v]
        /\ f[w] = HeldWindow(p) /\ g[w] = HeldWindow(q)
    BY <1>1 DEF Unshown, HeldWindow
  <2>3. Total(Unshown)' = Total(g) /\ Total(Unshown) = Total(f)
    BY DEF Total, Unshown
  <2> HIDE DEF f, g, p, q
  <2>4. /\ Total(f) \in Nat /\ Total(g) \in Nat /\ f[w] \in Nat /\ g[w] \in Nat
        /\ Total(g) - g[w] = Total(f) - f[w]
    BY <1>4, <2>1, <2>2
  <2>5. WindowGap(sums') + g[w] = WindowGap(sums) + f[w]
    BY <1>3, <2>2 DEF Balances, WindowBalances
  <2>6. /\ WindowGap(sums) \in Int /\ WindowGap(sums') \in Int
        /\ WindowGap(sums) + Total(f) = 0
    BY <1>2, <2>3, <2>4, WindowGapFacts DEF SumsInv, WindowsAddUp
  <2>7. WindowGap(sums') + Total(g) = 0
    BY <2>4, <2>5, <2>6
  <2> QED
    BY <1>2, <2>3, <2>4, <2>7, WindowGapFacts
<1>7. DownIsEmpty'
  BY <1>1, <1>3 DEF SumsInv, DownIsEmpty, Balances, p, q
<1> QED
  BY <1>5, <1>6, <1>7 DEF SumsInv, MinutesAddUp, WindowsAddUp

LEMMA BatchBalances ==
    ASSUME TypeOK, left \in Purses, NEW w \in Workers, NEW b \in left.kinds, Batch(w, b)
    PROVE  Balances(worker[w], worker'[w])
<1> DEFINE p == worker[w]
           k == b.fresh + b.seen + b.invalid
           x == [p EXCEPT !.win = @ + k]
           y == [x EXCEPT !.n = @ + b.fresh, !.now = Minute(clock)]
           measured == b.fresh > 0 /\ Works("redis") /\ Works("postgres")
           c == IF measured THEN b.fresh ELSE 0
           q == worker'[w]
<1>1. p \in Processes /\ sums \in Counts /\ p.n \in Nat /\ p.win \in Nat
  BY WorkerFacts DEF TypeOK
<1>2. /\ q = IF measured THEN AfterCount(y) ELSE x
      /\ sums' = [sums EXCEPT !.ingested = @ + k, !.counted = @ + c]
      /\ baseline' = baseline /\ account' = account /\ p.pc = "idle" /\ p.folded = 0
  BY WorkerFacts DEF Batch, TypeOK, redis, Sound
<1>3. b.fresh \in Nat /\ k \in Nat /\ c \in Nat
  <2>1. b \in [fresh : Nat, seen : Nat, invalid : Nat]
    BY DEF Purses
  <2> QED
    BY <2>1
<1> HIDE DEF k
<1>4. /\ x.pc = "idle" /\ x.n = p.n /\ x.win = p.win + k /\ x.folded = 0
      /\ DOMAIN x = DOMAIN p
  BY <1>1, <1>2 DEF Processes
<1>5. {"pc", "n", "now"} \subseteq DOMAIN x
  BY <1>1, <1>4 DEF Processes
<1> HIDE DEF x, p
<1>6. y.pc = "idle" /\ y.n = p.n + b.fresh /\ y.win = p.win + k /\ y.folded = 0
      /\ {"pc"} \subseteq DOMAIN y
  BY <1>4, <1>5
<1> HIDE DEF y
<1>7. AfterCount(y).pc \in {"idle", "flush", "window"} /\ AfterCount(y).n = y.n
      /\ AfterCount(y).win = y.win /\ AfterCount(y).folded = 0
  BY <1>6 DEF AfterCount, AfterWindow
<1>8. /\ q.pc \in {"idle", "flush", "window"} /\ q.n = p.n + c /\ q.win = p.win + k
      /\ q.folded = 0
  <2>1. CASE measured
    BY <1>2, <1>6, <1>7, <2>1
  <2>2. CASE ~measured
    BY <1>1, <1>2, <1>4, <2>2
  <2> QED
    BY <2>1, <2>2
<1> HIDE DEF c, q
<1>9. /\ sums'.ingested = sums.ingested + k /\ sums'.counted = sums.counted + c
      /\ sums'.shown = sums.shown /\ sums'.unshown = sums.unshown
      /\ sums'.shownTwice = sums.shownTwice
  BY <1>1, <1>2 DEF Counts
<1>10. HeldWindow(q) = p.win + k /\ HeldWindow(p) = p.win
  BY <1>2, <1>8 DEF HeldWindow
<1>11. WindowBalances(p, q)
  <2>1. sums.shown \in Nat /\ sums.unshown \in Nat /\ sums.ingested \in Nat
        /\ sums.shownTwice \in Nat
    BY <1>1 DEF Counts
  <2> QED
    BY <1>1, <1>3, <1>9, <1>10, <2>1 DEF WindowBalances, WindowGap
<1>12. ASSUME NEW m \in 1..Metrics PROVE MinuteBalances(m, p, q)
  <2>1. HeldMinute(m, q) = p.n + c /\ HeldMinute(m, p) = p.n
    BY <1>2, <1>8 DEF HeldMinute
  <2>2. baseline[m] \in Baselines /\ account[m] \in Accounts
    BY DEF TypeOK
  <2>3. baseline[m].sum \in Nat /\ account[m].forgotten \in Nat
        /\ account[m].overwritten \in Nat /\ account[m].again \in Nat /\ sums.counted \in Nat
    BY <1>1, <2>2 DEF Baselines, Accounts, Counts
  <2> QED
    BY <1>1, <1>2, <1>3, <1>9, <2>1, <2>3 DEF MinuteBalances, MinuteGap
<1>13. q.pc # "down"
  BY <1>8
<1> QED
  BY <1>11, <1>12, <1>13 DEF Balances, p, q

\* The SET moves a minute from the worker to the baseline of one metric.
LEMMA ObserveBalances ==
    ASSUME MetricsInv, NEW w \in Workers, Observe(w)
    PROVE  Balances(worker[w], worker'[w])
<1> DEFINE p == worker[w]
           q == worker'[w]
           j == p.folded + 1
<1>1. p \in Processes /\ p.n \in Nat /\ p.win \in Nat /\ p.read \in Baselines
      /\ p.folded \in 0..Metrics /\ Sound(p, clock)
  BY WorkerFacts DEF MetricsInv
<1>2. /\ p.pc = "observe" /\ q.pc \in {"learn", "flush"} /\ q.n = p.n /\ q.win = p.win
      /\ q.folded = j /\ sums' = sums
      /\ baseline' = [baseline EXCEPT ![j] = [n |-> p.read.n + 1, sum |-> p.read.sum + p.n]]
      /\ account' = [account EXCEPT ![j].overwritten = @ + baseline[j].sum - p.read.sum]
  BY <1>1 DEF Observe, MetricsInv, TypeOK, Processes
<1>3. j \in 1..Metrics
  BY <1>1, <1>2, MetricsFacts DEF Sound
<1> HIDE DEF p, q
<1>4. WindowBalances(p, q)
  BY <1>2 DEF WindowBalances, HeldWindow
<1>5. ASSUME NEW m \in 1..Metrics PROVE MinuteBalances(m, p, q)
  <2>1. baseline[m] \in Baselines /\ account[m] \in Accounts /\ sums \in Counts
        /\ baseline \in [1..Metrics -> Baselines] /\ account \in [1..Metrics -> Accounts]
    BY DEF MetricsInv, TypeOK
  <2>2. CASE m = j
    <3>1. HeldMinute(m, p) = p.n /\ HeldMinute(m, q) = 0
      BY <1>1, <1>2, <2>2 DEF HeldMinute
    <3>2. baseline'[m].sum = p.read.sum + p.n
      BY <1>2, <1>3, <2>1, <2>2
    <3>3. /\ account'[m].overwritten = account[m].overwritten + baseline[m].sum - p.read.sum
          /\ account'[m].forgotten = account[m].forgotten /\ account'[m].again = account[m].again
      BY <1>2, <1>3, <2>1, <2>2 DEF Accounts
    <3>4. /\ baseline[m].sum \in Nat /\ account[m].forgotten \in Nat /\ p.read.sum \in Nat
          /\ account[m].overwritten \in Nat /\ account[m].again \in Nat /\ sums.counted \in Nat
      BY <1>1, <2>1 DEF Baselines, Accounts, Counts
    <3> QED
      BY <1>1, <1>2, <3>1, <3>2, <3>3, <3>4 DEF MinuteBalances, MinuteGap
  <2>3. CASE m # j
    <3>1. HeldMinute(m, p) = HeldMinute(m, q)
      BY <1>1, <1>2, <2>3 DEF HeldMinute
    <3>2. baseline'[m] = baseline[m] /\ account'[m] = account[m]
      BY <1>2, <2>1, <2>3
    <3> QED
      BY <1>2, <3>1, <3>2 DEF MinuteBalances
  <2> QED
    BY <2>2, <2>3
<1> QED
  BY <1>2, <1>4, <1>5 DEF Balances, p, q

\* A batch that fails counts again what was folded or shown, and a worker that
\* dies loses what was not.
LEMMA LossBalances ==
    ASSUME TypeOK, NEW w \in Workers, Fail(w) \/ Die(w)
    PROVE  Balances(worker[w], worker'[w])
<1> DEFINE p == worker[w]
           q == worker'[w]
           again(m) == IF m <= p.folded THEN p.n ELSE 0
           shown == IF p.pc \in {"expire", "history"} THEN p.win ELSE 0
<1>1. p \in Processes /\ p.n \in Nat /\ p.win \in Nat /\ clock \in Int
  BY WorkerFacts
<1>2. sums \in Counts /\ account \in [1..Metrics -> Accounts]
      /\ baseline \in [1..Metrics -> Baselines] /\ baseline' = baseline
  BY DEF TypeOK, Fail, Die, redis
<1>3. sums.shownTwice \in Nat /\ sums.unshown \in Nat /\ sums.shown \in Nat
      /\ sums.ingested \in Nat /\ sums.counted \in Nat
  BY <1>2 DEF Counts
<1>4. CASE Fail(w)
  <2>1. /\ q.pc = "idle" /\ q.n = p.n /\ q.win = p.win /\ q.folded = 0
        /\ sums' = [sums EXCEPT !.shownTwice = IF p.pc \in {"expire", "history"}
                                               THEN @ + p.win ELSE @]
        /\ account' = [m \in 1..Metrics |->
               [account[m] EXCEPT !.again = IF m <= p.folded THEN @ + p.n ELSE @]]
    <3>1. q = [p EXCEPT !.pc = "idle", !.read = NoValues, !.folded = 0, !.odd = FALSE]
      BY <1>4 DEF Fail, TypeOK
    <3> HIDE DEF q
    <3>2. q.pc = "idle" /\ q.n = p.n /\ q.win = p.win /\ q.folded = 0
      BY <1>1, <3>1, FailFacts
    <3> QED
      BY <1>4, <3>2 DEF Fail
  <2> HIDE DEF p, q
  <2>2. /\ sums'.shownTwice = sums.shownTwice + shown
        /\ sums'.shown = sums.shown /\ sums'.unshown = sums.unshown
        /\ sums'.ingested = sums.ingested /\ sums'.counted = sums.counted
    BY <1>1, <1>2, <1>3, <2>1 DEF Counts
  <2>3. WindowBalances(p, q)
    <3>1. HeldWindow(q) = p.win /\ HeldWindow(p) = p.win - shown /\ shown \in Nat
      BY <1>1, <2>1 DEF HeldWindow
    <3> HIDE DEF shown
    <3> QED
      BY <1>1, <1>3, <2>2, <3>1 DEF WindowBalances, WindowGap
  <2>4. ASSUME NEW m \in 1..Metrics PROVE MinuteBalances(m, p, q)
    <3>1. account[m] \in Accounts /\ baseline[m].sum \in Nat
      BY <1>2 DEF Baselines
    <3>2. account[m].again \in Nat /\ account[m].forgotten \in Nat
          /\ account[m].overwritten \in Nat
      BY <3>1 DEF Accounts
    <3>3. /\ account'[m].again = account[m].again + again(m)
          /\ account'[m].forgotten = account[m].forgotten
          /\ account'[m].overwritten = account[m].overwritten
      BY <1>1, <2>1, <3>1, <3>2 DEF Accounts
    <3>4. HeldMinute(m, q) = p.n /\ HeldMinute(m, p) = p.n - again(m) /\ again(m) \in Nat
      BY <1>1, <2>1 DEF HeldMinute
    <3> DEFINE b == baseline[m].sum
               f == account[m].forgotten
               o == account[m].overwritten
               c == sums.counted
               g == account[m].again
               n == p.n
               x == again(m)
    <3>5. b \in Nat /\ f \in Nat /\ o \in Nat /\ c \in Nat /\ g \in Nat /\ n \in Nat /\ x \in Nat
      BY <1>1, <1>3, <3>1, <3>2, <3>4
    <3>6. /\ MinuteGap(baseline'[m], account'[m], sums') = b + f + o - c - (g + x)
          /\ MinuteGap(baseline[m], account[m], sums) = b + f + o - c - g
      BY <1>2, <2>2, <3>3 DEF MinuteGap
    <3>7. HeldMinute(m, q) = n /\ HeldMinute(m, p) = n - x
      BY <3>4
    <3> HIDE DEF b, f, o, c, g, n, x
    <3>8. b + f + o - c - (g + x) + n = b + f + o - c - g + (n - x)
      BY <3>5
    <3> QED
      BY <3>6, <3>7, <3>8 DEF MinuteBalances
  <2> QED
    BY <2>1, <2>3, <2>4 DEF Balances, p, q
<1>5. CASE Die(w)
  <2>1. /\ q = Dead(clock)
        /\ sums' = [sums EXCEPT !.unshown = IF p.pc \in {"expire", "history"}
                                            THEN @ ELSE @ + p.win]
        /\ account' = [m \in 1..Metrics |->
               [account[m] EXCEPT !.forgotten = IF m <= p.folded THEN @ ELSE @ + p.n]]
    BY <1>5 DEF Die, TypeOK
  <2>2. q.pc = "down" /\ q.n = 0 /\ q.win = 0 /\ q.folded = 0
    BY <2>1 DEF Dead, Started
  <2> HIDE DEF p, q
  <2>3. /\ sums'.unshown = sums.unshown + HeldWindow(p) /\ HeldWindow(p) \in Nat
        /\ sums'.shown = sums.shown /\ sums'.shownTwice = sums.shownTwice
        /\ sums'.ingested = sums.ingested /\ sums'.counted = sums.counted
    BY <1>1, <1>2, <1>3, <2>1 DEF Counts, HeldWindow
  <2>4. WindowBalances(p, q)
    <3>1. HeldWindow(q) = 0
      BY <2>2 DEF HeldWindow
    <3> QED
      BY <1>3, <2>3, <3>1 DEF WindowBalances, WindowGap
  <2>5. ASSUME NEW m \in 1..Metrics PROVE MinuteBalances(m, p, q)
    <3>1. account[m] \in Accounts /\ baseline[m].sum \in Nat
      BY <1>2 DEF Baselines
    <3>2. account[m].again \in Nat /\ account[m].forgotten \in Nat
          /\ account[m].overwritten \in Nat
      BY <3>1 DEF Accounts
    <3>3. /\ account'[m].forgotten = account[m].forgotten + HeldMinute(m, p)
          /\ account'[m].again = account[m].again
          /\ account'[m].overwritten = account[m].overwritten
      BY <1>1, <2>1, <3>1, <3>2 DEF Accounts, HeldMinute
    <3>4. HeldMinute(m, q) = 0 /\ HeldMinute(m, p) \in Nat
      BY <1>1, <2>2 DEF HeldMinute
    <3>5. ASSUME NEW b \in Nat, NEW f \in Nat, NEW o \in Nat, NEW c \in Nat, NEW g \in Nat,
                 NEW x \in Nat
          PROVE  b + (f + x) + o - c - g + 0 = b + f + o - c - g + x
      OBVIOUS
    <3>6. baseline' = baseline /\ sums'.counted = sums.counted /\ sums.counted \in Nat
      BY <1>2, <1>3, <2>3
    <3>7. /\ MinuteGap(baseline'[m], account'[m], sums')
                = baseline[m].sum + (account[m].forgotten + HeldMinute(m, p))
                    + account[m].overwritten - sums.counted - account[m].again
          /\ MinuteGap(baseline[m], account[m], sums)
                = baseline[m].sum + account[m].forgotten + account[m].overwritten
                    - sums.counted - account[m].again
      BY <3>3, <3>6 DEF MinuteGap
    <3>8. MinuteGap(baseline'[m], account'[m], sums') + 0
            = MinuteGap(baseline[m], account[m], sums) + HeldMinute(m, p)
      BY <3>1, <3>2, <3>4, <3>5, <3>6, <3>7
    <3> QED
      BY <3>4, <3>8 DEF MinuteBalances
  <2> QED
    BY <2>2, <2>4, <2>5 DEF Balances, p, q
<1> QED
  BY <1>4, <1>5

\* HSET moves a window from the worker to the page.
LEMMA ShowBalances ==
    ASSUME TypeOK, NEW w \in Workers, Show(w)
    PROVE  Balances(worker[w], worker'[w])
<1> DEFINE p == worker[w]
           q == worker'[w]
<1>1. p \in Processes /\ p.win \in Nat /\ sums \in Counts
  BY WorkerFacts DEF TypeOK
<1>2. p.pc = "window" /\ q = [p EXCEPT !.pc = "expire"] /\ baseline' = baseline
      /\ account' = account /\ sums' = [sums EXCEPT !.shown = @ + p.win]
  BY DEF Show, TypeOK
<1>3. q.pc = "expire" /\ q.n = p.n /\ q.win = p.win /\ q.folded = p.folded
  BY <1>1, <1>2 DEF Processes
<1> HIDE DEF p, q
<1>4. /\ sums'.shown = sums.shown + p.win /\ sums'.unshown = sums.unshown
      /\ sums'.ingested = sums.ingested /\ sums'.shownTwice = sums.shownTwice
      /\ sums'.counted = sums.counted
  BY <1>1, <1>2 DEF Counts
<1>5. HeldWindow(p) = p.win /\ HeldWindow(q) = 0
  BY <1>2, <1>3 DEF HeldWindow
<1>6. sums.shownTwice \in Nat /\ sums.unshown \in Nat /\ sums.shown \in Nat
      /\ sums.ingested \in Nat
  BY <1>1 DEF Counts
<1>7. WindowBalances(p, q)
  BY <1>1, <1>4, <1>5, <1>6 DEF WindowBalances, WindowGap
<1>8. \A m \in 1..Metrics : MinuteBalances(m, p, q)
  BY <1>2, <1>3, <1>4 DEF MinuteBalances, MinuteGap, HeldMinute
<1> QED
  BY <1>3, <1>7, <1>8 DEF Balances, p, q

\* The other steps of a worker leave the accounts alone.
LEMMA QuietBalances ==
    ASSUME TypeOK, DownIsEmpty, NEW w \in Workers,
           \/ Beat(w) \/ Measure(w) \/ ExpireLag(w) \/ ExpireRolling(w) \/ Record(w)
           \/ Flush(w) \/ Learn(w) \/ Alert(w) \/ Start(w)
    PROVE  Balances(worker[w], worker'[w])
<1> DEFINE p == worker[w]
           q == worker'[w]
<1>1. p \in Processes /\ worker \in [Workers -> Processes] /\ Sound(p, clock)
      /\ clock \in Int
  BY WorkerFacts DEF TypeOK
<1>2. baseline' = baseline /\ account' = account /\ sums' = sums
  BY DEF Beat, Measure, ExpireLag, ExpireRolling, Record, Flush, Learn, Alert, Start, redis, history
<1>3. ASSUME q.pc # "down", \A m \in 1..Metrics : HeldMinute(m, q) = HeldMinute(m, p),
             HeldWindow(q) = HeldWindow(p)
      PROVE  Balances(p, q)
  BY <1>2, <1>3, SameBalances
<1>4. ASSUME q.pc # "down", q.n = p.n, q.win = p.win, q.folded = p.folded,
             q.pc \in {"expire", "history"} <=> p.pc \in {"expire", "history"}
      PROVE  Balances(p, q)
  BY <1>3, <1>4 DEF HeldMinute, HeldWindow
<1>5. CASE Beat(w) \/ Measure(w) \/ ExpireLag(w)
  <2>1. p.pc # "down"
    BY <1>1, <1>5 DEF Beat, Measure, ExpireLag, Up, Sound
  <2>2. q.n = p.n /\ q.win = p.win /\ q.folded = p.folded /\ q.pc = p.pc
    BY <1>1, <1>5 DEF Beat, Measure, ExpireLag, Rest, Processes
  <2> QED
    BY <1>4, <2>1, <2>2
<1>6. CASE ExpireRolling(w)
  <2>1. p.pc = "expire" /\ q = [p EXCEPT !.pc = "history"]
    BY <1>1, <1>6 DEF ExpireRolling
  <2>2. q.pc = "history" /\ q.n = p.n /\ q.win = p.win /\ q.folded = p.folded
    BY <1>1, <2>1 DEF Processes
  <2> QED
    BY <1>4, <2>1, <2>2
<1>7. CASE Record(w)
  <2> DEFINE x == [p EXCEPT !.win = 0, !.opened = clock]
  <2>1. p.pc = "history" /\ q = AfterWindow(x)
    BY <1>1, <1>7 DEF Record, NewWindow
  <2>2. DOMAIN x = DOMAIN p /\ x.win = 0 /\ x.n = p.n /\ x.folded = p.folded
        /\ "pc" \in DOMAIN p
    BY <1>1 DEF Processes
  <2> HIDE DEF x
  <2>3. q.pc \in {"flush", "idle"} /\ q.win = 0 /\ q.n = p.n /\ q.folded = p.folded
    BY <2>1, <2>2 DEF AfterWindow
  <2> QED
    BY <1>3, <2>1, <2>3 DEF HeldMinute, HeldWindow
<1>8. CASE Flush(w)
  <2>1. p.pc = "flush" /\ q = [p EXCEPT !.pc = "observe", !.read = baseline[p.folded + 1]]
    BY <1>1, <1>8 DEF Flush
  <2>2. q.pc = "observe" /\ q.n = p.n /\ q.win = p.win /\ q.folded = p.folded
    BY <1>1, <2>1 DEF Processes
  <2> QED
    BY <1>4, <2>1, <2>2
<1>9. CASE Learn(w)
  <2>1. /\ p.pc = "learn"
        /\ q = [p EXCEPT !.pc = "alert", !.buffer = Buffered(@), !.trained = Trained(p),
                         !.odd = @ \/ Buffered(p.buffer) >= MinBuffer]
    BY <1>1, <1>9 DEF Learn
  <2>0. p \in Processes
    BY <1>1
  <2> HIDE DEF q, p
  <2>2. q.pc = "alert" /\ q.n = p.n /\ q.win = p.win /\ q.folded = p.folded
    BY <2>0, <2>1 DEF Processes
  <2> QED
    BY <1>4, <2>1, <2>2 DEF p, q
<1>10. CASE Alert(w)
  <2>1. p.pc = "alert" /\ q = Close(p)
    BY <1>1, <1>10 DEF Alert
  <2>2. q.pc = "idle" /\ q.n = 0 /\ q.win = p.win
    BY <1>1, <2>1, CloseFacts
  <2>3. ASSUME NEW m \in 1..Metrics PROVE HeldMinute(m, q) = HeldMinute(m, p)
    BY <1>1, <2>1, <2>2 DEF HeldMinute, Sound
  <2> QED
    BY <1>3, <2>1, <2>2, <2>3 DEF HeldWindow
<1>11. CASE Start(w)
  <2>1. p.pc = "down" /\ q = Started(clock)
    BY <1>1, <1>11 DEF Start, Up
  <2>2. p.n = 0 /\ p.win = 0 /\ q.pc = "idle" /\ q.n = 0 /\ q.win = 0
    BY <2>1 DEF DownIsEmpty, Started
  <2> QED
    BY <1>3, <2>1, <2>2 DEF HeldMinute, HeldWindow
<1> QED
  BY <1>5, <1>6, <1>7, <1>8, <1>9, <1>10, <1>11

LEMMA SumsStep ==
    ASSUME MetricsInv, SumsInv, [DashNext]_dashVars
    PROVE  SumsInv'
<1>1. TypeOK /\ TypeOK' /\ left \in Purses /\ DownIsEmpty
  BY NextMetrics DEF MetricsInv, SumsInv
<1>2. ASSUME NEW w \in Workers, NEW b \in left.kinds, Batch(w, b) PROVE SumsInv'
  <2>1. worker' = [worker EXCEPT ![w] = worker'[w]]
    BY <1>1, <1>2 DEF Batch, TypeOK
  <2> QED
    BY <1>1, <1>2, <2>1, BatchBalances, StepSums
<1>3. ASSUME NEW w \in Workers,
             \/ Beat(w) \/ Measure(w) \/ ExpireLag(w) \/ Show(w) \/ ExpireRolling(w)
             \/ Record(w) \/ Flush(w) \/ Observe(w) \/ Learn(w) \/ Alert(w)
             \/ Fail(w) \/ Die(w) \/ Start(w)
      PROVE  SumsInv'
  <2>1. worker' = [worker EXCEPT ![w] = worker'[w]]
    BY <1>1, <1>3 DEF TypeOK, Beat, Measure, ExpireLag, Rest, Show, ExpireRolling, Record, Flush,
                      Observe, Learn, Alert, Fail, Die, Start
  <2>2. Balances(worker[w], worker'[w])
    BY <1>1, <1>3, ShowBalances, ObserveBalances, LossBalances, QuietBalances
  <2> QED
    BY <1>1, <2>1, <2>2, StepSums
<1>4. CASE \/ Tick \/ (\E s \in {"redis", "postgres", "broker"} : Break(s) \/ Mend(s))
           \/ (\E c \in Clients : Poll(c)) \/ UNCHANGED dashVars
  <2>1. worker' = worker /\ baseline' = baseline /\ sums' = sums /\ account' = account
    BY <1>4 DEF Tick, Break, Mend, Poll, dashVars, vars, redis, history
  <2> QED
    BY <2>1 DEF SumsInv, MinutesAddUp, WindowsAddUp, DownIsEmpty, Total, Unflushed, Unshown
<1> QED
  BY <1>2, <1>3, <1>4 DEF DashNext, Next

LEMMA InitSums == DashInit => SumsInv
<1> SUFFICES ASSUME DashInit PROVE SumsInv
  OBVIOUS
<1>1. \A w \in Workers : worker[w].n = 0 /\ worker[w].win = 0
  BY DEF DashInit, Init, Started, Dead
<1>2. /\ \A m \in 1..Metrics : /\ Unflushed(m) \in [Workers -> Nat]
                              /\ \A w \in Workers : Unflushed(m)[w] = 0
      /\ Unshown \in [Workers -> Nat] /\ \A w \in Workers : Unshown[w] = 0
  BY <1>1 DEF Unflushed, Unshown
<1>3. Total(Unshown) = 0 /\ \A m \in 1..Metrics : Total(Unflushed(m)) = 0
  BY <1>2, TotalOfNothing
<1> QED
  BY <1>1, <1>3 DEF SumsInv, MinutesAddUp, WindowsAddUp, DownIsEmpty, DashInit, Init, NoValues,
     NoAccount

(***************************************************************************)
(* No fresh event is lost between the counters of the workers and the      *)
(* baseline of any metric, for any number of workers and metrics: the only *)
(* ones missing died with a worker or were taken by another's SET, and the *)
(* only ones counted again are those of a minute whose flush failed after  *)
(* it had folded the metric (pipeline.py:226-259; anomaly.py:58, 89).      *)
(***************************************************************************)
THEOREM MinutesAddUpHolds == DashSpec => []MinutesAddUp
<1>1. MetricsInv /\ SumsInv /\ [DashNext]_dashVars => SumsInv'
  BY SumsStep
<1>2. SumsInv => MinutesAddUp
  BY DEF SumsInv
<1> QED
  BY <1>1, <1>2, InitSums, MetricsInvHolds, PTL DEF DashSpec

(***************************************************************************)
(* No message is lost between the consumer and the rolling windows that    *)
(* are shown, for any number of workers, but for what a worker had not     *)
(* shown when it died; windows are shown twice only when a call after      *)
(* their HSET failed (pipeline.py:179-223).                                *)
(***************************************************************************)
THEOREM WindowsAddUpHolds == DashSpec => []WindowsAddUp
<1>1. MetricsInv /\ SumsInv /\ [DashNext]_dashVars => SumsInv'
  BY SumsStep
<1>2. SumsInv => WindowsAddUp
  BY DEF SumsInv
<1> QED
  BY <1>1, <1>2, InitSums, MetricsInvHolds, PTL DEF DashSpec
-----------------------------------------------------------------------------
(***************************************************************************)
(* What a step does to a process, in what the remaining proofs look at.    *)
(***************************************************************************)
Keeps(p, q) ==
    /\ q.minutes = p.minutes /\ q.bucket = p.bucket
    /\ q.buffer = p.buffer /\ q.trained = p.trained
Learns(p, q) ==
    /\ q.minutes = p.minutes /\ q.bucket = p.bucket
    /\ q.buffer = Buffered(p.buffer) /\ q.trained = Trained(p)
Closes(p, q) == p.pc = "alert" /\ q = Close(p)

LEMMA StepShape ==
    ASSUME TypeOK, left \in Purses, [DashNext]_dashVars, NEW v \in Workers
    PROVE  LET p == worker[v]
               q == worker'[v]
           IN  Keeps(p, q) \/ Learns(p, q) \/ Closes(p, q) \/ q \in {Started(clock), Dead(clock)}
<1> DEFINE p == worker[v]
           q == worker'[v]
           Goal == Keeps(p, q) \/ Learns(p, q) \/ Closes(p, q) \/ q \in {Started(clock), Dead(clock)}
<1>0. p \in Processes /\ clock \in Nat /\ Minute(clock) \in Int
  BY MinuteFacts DEF TypeOK
<1>1. CASE q = p
  BY <1>1 DEF Keeps
<1>2. ASSUME Beat(v) \/ Measure(v) \/ ExpireLag(v) PROVE Goal
  <2>1. \/ q = [p EXCEPT !.round = "lag"]
        \/ q = [p EXCEPT !.round = "expire"]
        \/ q = [p EXCEPT !.round = "wait", !.due = clock + Wait]
    <3>1. CASE Beat(v)
      BY <3>1 DEF Beat, Rest, TypeOK
    <3>2. CASE Measure(v)
      BY <3>2 DEF Measure, Rest, TypeOK
    <3>3. CASE ExpireLag(v)
      BY <3>3 DEF ExpireLag, Rest, TypeOK
    <3> QED
      BY <1>2, <3>1, <3>2, <3>3
  <2> HIDE DEF p, q
  <2>2. Keeps(p, q)
    BY <1>0, <2>1 DEF Keeps, Processes
  <2> QED
    BY <2>2
<1>3. ASSUME NEW b \in left.kinds, Batch(v, b) PROVE Goal
  <2> DEFINE k == b.fresh + b.seen + b.invalid
             x == [p EXCEPT !.win = @ + k]
             y == [x EXCEPT !.n = @ + b.fresh, !.now = Minute(clock)]
  <2>1. q \in {x, AfterCount(y)}
    BY <1>3 DEF Batch, TypeOK
  <2>2. p.win + k \in Nat /\ p.n + b.fresh \in Nat
    <3>1. b \in [fresh : Nat, seen : Nat, invalid : Nat]
      BY DEF Purses
    <3>2. p.win \in Nat /\ p.n \in Nat
      BY <1>0 DEF Processes
    <3> QED
      BY <3>1, <3>2
  <2>3. x \in Processes /\ Keeps(p, x)
    <3> HIDE DEF k
    <3> QED
      BY <1>0, <2>2 DEF Processes, Keeps
  <2>4. x.n = p.n
    BY <1>0 DEF Processes
  <2> HIDE DEF x
  <2>5. y \in Processes /\ Keeps(x, y)
    BY <1>0, <2>2, <2>3, <2>4 DEF Processes, Keeps
  <2> HIDE DEF y
  <2>6. Keeps(y, AfterCount(y))
    BY <2>5 DEF AfterCount, AfterWindow, Keeps, Processes
  <2> QED
    BY <2>1, <2>3, <2>5, <2>6 DEF Keeps
<1>4. ASSUME Show(v) \/ ExpireRolling(v) \/ Flush(v) \/ Observe(v) \/ Fail(v) PROVE Goal
  <2>1. CASE Show(v)
    <3>1. q = [p EXCEPT !.pc = "expire"]
      BY <2>1 DEF Show, TypeOK
    <3> HIDE DEF p, q
    <3> QED
      BY <1>0, <3>1 DEF Keeps, Processes
  <2>2. CASE Flush(v)
    <3>1. q = [p EXCEPT !.pc = "observe", !.read = baseline[p.folded + 1]]
      BY <2>2 DEF Flush, TypeOK
    <3> HIDE DEF p, q
    <3> QED
      BY <1>0, <3>1 DEF Keeps, Processes
  <2>3. CASE Fail(v)
    <3>1. q = [p EXCEPT !.pc = "idle", !.read = NoValues, !.folded = 0, !.odd = FALSE]
      BY <2>3 DEF Fail, TypeOK
    <3> HIDE DEF p, q
    <3> QED
      BY <1>0, <3>1 DEF Keeps, Processes
  <2>4. CASE ExpireRolling(v)
    <3>1. q = [p EXCEPT !.pc = "history"]
      BY <2>4 DEF ExpireRolling, TypeOK
    <3> HIDE DEF p, q
    <3> QED
      BY <1>0, <3>1 DEF Keeps, Processes
  <2>5. CASE Observe(v)
    <3>1. \E c, k, o : q = [p EXCEPT !.pc = c, !.folded = k, !.read = NoValues, !.odd = o]
      BY <2>5 DEF Observe, TypeOK
    <3> HIDE DEF p, q
    <3> QED
      BY <1>0, <3>1 DEF Keeps, Processes
  <2> QED
    BY <1>4, <2>1, <2>2, <2>3, <2>4, <2>5
<1>5. ASSUME Record(v) PROVE Goal
  <2> DEFINE x == [p EXCEPT !.win = 0, !.opened = clock]
  <2>1. q = AfterWindow(x)
    BY <1>5 DEF Record, NewWindow, TypeOK
  <2>2. x \in Processes /\ Keeps(p, x)
    <3>1. clock \in Int /\ 0 \in Nat
      BY <1>0
    <3> QED
      BY <1>0, <3>1 DEF Processes, Keeps
  <2> HIDE DEF x
  <2>3. Keeps(x, AfterWindow(x))
    BY <2>2 DEF AfterWindow, Keeps, Processes
  <2> QED
    BY <2>1, <2>2, <2>3 DEF Keeps
<1>6. ASSUME Learn(v) PROVE Goal
  <2>1. q = [p EXCEPT !.pc = "alert", !.buffer = Buffered(@), !.trained = Trained(p),
                      !.odd = @ \/ Buffered(p.buffer) >= MinBuffer]
    BY <1>6 DEF Learn, TypeOK
  <2> HIDE DEF q
  <2> QED
    BY <1>0, <2>1, LearnFacts DEF Learns
<1>7. ASSUME Alert(v) PROVE Goal
  BY <1>7 DEF Alert, Closes, TypeOK
<1>8. ASSUME Die(v) \/ Start(v) PROVE Goal
  BY <1>8 DEF Die, Start, TypeOK
<1>9. CASE worker' = worker
  BY <1>1, <1>9
<1>10. CASE \E w \in Workers : w # v /\ worker' = [worker EXCEPT ![w] = worker'[w]]
  BY <1>1, <1>10 DEF TypeOK
<1>11. ASSUME NEW w \in Workers, w # v,
             \/ \E b \in left.kinds : Batch(w, b)
             \/ Beat(w) \/ Measure(w) \/ ExpireLag(w) \/ Show(w) \/ ExpireRolling(w)
             \/ Record(w) \/ Flush(w) \/ Observe(w) \/ Learn(w) \/ Alert(w)
             \/ Fail(w) \/ Die(w) \/ Start(w)
       PROVE  Goal
  <2>1. worker'[v] = worker[v]
    BY <1>11 DEF TypeOK, Batch, Beat, Measure, ExpireLag, Rest, Show, ExpireRolling, Record, Flush,
                 Observe, Learn, Alert, Fail, Die, Start
  <2> QED
    BY <1>1, <2>1
<1>12. CASE Tick \/ (\E s \in {"redis", "postgres", "broker"} : Break(s) \/ Mend(s))
            \/ (\E c \in Clients : Poll(c)) \/ UNCHANGED dashVars
  BY <1>9, <1>12 DEF Tick, Break, Mend, Poll, dashVars, vars
<1> HIDE DEF Goal
<1> QED
  BY <1>2, <1>3, <1>4, <1>5, <1>6, <1>7, <1>8, <1>11, <1>12 DEF DashNext, Next, Goal
-----------------------------------------------------------------------------
(***************************************************************************)
(* Minutes and trainings.                                                  *)
(***************************************************************************)
\* The minutes a process has closed come before the one it is in.
MinuteOrder ==
    \A w \in Workers : LET p == worker[w] IN
        /\ \A i \in DOMAIN p.minutes : p.minutes[i] < p.bucket
        /\ \A i, j \in DOMAIN p.minutes : i < j => p.minutes[i] < p.minutes[j]

LEMMA CloseOrder ==
    ASSUME NEW p \in Processes, p.bucket < p.now,
           \A i \in DOMAIN p.minutes : p.minutes[i] < p.bucket,
           \A i, j \in DOMAIN p.minutes : i < j => p.minutes[i] < p.minutes[j]
    PROVE  /\ \A i \in DOMAIN Close(p).minutes : Close(p).minutes[i] < Close(p).bucket
           /\ \A i, j \in DOMAIN Close(p).minutes :
                i < j => Close(p).minutes[i] < Close(p).minutes[j]
<1> DEFINE m == p.minutes
           n == Append(m, p.bucket)
<1>1. p.bucket \in Int /\ p.now \in Int /\ m \in Seq(Int)
  BY DEF Processes
<1>2. /\ DOMAIN m = 1..Len(m) /\ DOMAIN n = 1..(Len(m) + 1) /\ Len(m) \in Nat
      /\ \A i \in 1..Len(m) : n[i] = m[i] /\ m[i] \in Int
      /\ n[Len(m) + 1] = p.bucket
  BY <1>1
<1>3. Close(p).minutes = n /\ Close(p).bucket = p.now
  BY CloseFacts
<1> HIDE DEF n
<1>4. \A i \in DOMAIN n : n[i] < p.now
  BY <1>1, <1>2
<1>5. ASSUME NEW i \in DOMAIN n, NEW j \in DOMAIN n, i < j PROVE n[i] < n[j]
  <2>1. i \in 1..Len(m) /\ n[i] = m[i]
    <3>1. i \in 1..(Len(m) + 1) /\ j \in 1..(Len(m) + 1)
      BY <1>2
    <3>2. i \in 1..Len(m)
      BY <1>2, <1>5, <3>1
    <3> QED
      BY <1>2, <3>2
  <2>2. CASE j = Len(m) + 1
    BY <1>2, <2>1, <2>2
  <2>3. CASE j \in 1..Len(m)
    <3>1. n[j] = m[j] /\ m[i] < m[j]
      BY <1>2, <1>5, <2>1, <2>3
    <3> QED
      BY <2>1, <3>1
  <2>4. j \in 1..(Len(m) + 1)
    BY <1>2
  <2>5. j = Len(m) + 1 \/ j \in 1..Len(m)
    BY <1>2, <2>4
  <2> QED
    BY <2>2, <2>3, <2>5
<1> QED
  BY <1>3, <1>4, <1>5

LEMMA MinuteOrderStep ==
    ASSUME MetricsInv, MinuteOrder, [DashNext]_dashVars
    PROVE  MinuteOrder'
<1> SUFFICES ASSUME NEW w \in Workers
             PROVE  /\ \A i \in DOMAIN worker'[w].minutes : worker'[w].minutes[i] < worker'[w].bucket
                    /\ \A i, j \in DOMAIN worker'[w].minutes :
                         i < j => worker'[w].minutes[i] < worker'[w].minutes[j]
  BY DEF MinuteOrder
<1> DEFINE p == worker[w]
           q == worker'[w]
<1>1. /\ \A i \in DOMAIN p.minutes : p.minutes[i] < p.bucket
      /\ \A i, j \in DOMAIN p.minutes : i < j => p.minutes[i] < p.minutes[j]
  BY DEF MinuteOrder
<1>2. CASE Keeps(p, q) \/ Learns(p, q)
  BY <1>1, <1>2 DEF Keeps, Learns
<1>3. CASE Closes(p, q)
  <2>1. p \in Processes /\ p.bucket < p.now
    BY <1>3 DEF Closes, MetricsInv, TypeOK, Sound
  <2> QED
    BY <1>1, <1>3, <2>1, CloseOrder DEF Closes
<1>4. CASE q \in {Started(clock), Dead(clock)}
  <2>1. clock \in Int
    BY DEF MetricsInv, TypeOK
  <2>2. q.minutes = <<>>
    BY <1>4, <2>1, StartedFacts
  <2> QED
    BY <2>2
<1> QED
  BY <1>2, <1>3, <1>4, StepShape DEF MetricsInv

(***************************************************************************)
(* A process closes each minute once and in order: its bucket is after     *)
(* every minute it has closed, and a minute is closed only when a batch    *)
(* has found a later one (pipeline.py:226-230).                            *)
(***************************************************************************)
THEOREM MinutesCloseOnceHolds == DashSpec => []MinutesCloseOnce
<1>1. DashInit => MinuteOrder
  <2> SUFFICES ASSUME DashInit, NEW w \in Workers PROVE worker[w].minutes = <<>>
    BY DEF MinuteOrder
  <2>1. 0 \in Int /\ Never \in Int
    BY DEF Never
  <2>2. worker[w] \in {Started(0), Dead(Never)}
    BY DEF DashInit, Init
  <2> QED
    BY <2>1, <2>2, StartedFacts
<1>2. MetricsInv /\ MinuteOrder /\ [DashNext]_dashVars => MinuteOrder'
  BY MinuteOrderStep
<1>3. MinuteOrder => MinutesCloseOnce
  BY DEF MinuteOrder, MinutesCloseOnce
<1> QED
  BY <1>1, <1>2, <1>3, MetricsInvHolds, PTL DEF DashSpec

\* A model is as many minutes old as the buffer's length is past the last
\* multiple of the period, or younger.
TrainingInv ==
    \A w \in Workers : LET p == worker[w] IN
        p.trained # Never => p.buffer >= MinBuffer /\ p.trained \in 0..(p.buffer % Retrain)

LEMMA NextModulo ==
    ASSUME NEW n \in Nat, NEW k \in Nat \ {0}
    PROVE  /\ n % k \in 0..(k - 1)
           /\ (n + 1) % k # 0 => (n + 1) % k = (n % k) + 1
  OBVIOUS

LEMMA TrainedFacts ==
    ASSUME BufferSize % Retrain = 0, NEW p \in Processes,
           p.trained # Never => p.buffer >= MinBuffer /\ p.trained \in 0..(p.buffer % Retrain)
    PROVE  Trained(p) # Never => /\ Buffered(p.buffer) >= MinBuffer
                                 /\ Trained(p) \in 0..(Buffered(p.buffer) % Retrain)
<1> DEFINE len == Buffered(p.buffer)
<1>1. p.buffer \in 0..BufferSize /\ p.trained \in Int /\ BufferSize \in Nat
      /\ MinBuffer \in Nat /\ Retrain \in Nat \ {0}
  BY MetricsAssumption DEF Processes
<1>2. len \in Nat /\ len >= p.buffer /\ (len = p.buffer + 1 \/ len = BufferSize)
  BY <1>1 DEF Buffered
<1>3. len % Retrain \in 0..(Retrain - 1)
  BY <1>1, <1>2, NextModulo
<1>4. len % Retrain # 0 => len % Retrain = (p.buffer % Retrain) + 1
  <2>1. p.buffer \in Nat
    BY <1>1
  <2>2. (p.buffer + 1) % Retrain # 0 => (p.buffer + 1) % Retrain = (p.buffer % Retrain) + 1
    BY <1>1, <2>1, NextModulo
  <2> HIDE DEF len
  <2> QED
    BY <1>2, <2>2
<1> HIDE DEF len
<1>5. CASE len < MinBuffer
  BY <1>1, <1>2, <1>5 DEF Trained, len
<1>6. CASE len >= MinBuffer /\ (p.trained = Never \/ len % Retrain = 0)
  BY <1>1, <1>2, <1>3, <1>6 DEF Trained, len
<1>7. CASE len >= MinBuffer /\ ~(p.trained = Never \/ len % Retrain = 0)
  <2>1. Trained(p) = p.trained + 1
    BY <1>1, <1>2, <1>7 DEF Trained, len
  <2> QED
    BY <1>1, <1>3, <1>4, <1>7, <2>1 DEF len
<1> QED
  BY <1>1, <1>2, <1>5, <1>6, <1>7

LEMMA TrainingStep ==
    ASSUME BufferSize % Retrain = 0, MetricsInv, TrainingInv, [DashNext]_dashVars
    PROVE  TrainingInv'
<1> SUFFICES ASSUME NEW w \in Workers
             PROVE  worker'[w].trained # Never =>
                      /\ worker'[w].buffer >= MinBuffer
                      /\ worker'[w].trained \in 0..(worker'[w].buffer % Retrain)
  BY DEF TrainingInv
<1> DEFINE p == worker[w]
           q == worker'[w]
<1>1. /\ p.trained # Never => p.buffer >= MinBuffer /\ p.trained \in 0..(p.buffer % Retrain)
      /\ p \in Processes /\ clock \in Int
  BY DEF TrainingInv, MetricsInv, TypeOK
<1>2. CASE Keeps(p, q)
  BY <1>1, <1>2 DEF Keeps
<1>3. CASE Learns(p, q)
  BY <1>1, <1>3, TrainedFacts DEF Learns
<1>4. CASE Closes(p, q)
  BY <1>1, <1>4, CloseFacts DEF Closes
<1>5. CASE q \in {Started(clock), Dead(clock)}
  BY <1>1, <1>5, StartedFacts
<1> QED
  BY <1>2, <1>3, <1>4, <1>5, StepShape DEF MetricsInv

(***************************************************************************)
(* Once trained, the model is never older than the period, if the period   *)
(* divides the length of the full buffer (as 30 does 720): the length then *)
(* stays at a multiple, and the model is trained with every minute         *)
(* (ml.py:71-75).                                                          *)
(***************************************************************************)
THEOREM ModelIsRecentHolds ==
    ASSUME BufferSize % Retrain = 0
    PROVE  DashSpec => []ModelIsRecent
<1>1. DashInit => TrainingInv
  <2> SUFFICES ASSUME DashInit, NEW w \in Workers PROVE worker[w].trained = Never
    BY DEF TrainingInv
  <2>1. 0 \in Int /\ Never \in Int
    BY DEF Never
  <2>2. worker[w] \in {Started(0), Dead(Never)}
    BY DEF DashInit, Init
  <2> QED
    BY <2>1, <2>2, StartedFacts
<1>2. MetricsInv /\ TrainingInv /\ [DashNext]_dashVars => TrainingInv'
  BY TrainingStep
<1>3. MetricsInv /\ TrainingInv => ModelIsRecent
  <2> SUFFICES ASSUME MetricsInv, TrainingInv, NEW w \in Workers PROVE worker[w].trained < Retrain
    BY DEF ModelIsRecent
  <2>1. worker[w].buffer \in Nat /\ Retrain \in Nat \ {0}
    BY MetricsAssumption DEF MetricsInv, TypeOK, Processes
  <2>2. worker[w].buffer % Retrain \in 0..(Retrain - 1)
    BY <2>1, NextModulo
  <2> QED
    BY <2>1, <2>2 DEF TrainingInv, Never
<1> QED
  BY <1>1, <1>2, <1>3, MetricsInvHolds, PTL DEF DashSpec
-----------------------------------------------------------------------------
(***************************************************************************)
(* The rate limiter.                                                       *)
(***************************************************************************)
InMinute(c, m) == {j \in DOMAIN granted[c] : Minute(granted[c][j]) = m}

HitsInv ==
    /\ hits \in [Clients -> [minute : Int, n : Nat]]
    /\ granted \in [Clients -> Seq(Nat)]

\* No request of a minute that is not the counter's is still to come, and the
\* counter counts at least those that went through.
ClientInv(c) ==
    /\ hits[c].minute <= Minute(clock)
    /\ \A j \in DOMAIN granted[c] : Minute(granted[c][j]) <= hits[c].minute
    /\ \A m \in Int : Cardinality(InMinute(c, m)) <= Limit
    /\ Cardinality(InMinute(c, hits[c].minute)) <= hits[c].n
RateInv == HitsInv /\ \A c \in Clients : ClientInv(c)

LEMMA InMinuteFacts ==
    ASSUME HitsInv, NEW c \in Clients, NEW m \in Int
    PROVE  IsFiniteSet(InMinute(c, m)) /\ Cardinality(InMinute(c, m)) \in Nat
<1>1. DOMAIN granted[c] = 1..Len(granted[c]) /\ Len(granted[c]) \in Nat
  BY DEF HitsInv
<1>2. IsFiniteSet(DOMAIN granted[c])
  BY <1>1, FS_Interval
<1>3. InMinute(c, m) \subseteq DOMAIN granted[c]
  BY DEF InMinute
<1> QED
  BY <1>2, <1>3, FS_Subset, FS_CardinalityType

\* A request let through joins those of the minute it comes in.
LEMMA GrantFacts ==
    ASSUME HitsInv, clock \in Nat, NEW c \in Clients, NEW m \in Int,
           granted'[c] = Append(granted[c], clock)
    PROVE  Cardinality(InMinute(c, m)') = IF m = Minute(clock) THEN Cardinality(InMinute(c, m)) + 1
                                          ELSE Cardinality(InMinute(c, m))
<1> DEFINE g == granted[c]
           h == granted'[c]
<1>1. g \in Seq(Nat)
  BY DEF HitsInv
<1>2. /\ DOMAIN g = 1..Len(g) /\ DOMAIN h = 1..(Len(g) + 1) /\ Len(g) \in Nat
      /\ \A i \in 1..Len(g) : h[i] = g[i]
      /\ h[Len(g) + 1] = clock
  BY <1>1
<1>3. InMinute(c, m)' = {j \in DOMAIN h : Minute(h[j]) = m}
  BY DEF InMinute, Minute
<1>4. InMinute(c, m) = {j \in DOMAIN g : Minute(g[j]) = m}
  BY DEF InMinute
<1> HIDE DEF g, h
<1>5. IsFiniteSet(InMinute(c, m)) /\ Cardinality(InMinute(c, m)) \in Nat
  BY InMinuteFacts
<1>6. CASE m = Minute(clock)
  <2>1. InMinute(c, m)' = InMinute(c, m) \cup {Len(g) + 1} /\ Len(g) + 1 \notin InMinute(c, m)
    BY <1>2, <1>3, <1>4, <1>6
  <2> QED
    BY <1>5, <1>6, <2>1, FS_AddElement
<1>7. CASE m # Minute(clock)
  <2>1. InMinute(c, m)' = InMinute(c, m)
    BY <1>2, <1>3, <1>4, <1>7
  <2> QED
    BY <1>7, <2>1
<1> QED
  BY <1>6, <1>7

LEMMA PollRate ==
    ASSUME MetricsInv, RateInv, NEW c \in Clients, Poll(c)
    PROVE  RateInv'
<1>1. /\ clock' = clock /\ clock \in Nat /\ Minute(clock) \in Int /\ Limit \in Nat
      /\ hits[c].n \in Nat /\ hits[c].minute \in Int /\ 1 \in Nat
  <2>1. clock' = clock /\ clock \in Nat /\ Limit \in Nat
    BY DashboardAssumption DEF Poll, MetricsInv, TypeOK
  <2>2. Minute(clock) \in Int
    BY <2>1, MinuteFacts
  <2>3. hits[c].n \in Nat /\ hits[c].minute \in Int
    BY DEF RateInv, HitsInv
  <2> QED
    BY <2>1, <2>2, <2>3
<1>2. CASE ~Works("redis")
  <2>1. hits' = hits /\ granted' = granted
    BY <1>2 DEF Poll
  <2> QED
    BY <1>1, <2>1 DEF RateInv, HitsInv, ClientInv, InMinute, Minute
<1>3. CASE Works("redis")
  <2>1. /\ hits' = [hits EXCEPT ![c] = Hit(c)]
        /\ granted' = IF Over(Hit(c)) THEN granted ELSE [granted EXCEPT ![c] = Append(@, clock)]
    BY <1>3 DEF Poll
  <2>2. Hit(c) \in [minute : Int, n : Nat] /\ Hit(c).minute = Minute(clock)
        /\ Hit(c).n = IF hits[c].minute = Minute(clock) THEN hits[c].n + 1 ELSE 1
    BY <1>1 DEF Hit
  <2>3. HitsInv'
    BY <1>1, <2>1, <2>2 DEF RateInv, HitsInv
  <2>4. ASSUME NEW d \in Clients, d # c PROVE ClientInv(d)'
    <3>1. hits'[d] = hits[d] /\ granted'[d] = granted[d]
      BY <2>1, <2>4 DEF RateInv, HitsInv
    <3> QED
      BY <1>1, <3>1 DEF RateInv, ClientInv, InMinute, Minute
  <2>5. ClientInv(c)
    BY DEF RateInv
  <2>6. \A j \in DOMAIN granted[c] : granted[c][j] \in Int
    BY DEF RateInv, HitsInv
  <2>7. \A j \in DOMAIN granted[c] : Minute(granted[c][j]) \in Int
    BY <2>6, MinuteFacts
  <2>8. ClientInv(c)'
    <3>1. hits'[c] = Hit(c) /\ hits[c].minute <= Minute(clock)
      BY <2>1, <2>5 DEF RateInv, HitsInv, ClientInv
    <3>2. Minute(clock)' = Minute(clock)
      BY <1>1 DEF Minute
    <3>3. Cardinality(InMinute(c, Minute(clock))) < Hit(c).n
          /\ Cardinality(InMinute(c, Minute(clock))) \in Nat
      <4>1. CASE hits[c].minute = Minute(clock)
        <5>1. Cardinality(InMinute(c, Minute(clock))) \in Nat
          BY <1>1, InMinuteFacts DEF RateInv
        <5> QED
          BY <1>1, <2>2, <2>5, <4>1, <5>1 DEF ClientInv
      <4>2. CASE hits[c].minute # Minute(clock)
        <5>1. \A j \in DOMAIN granted[c] : Minute(granted[c][j]) # Minute(clock)
          <6>1. \A j \in DOMAIN granted[c] : Minute(granted[c][j]) <= hits[c].minute
            BY <2>5 DEF ClientInv
          <6> QED
            BY <1>1, <2>7, <3>1, <4>2, <6>1
        <5>2. InMinute(c, Minute(clock)) = {}
          BY <5>1 DEF InMinute
        <5> QED
          BY <2>2, <4>2, <5>2, FS_EmptySet
      <4> QED
        BY <4>1, <4>2
    <3>4. CASE Over(Hit(c))
      <4>1. granted'[c] = granted[c]
        BY <2>1, <3>4
      <4>2. \A m \in Int : InMinute(c, m)' = InMinute(c, m)
        BY <1>1, <4>1 DEF InMinute, Minute
      <4>3. \A j \in DOMAIN granted[c] : Minute(granted[c][j]) <= Minute(clock)
        <5>1. \A j \in DOMAIN granted[c] : Minute(granted[c][j]) <= hits[c].minute
          BY <2>5 DEF ClientInv
        <5> QED
          BY <1>1, <2>7, <3>1, <5>1
      <4>4. \A j \in DOMAIN granted'[c] : Minute(granted'[c][j]) <= Minute(clock)
        BY <4>1, <4>3
      <4>5. \A m \in Int : Cardinality(InMinute(c, m)') <= Limit
        BY <2>5, <4>2 DEF ClientInv
      <4>6. \A m \in Int : m = Minute(clock) => Cardinality(InMinute(c, m)') <= Hit(c).n
        BY <1>1, <2>2, <3>3, <4>2
      <4> QED
        BY <1>1, <2>2, <3>1, <3>2, <4>4, <4>5, <4>6 DEF ClientInv, InMinute, Minute
    <3>5. CASE ~Over(Hit(c))
      <4>1. granted'[c] = Append(granted[c], clock) /\ Hit(c).n <= Limit
        BY <1>1, <2>1, <2>2, <3>5 DEF RateInv, HitsInv, Over
      <4>2. \A j \in DOMAIN granted'[c] : Minute(granted'[c][j]) <= Minute(clock)
        <5>1. \A j \in DOMAIN granted[c] : Minute(granted[c][j]) <= hits[c].minute
          BY <2>5 DEF ClientInv
        <5>2. \A j \in DOMAIN granted[c] : Minute(granted[c][j]) <= Minute(clock)
          BY <1>1, <2>7, <3>1, <5>1
        <5>3. granted[c] \in Seq(Nat)
          BY DEF RateInv, HitsInv
        <5>4. \A j \in DOMAIN granted'[c] :
                \/ j \in DOMAIN granted[c] /\ granted'[c][j] = granted[c][j]
                \/ granted'[c][j] = clock
          BY <4>1, <5>3
        <5> QED
          BY <1>1, <5>2, <5>4
      <4>3. ASSUME NEW m \in Int
            PROVE  /\ Cardinality(InMinute(c, m)') <= Limit
                   /\ m = Minute(clock) => Cardinality(InMinute(c, m)') <= Hit(c).n
        <5>1. Cardinality(InMinute(c, m)') = IF m = Minute(clock) THEN Cardinality(InMinute(c, m)) + 1
                                             ELSE Cardinality(InMinute(c, m))
          BY <1>1, <4>1, GrantFacts DEF RateInv
        <5>2. CASE m = Minute(clock)
          BY <1>1, <2>2, <3>3, <4>1, <5>1, <5>2
        <5>3. CASE m # Minute(clock)
          BY <2>5, <5>1, <5>3 DEF ClientInv
        <5> QED
          BY <5>2, <5>3
      <4> QED
        BY <1>1, <2>2, <3>1, <3>2, <4>2, <4>3 DEF ClientInv, InMinute, Minute
    <3> QED
      BY <3>4, <3>5
  <2> QED
    BY <2>3, <2>4, <2>8 DEF RateInv
<1> QED
  BY <1>2, <1>3

LEMMA ClockStep == ASSUME [DashNext]_dashVars PROVE clock' \in {clock, clock + 1}
<1>1. CASE Tick \/ \E c \in Clients : Poll(c)
  BY <1>1 DEF Tick, Poll
<1>2. ASSUME NEW s, Break(s) \/ Mend(s) PROVE clock' = clock
  BY <1>2 DEF Break, Mend
<1>3. ASSUME NEW w, NEW b, Batch(w, b) PROVE clock' = clock
  BY <1>3 DEF Batch
<1>4. ASSUME NEW w, Beat(w) \/ Measure(w) \/ ExpireLag(w) PROVE clock' = clock
  BY <1>4 DEF Beat, Measure, ExpireLag
<1>5. ASSUME NEW w, Show(w) \/ ExpireRolling(w) \/ Record(w) PROVE clock' = clock
  BY <1>5 DEF Show, ExpireRolling, Record
<1>6. ASSUME NEW w, Flush(w) \/ Observe(w) \/ Learn(w) \/ Alert(w) PROVE clock' = clock
  BY <1>6 DEF Flush, Observe, Learn, Alert
<1>7. ASSUME NEW w, Fail(w) \/ Die(w) \/ Start(w) PROVE clock' = clock
  BY <1>7 DEF Fail, Die, Start
<1>8. CASE UNCHANGED dashVars
  BY <1>8 DEF dashVars, vars
<1>9. CASE Next
  BY <1>1, <1>2, <1>3, <1>4, <1>5, <1>6, <1>7, <1>9 DEF Next
<1> QED
  BY <1>1, <1>8, <1>9 DEF DashNext

LEMMA RateStep ==
    ASSUME MetricsInv, RateInv, [DashNext]_dashVars
    PROVE  RateInv'
<1>1. CASE \E c \in Clients : Poll(c)
  BY <1>1, PollRate
<1>2. CASE UNCHANGED <<hits, granted>>
  <2>1. clock \in Nat /\ clock' \in {clock, clock + 1}
    BY ClockStep DEF MetricsInv, TypeOK
  <2>2. /\ Minute(clock) \in Int /\ Minute(clock') \in Int /\ Minute(clock) <= Minute(clock')
    BY <2>1, MinuteFacts
  <2>3. ASSUME NEW c \in Clients PROVE hits[c].minute \in Int
    BY DEF RateInv, HitsInv
  <2>4. ASSUME NEW c \in Clients PROVE ClientInv(c)'
    <3>1. hits'[c].minute <= Minute(clock')
      BY <1>2, <2>2, <2>3 DEF RateInv, ClientInv
    <3> QED
      BY <1>2, <3>1 DEF RateInv, ClientInv, InMinute, Minute
  <2> QED
    BY <1>2, <2>4 DEF RateInv, HitsInv
<1> QED
  BY <1>1, <1>2 DEF DashNext, dashVars

\* A span of a minute lies in two minutes of the clock.
LEMMA SpanFacts ==
    ASSUME NEW s \in Nat, NEW t \in Nat, t \in s..(s + MinuteTicks - 1)
    PROVE  Minute(t) \in {Minute(s), Minute(s) + 1}
<1>1. ASSUME NEW k \in Nat \ {0}, t \in s..(s + k - 1)
      PROVE  t \div k \in {s \div k, s \div k + 1}
  BY <1>1
<1> QED
  BY <1>1, MetricsAssumption DEF Minute

LEMMA RateInvLimits == RateInv => RateIsLimited
<1> SUFFICES ASSUME RateInv, NEW c \in Clients, NEW i \in DOMAIN granted[c]
             PROVE  LET g == granted[c] IN
                    /\ Cardinality({j \in DOMAIN g : Minute(g[j]) = Minute(g[i])}) <= Limit
                    /\ Cardinality({j \in DOMAIN g :
                         g[j] \in g[i]..(g[i] + MinuteTicks - 1)}) <= 2 * Limit
  BY DEF RateIsLimited
<1> DEFINE g == granted[c]
           m == Minute(g[i])
           span == {j \in DOMAIN g : g[j] \in g[i]..(g[i] + MinuteTicks - 1)}
           two == InMinute(c, m) \cup InMinute(c, m + 1)
<1>1. \A j \in DOMAIN g : g[j] \in Nat
  BY DEF RateInv, HitsInv
<1>2. m \in Int /\ m + 1 \in Int /\ Limit \in Nat
  BY <1>1, MinuteFacts, DashboardAssumption
<1>3. /\ IsFiniteSet(InMinute(c, m)) /\ IsFiniteSet(InMinute(c, m + 1))
      /\ Cardinality(InMinute(c, m)) \in Nat /\ Cardinality(InMinute(c, m + 1)) \in Nat
      /\ Cardinality(InMinute(c, m)) <= Limit /\ Cardinality(InMinute(c, m + 1)) <= Limit
  BY <1>2, InMinuteFacts DEF RateInv, ClientInv
<1>4. span \subseteq two
  <2> SUFFICES ASSUME NEW j \in span PROVE Minute(g[j]) \in {m, m + 1}
    BY DEF InMinute
  <2> QED
    BY <1>1, SpanFacts
<1>5. IsFiniteSet(two) /\ Cardinality(two) <= 2 * Limit
  <2>1. /\ IsFiniteSet(two) /\ IsFiniteSet(InMinute(c, m) \cap InMinute(c, m + 1))
        /\ Cardinality(two) = Cardinality(InMinute(c, m)) + Cardinality(InMinute(c, m + 1))
             - Cardinality(InMinute(c, m) \cap InMinute(c, m + 1))
    BY <1>3, FS_Union, FS_Intersection
  <2>2. Cardinality(InMinute(c, m) \cap InMinute(c, m + 1)) \in Nat
    BY <2>1, FS_CardinalityType
  <2> QED
    BY <1>2, <1>3, <2>1, <2>2
<1>6. Cardinality(span) <= Cardinality(two) /\ Cardinality(span) \in Nat /\ Cardinality(two) \in Nat
  BY <1>4, <1>5, FS_Subset, FS_CardinalityType
<1>7. Cardinality({j \in DOMAIN g : Minute(g[j]) = m}) <= Limit
  BY <1>3 DEF InMinute
<1> HIDE DEF two, span
<1>8. Cardinality(span) <= 2 * Limit
  BY <1>2, <1>5, <1>6
<1> QED
  BY <1>7, <1>8 DEF span

(***************************************************************************)
(* No client gets more than the limit through in a minute of the clock,    *)
(* nor twice the limit in any span as long as a minute                     *)
(* (security.py:55-79): the counter of the minute counts at least the      *)
(* requests that went through, and none of a later minute has.             *)
(***************************************************************************)
THEOREM RateIsLimitedHolds == DashSpec => []RateIsLimited
<1>1. DashInit => RateInv
  <2> SUFFICES ASSUME DashInit PROVE RateInv
    OBVIOUS
  <2>1. Minute(clock) = 0 /\ Limit \in Nat
    <3>1. ASSUME NEW k \in Nat \ {0} PROVE 0 \div k = 0
      OBVIOUS
    <3>2. clock = 0 /\ MinuteTicks \in Nat \ {0} /\ Limit \in Nat
      BY MetricsAssumption, DashboardAssumption DEF DashInit, Init
    <3> QED
      BY <3>1, <3>2 DEF Minute
  <2>2. HitsInv /\ \A c \in Clients, m \in Int : InMinute(c, m) = {}
    BY DEF DashInit, HitsInv, InMinute
  <2>3. ASSUME NEW c \in Clients PROVE ClientInv(c)
    <3>1. hits[c].minute = 0 /\ hits[c].n = 0 /\ DOMAIN granted[c] = {}
      BY DEF DashInit
    <3>2. \A m \in Int : Cardinality(InMinute(c, m)) = 0
      BY <2>2, FS_EmptySet
    <3> QED
      BY <2>1, <3>1, <3>2 DEF ClientInv
  <2> QED
    BY <2>2, <2>3 DEF RateInv
<1>2. MetricsInv /\ RateInv /\ [DashNext]_dashVars => RateInv'
  BY RateStep
<1> QED
  BY <1>1, <1>2, RateInvLimits, MetricsInvHolds, PTL DEF DashSpec
-----------------------------------------------------------------------------
(***************************************************************************)
(* The heartbeat.                                                          *)
(***************************************************************************)
\* A worker's next round is due one wait after a round that wrote the
\* heartbeat, unless the worker has just started or something was out of order
\* then; the clock does not pass it while nothing is, nor goes on during a round.
RoundInv ==
    \A w \in Up : LET p == worker[w] IN
        /\ p.since <= clock /\ p.due <= clock + BeatTicks
        /\ out = {} => clock <= p.due \/ clock <= calm
        /\ \/ p.due = p.since \/ out # {}
           \/ beat >= p.due - BeatTicks \/ calm >= p.due - BeatTicks
        /\ p.round # "wait" =>
             p.due <= clock /\ (out # {} \/ beat >= clock \/ calm >= clock)

\* A step of a worker's batches leaves its refresher alone.
LEMMA DueFacts ==
    ASSUME TypeOK, left \in Purses, NEW v \in Workers, NEW w \in Workers,
           \/ \E b \in left.kinds : Batch(w, b)
           \/ Show(w) \/ ExpireRolling(w) \/ Record(w) \/ Flush(w) \/ Observe(w)
           \/ Learn(w) \/ Alert(w) \/ Fail(w)
    PROVE  /\ UNCHANGED <<clock, beat, lag, out, calm>>
           /\ worker'[v].since = worker[v].since /\ worker'[v].due = worker[v].due
           /\ worker'[v].round = worker[v].round
           /\ v \in Up' <=> v \in Up
           /\ w \in Up /\ (v # w => worker'[v] = worker[v])
           /\ "lag" \in torn' <=> "lag" \in torn
<1>1. UNCHANGED <<clock, beat, lag, out, calm>> /\ ("lag" \in torn' <=> "lag" \in torn)
  BY DEF Batch, Show, ExpireRolling, Record, Flush, Observe, Learn, Alert, Fail, redis, history
<1>2. worker[w] \in Processes /\ worker \in [Workers -> Processes]
  BY DEF TypeOK
<1>3. v # w => worker'[v] = worker[v]
  BY <1>2 DEF Batch, Show, ExpireRolling, Record, Flush, Observe, Learn, Alert, Fail
<1>4. worker[w].pc # "down"
  BY DEF Batch, Show, ExpireRolling, Record, Flush, Observe, Learn, Alert, Fail
<1>5. SUFFICES /\ worker'[w].since = worker[w].since /\ worker'[w].due = worker[w].due
               /\ worker'[w].round = worker[w].round /\ worker'[w].pc # "down"
  BY <1>1, <1>3, <1>4 DEF Up
<1>6. CASE \E b \in left.kinds : Batch(w, b)
  <2>1. PICK b \in left.kinds : Batch(w, b)
    BY <1>6
  <2> DEFINE x == [worker[w] EXCEPT !.win = @ + (b.fresh + b.seen + b.invalid)]
             y == [x EXCEPT !.n = @ + b.fresh, !.now = Minute(clock)]
  <2>2. worker'[w] \in {x, AfterCount(y)}
    BY <1>2, <2>1 DEF Batch
  <2>3. /\ x.since = worker[w].since /\ x.due = worker[w].due /\ x.pc = worker[w].pc
        /\ y.since = worker[w].since /\ y.due = worker[w].due /\ y.pc = worker[w].pc
        /\ x.round = worker[w].round /\ y.round = worker[w].round
        /\ DOMAIN y = DOMAIN worker[w]
    BY <1>2 DEF Processes
  <2> HIDE DEF y
  <2>4. /\ AfterCount(y).since = y.since /\ AfterCount(y).due = y.due
        /\ AfterCount(y).round = y.round /\ AfterCount(y).pc # "down"
    BY <1>2, <1>4, <2>3 DEF AfterCount, AfterWindow, Processes
  <2> HIDE DEF x
  <2> QED
    BY <1>4, <2>2, <2>3, <2>4
<1>7. CASE Show(w)
  BY <1>2, <1>7 DEF Show, Processes
<1>8. CASE ExpireRolling(w)
  BY <1>2, <1>8 DEF ExpireRolling, Processes
<1>9. CASE Record(w)
  BY <1>2, <1>9 DEF Record, NewWindow, AfterWindow, Processes
<1>10. CASE Flush(w)
  BY <1>2, <1>10 DEF Flush, Processes
<1>11. CASE Observe(w)
  BY <1>2, <1>11 DEF Observe, Processes
<1>12. CASE Learn(w)
  BY <1>2, <1>12 DEF Learn, Processes
<1>13. CASE Alert(w)
  BY <1>2, <1>13, CloseFacts DEF Alert
<1>14. CASE Fail(w)
  BY <1>2, <1>14 DEF Fail, Processes
<1> QED
  BY <1>6, <1>7, <1>8, <1>9, <1>10, <1>11, <1>12, <1>13, <1>14

\* A step of a worker's refresher leaves its batches alone.
LEMMA RefreshFacts ==
    ASSUME TypeOK, NEW v \in Workers, NEW w \in Workers, Beat(w) \/ Measure(w) \/ ExpireLag(w)
    PROVE  /\ UNCHANGED <<clock, rolling, out, calm>> /\ beat' \in {beat, clock}
           /\ worker'[v].since = worker[v].since /\ worker'[v].pc = worker[v].pc
           /\ v \in Up' <=> v \in Up
           /\ w \in Up /\ (v # w => worker'[v] = worker[v])
           /\ "rolling" \in torn' <=> "rolling" \in torn
           /\ \/ worker'[w].round # "wait" /\ worker'[w].due = worker[w].due
              \/ worker'[w].round = "wait" /\ worker'[w].due = clock + BeatTicks
<1>1. UNCHANGED <<clock, rolling, out, calm>> /\ beat' \in {beat, clock}
      /\ ("rolling" \in torn' <=> "rolling" \in torn)
  BY DEF Beat, Measure, ExpireLag, history
<1>2. worker[w] \in Processes /\ worker \in [Workers -> Processes] /\ Sound(worker[w], clock)
  BY DEF TypeOK
<1>3. w \in Up
  BY <1>2 DEF Beat, Measure, ExpireLag, Up, Sound
<1>4. v # w => worker'[v] = worker[v]
  BY <1>2 DEF Beat, Measure, ExpireLag, Rest
<1>5. /\ worker'[w].since = worker[w].since /\ worker'[w].pc = worker[w].pc
      /\ \/ worker'[w].round # "wait" /\ worker'[w].due = worker[w].due
         \/ worker'[w].round = "wait" /\ worker'[w].due = clock + BeatTicks
  <2>1. CASE Rest(w)
    BY <1>2, <2>1 DEF Rest, Wait, Processes
  <2>2. CASE \E r \in {"lag", "expire"} : worker' = [worker EXCEPT ![w].round = r]
    <3>1. PICK r \in {"lag", "expire"} : worker' = [worker EXCEPT ![w].round = r]
      BY <2>2
    <3>2. worker'[w] = [worker[w] EXCEPT !.round = r]
      BY <1>2, <3>1
    <3>3. /\ worker'[w].since = worker[w].since /\ worker'[w].pc = worker[w].pc
          /\ worker'[w].round = r /\ worker'[w].due = worker[w].due
      BY <1>2, <3>2 DEF Processes
    <3> QED
      BY <3>3
  <2> QED
    BY <2>1, <2>2 DEF Beat, Measure, ExpireLag
<1> QED
  BY <1>1, <1>3, <1>4, <1>5 DEF Up

LEMMA RoundStep ==
    ASSUME MetricsInv, RoundInv, [DashNext]_dashVars
    PROVE  RoundInv'
<1>1. /\ clock \in Nat /\ calm \in Int /\ calm <= clock /\ beat \in Int /\ beat <= clock
      /\ BeatTicks \in Nat \ {0}
      /\ \A w \in Workers : worker[w].due \in Int /\ worker[w].since \in Int
  BY MetricsAssumption DEF MetricsInv, TypeOK, Processes
<1>2. CASE Tick
  <2>1. /\ clock' = clock + 1 /\ UNCHANGED <<worker, redis, out, calm>>
        /\ out # {} \/ \A w \in Up : worker[w].due > clock
    BY <1>2 DEF Tick
  <2> QED
    BY <1>1, <2>1 DEF RoundInv, Up, redis
<1>3. CASE \E s \in {"redis", "postgres", "broker"} : Break(s)
  <2>1. /\ UNCHANGED <<clock, worker, redis, calm>> /\ out' # {}
    BY <1>3 DEF Break
  <2> QED
    BY <1>1, <2>1 DEF RoundInv, Up, redis
<1>4. CASE \E s \in {"redis", "postgres", "broker"} : Mend(s)
  <2>1. /\ UNCHANGED <<clock, worker, redis>> /\ calm' = clock
    BY <1>4 DEF Mend
  <2> QED
    BY <1>1, <2>1 DEF RoundInv, Up, redis
<1>5. ASSUME NEW w \in Workers, Beat(w) \/ Measure(w) \/ ExpireLag(w) PROVE RoundInv'
  <2>1. /\ UNCHANGED <<clock, out, calm>> /\ beat' \in {beat, clock} /\ w \in Up
        /\ \/ worker'[w].round # "wait" /\ worker'[w].due = worker[w].due
           \/ worker'[w].round = "wait" /\ worker'[w].due = clock + BeatTicks
        /\ worker'[w].since = worker[w].since
    BY <1>5, RefreshFacts DEF MetricsInv
  <2>2. beat' >= beat /\ beat' \in Int
    BY <1>1, <2>1
  <2>3. worker[w].due <= clock /\ (out # {} \/ beat' >= clock \/ calm >= clock)
    <3>1. CASE Beat(w)
      BY <1>1, <3>1 DEF Beat, Works
    <3>2. CASE Measure(w) \/ ExpireLag(w)
      <4>1. worker[w].round # "wait" /\ beat' = beat
        BY <3>2 DEF Measure, ExpireLag
      <4> QED
        BY <2>1, <4>1 DEF RoundInv
    <3> QED
      BY <1>5, <3>1, <3>2
  <2>4. ASSUME NEW v \in Up', v = w
        PROVE  LET p == worker'[v] IN
               /\ p.since <= clock' /\ p.due <= clock' + BeatTicks
               /\ out' = {} => clock' <= p.due \/ clock' <= calm'
               /\ \/ p.due = p.since \/ out' # {}
                  \/ beat' >= p.due - BeatTicks \/ calm' >= p.due - BeatTicks
               /\ p.round # "wait" =>
                    p.due <= clock' /\ (out' # {} \/ beat' >= clock' \/ calm' >= clock')
    <3>1. /\ worker[w].since <= clock /\ worker[w].due <= clock + BeatTicks
          /\ out = {} => clock <= worker[w].due \/ clock <= calm
          /\ \/ worker[w].due = worker[w].since \/ out # {}
             \/ beat >= worker[w].due - BeatTicks \/ calm >= worker[w].due - BeatTicks
      BY <2>1 DEF RoundInv
    <3> QED
      BY <1>1, <2>1, <2>2, <2>3, <2>4, <3>1
  <2>5. ASSUME NEW v \in Up', v # w
        PROVE  LET p == worker'[v] IN
               /\ p.since <= clock' /\ p.due <= clock' + BeatTicks
               /\ out' = {} => clock' <= p.due \/ clock' <= calm'
               /\ \/ p.due = p.since \/ out' # {}
                  \/ beat' >= p.due - BeatTicks \/ calm' >= p.due - BeatTicks
               /\ p.round # "wait" =>
                    p.due <= clock' /\ (out' # {} \/ beat' >= clock' \/ calm' >= clock')
    <3>1. v \in Workers
      BY DEF Up
    <3>2. worker'[v] = worker[v] /\ v \in Up
      BY <1>5, <2>5, <3>1, RefreshFacts DEF MetricsInv
    <3> QED
      BY <1>1, <2>1, <2>2, <3>1, <3>2 DEF RoundInv
  <2> QED
    BY <2>4, <2>5 DEF RoundInv
<1>6. ASSUME NEW w \in Workers, Die(w) \/ Start(w) PROVE RoundInv'
  <2>1. UNCHANGED <<clock, beat, out, calm>> /\ worker' = [worker EXCEPT ![w] = worker'[w]]
        /\ worker'[w] \in {Dead(clock), Started(clock)}
    BY <1>6 DEF Die, Start, redis, MetricsInv, TypeOK
  <2>2. w \in Up' => worker'[w].since = clock /\ worker'[w].due = clock
                      /\ worker'[w].round = "wait"
    BY <1>1, <2>1, StartedFacts DEF Up
  <2>3. ASSUME NEW v \in Workers, v # w PROVE worker'[v] = worker[v]
    BY <2>1, <2>3 DEF MetricsInv, TypeOK
  <2> QED
    BY <1>1, <2>1, <2>2, <2>3 DEF RoundInv, Up
<1>7. ASSUME NEW w \in Workers,
             \/ \E b \in left.kinds : Batch(w, b)
             \/ Show(w) \/ ExpireRolling(w) \/ Record(w) \/ Flush(w) \/ Observe(w)
             \/ Learn(w) \/ Alert(w) \/ Fail(w)
      PROVE  RoundInv'
  <2>1. UNCHANGED <<clock, beat, out, calm>>
    BY <1>7, DueFacts DEF MetricsInv
  <2>2. ASSUME NEW v \in Workers
        PROVE  /\ worker'[v].since = worker[v].since /\ worker'[v].due = worker[v].due
               /\ worker'[v].round = worker[v].round
               /\ v \in Up' <=> v \in Up
    BY <1>7, DueFacts DEF MetricsInv
  <2> QED
    BY <2>1, <2>2 DEF RoundInv, Up
<1>8. CASE (\E c \in Clients : Poll(c)) \/ UNCHANGED dashVars
  BY <1>8 DEF Poll, dashVars, vars, redis, RoundInv, Up
<1> QED
  BY <1>2, <1>3, <1>4, <1>5, <1>6, <1>7, <1>8 DEF DashNext, Next

(***************************************************************************)
(* From one wait after the last outage on, the page calls the system       *)
(* healthy while a worker lives, if a heartbeat is believed for longer     *)
(* than the refresher waits (20 s and 10 s: metrics_service.py:41,         *)
(* worker.py:36, 46).                                                      *)
(***************************************************************************)
THEOREM LiveIsHealthyHolds ==
    ASSUME BeatTicks < BeatFresh
    PROVE  DashSpec => []LiveIsHealthy
<1>1. DashInit => RoundInv
  <2>0. SUFFICES ASSUME DashInit PROVE RoundInv
    OBVIOUS
  <2>1. 0 \in Int /\ Never \in Int
    BY DEF Never
  <2>2. clock = 0 /\ out = {} /\ BeatTicks \in Nat
    BY <2>0, MetricsAssumption DEF DashInit, Init
  <2>3. ASSUME NEW w \in Up PROVE worker[w].since = 0 /\ worker[w].due = 0 /\ worker[w].round = "wait"
    <3>1. worker[w] \in {Started(0), Dead(Never)} /\ worker[w].pc # "down"
      BY <2>0 DEF DashInit, Init, Up
    <3> QED
      BY <2>1, <3>1, StartedFacts
  <2> QED
    BY <2>2, <2>3 DEF RoundInv
<1>2. MetricsInv /\ RoundInv /\ [DashNext]_dashVars => RoundInv'
  BY RoundStep
<1>3. MetricsInv /\ RoundInv => LiveIsHealthy
  <2> SUFFICES ASSUME MetricsInv, RoundInv, out = {}, clock > calm + BeatTicks,
                      NEW w \in Up, clock > worker[w].since
               PROVE  WorkerFresh
    BY DEF LiveIsHealthy, SystemStatus, Works
  <2>1. /\ clock \in Nat /\ calm \in Int /\ beat \in Int /\ BeatTicks \in Nat \ {0} /\ BeatFresh \in Nat
        /\ worker[w].due \in Int /\ worker[w].since \in Int
    BY MetricsAssumption, DashboardAssumption DEF MetricsInv, TypeOK, Processes, Up
  <2>2. clock <= worker[w].due
    BY <2>1 DEF RoundInv
  <2>3. beat >= worker[w].due - BeatTicks
    BY <2>1, <2>2 DEF RoundInv
  <2> QED
    BY <2>1, <2>2, <2>3 DEF WorkerFresh
<1> QED
  BY <1>1, <1>2, <1>3, MetricsInvHolds, PTL DEF DashSpec

\* Whoever wrote the last heartbeat lives, or died later than it.
LastBeatInv == \E w \in Workers : w \in Up \/ beat <= worker[w].since

LEMMA LastBeatStep ==
    ASSUME MetricsInv, LastBeatInv, [DashNext]_dashVars
    PROVE  LastBeatInv'
<1>1. clock \in Nat /\ beat \in Int /\ beat <= clock
  BY DEF MetricsInv, TypeOK
<1>2. ASSUME NEW w \in Workers, Beat(w) \/ Measure(w) \/ ExpireLag(w) PROVE LastBeatInv'
  <2>1. w \in Up'
    BY <1>2, RefreshFacts DEF MetricsInv
  <2> QED
    BY <2>1 DEF LastBeatInv
<1>3. ASSUME NEW w \in Workers, Die(w) \/ Start(w) PROVE LastBeatInv'
  <2>1. beat' = beat /\ worker'[w] \in {Dead(clock), Started(clock)}
    BY <1>3 DEF Die, Start, redis, MetricsInv, TypeOK
  <2>2. worker'[w].since = clock
    BY <1>1, <2>1, StartedFacts
  <2> QED
    BY <1>1, <2>1, <2>2 DEF LastBeatInv
<1>4. ASSUME NEW w \in Workers,
             \/ \E b \in left.kinds : Batch(w, b)
             \/ Show(w) \/ ExpireRolling(w) \/ Record(w) \/ Flush(w) \/ Observe(w)
             \/ Learn(w) \/ Alert(w) \/ Fail(w)
      PROVE  LastBeatInv'
  <2>1. PICK v \in Workers : v \in Up \/ beat <= worker[v].since
    BY DEF LastBeatInv
  <2>2. beat' = beat /\ worker'[v].since = worker[v].since /\ (v \in Up' <=> v \in Up)
    BY <1>4, DueFacts DEF MetricsInv
  <2> QED
    BY <2>1, <2>2 DEF LastBeatInv
<1>5. CASE \/ Tick \/ (\E s \in {"redis", "postgres", "broker"} : Break(s) \/ Mend(s))
           \/ (\E c \in Clients : Poll(c)) \/ UNCHANGED dashVars
  BY <1>5 DEF Tick, Break, Mend, Poll, dashVars, vars, redis, LastBeatInv, Up
<1> QED
  BY <1>2, <1>3, <1>4, <1>5 DEF DashNext, Next

\* The workers between the HSET of a hash and its EXPIRE.
Rolling == {w \in Workers : worker[w].pc = "expire"}
Lagging == {w \in Workers : worker[w].round = "expire"}

\* A hash that stays for ever was torn, or is about to get its expiry; one that
\* expires does so soon enough after the last worker's death.
KeyInv(key, name, ttl, busy) ==
    IF key.until = Forever THEN name \in torn \/ busy # {}
    ELSE /\ key.until <= clock + ttl
         /\ \E w \in Workers : w \in Up \/ key.until <= worker[w].since + ttl
RollingInv == KeyInv(rolling, "rolling", RollTtl, Rolling)
LagInv == KeyInv(lag, "lag", LagTtl, Lagging)

\* A step that leaves the hash and who lives alone.
LEMMA KeySame ==
    ASSUME NEW key, NEW name, NEW ttl \in Nat, NEW busy, NEW after, KeyInv(key, name, ttl, busy),
           key.until \in Int, clock \in Nat, clock' \in {clock, clock + 1},
           \A v \in Workers : worker'[v].since = worker[v].since /\ (v \in Up' <=> v \in Up),
           name \in torn => name \in torn', busy # {} => name \in torn' \/ after # {}
    PROVE  IF key.until = Forever THEN name \in torn' \/ after # {}
           ELSE /\ key.until <= clock' + ttl
                /\ \E w \in Workers : w \in Up' \/ key.until <= worker'[w].since + ttl
<1>1. CASE key.until = Forever
  BY <1>1 DEF KeyInv
<1>2. CASE key.until # Forever
  <2>1. key.until <= clock + ttl
    BY <1>2 DEF KeyInv
  <2>2. key.until <= clock' + ttl
    BY <2>1
  <2>3. \E w \in Workers : w \in Up' \/ key.until <= worker'[w].since + ttl
    BY <1>2 DEF KeyInv
  <2> QED
    BY <1>2, <2>2, <2>3
<1> QED
  BY <1>1, <1>2

\* The HSET and the EXPIRE of a worker that lives.
LEMMA KeyWritten ==
    ASSUME NEW key, NEW name, NEW ttl \in Nat, NEW busy, KeyInv(key, name, ttl, busy),
           key.until \in Int, clock \in Nat, NEW w \in Up,
           NEW until \in {UntilAfterHset(key), UntilAfterExpire(key, ttl)}
    PROVE  /\ until # Forever => until <= clock + ttl
           /\ until = UntilAfterExpire(key, ttl) => until # Forever
<1>1. Forever \in Int /\ Forever < 0
  BY DEF Forever
<1>2. clock + ttl # Forever
  BY <1>1
<1>3. key.until # Forever => key.until <= clock + ttl
  BY DEF KeyInv
<1> QED
  BY <1>1, <1>2, <1>3 DEF UntilAfterHset, UntilAfterExpire, Present

LEMMA RollingStep ==
    ASSUME MetricsInv, RollingInv, [DashNext]_dashVars
    PROVE  RollingInv'
<1>1. /\ TypeOK /\ clock \in Nat /\ rolling.until \in Int /\ RollTtl \in Nat
      /\ worker \in [Workers -> Processes] /\ left \in Purses
      /\ KeyInv(rolling, "rolling", RollTtl, Rolling)
  BY MetricsAssumption DEF MetricsInv, TypeOK, RollingInv
<1>2. ASSUME rolling' = rolling, clock' \in {clock, clock + 1},
             \A v \in Workers : worker'[v].since = worker[v].since /\ (v \in Up' <=> v \in Up),
             "rolling" \in torn => "rolling" \in torn',
             Rolling # {} => "rolling" \in torn' \/ Rolling' # {} \/ rolling.until # Forever
      PROVE  RollingInv'
  BY <1>1, <1>2, KeySame DEF RollingInv, KeyInv
<1>3. ASSUME NEW w \in Workers, Beat(w) \/ Measure(w) \/ ExpireLag(w) PROVE RollingInv'
  <2>1. /\ rolling' = rolling /\ clock' = clock /\ ("rolling" \in torn' <=> "rolling" \in torn)
        /\ \A v \in Workers : /\ worker'[v].since = worker[v].since
                              /\ v \in Up' <=> v \in Up
                              /\ worker'[v].pc = worker[v].pc
    BY <1>1, <1>3, RefreshFacts
  <2> QED
    BY <1>2, <2>1 DEF Rolling
<1>4. ASSUME NEW w \in Workers,
             \/ \E b \in left.kinds : Batch(w, b)
             \/ Show(w) \/ ExpireRolling(w) \/ Record(w) \/ Flush(w) \/ Observe(w)
             \/ Learn(w) \/ Alert(w) \/ Fail(w)
      PROVE  RollingInv'
  <2>1. /\ clock' = clock /\ w \in Up /\ w \in Up'
        /\ \A v \in Workers : /\ worker'[v].since = worker[v].since
                              /\ v \in Up' <=> v \in Up
                              /\ v # w => worker'[v] = worker[v]
    BY <1>1, <1>4, DueFacts
  <2>2. CASE Show(w)
    <3>1. rolling'.until = UntilAfterHset(rolling) /\ w \in Rolling'
      BY <1>1, <2>2 DEF Show, Rolling
    <3>2. rolling'.until # Forever => rolling'.until <= clock + RollTtl
      BY <1>1, <2>1, <3>1, KeyWritten
    <3> QED
      BY <2>1, <3>1, <3>2 DEF RollingInv, KeyInv
  <2>3. CASE ExpireRolling(w)
    <3>1. rolling'.until = UntilAfterExpire(rolling, RollTtl)
      BY <1>1, <2>3 DEF ExpireRolling, TypeOK
    <3>2. rolling'.until # Forever /\ rolling'.until <= clock + RollTtl
      BY <1>1, <2>1, <3>1, KeyWritten
    <3> QED
      BY <2>1, <3>2 DEF RollingInv, KeyInv
  <2>4. CASE Fail(w)
    <3>1. rolling' = rolling /\ ("rolling" \in torn => "rolling" \in torn')
          /\ (w \in Rolling /\ rolling.until = Forever => "rolling" \in torn')
      BY <2>4 DEF Fail, redis, Rolling
    <3>2. \A v \in Workers : v # w /\ v \in Rolling => v \in Rolling'
      BY <2>1 DEF Rolling
    <3>3. Rolling \subseteq Workers
      BY DEF Rolling
    <3> QED
      BY <1>2, <2>1, <3>1, <3>2, <3>3
  <2>5. CASE \/ \E b \in left.kinds : Batch(w, b)
             \/ Record(w) \/ Flush(w) \/ Observe(w) \/ Learn(w) \/ Alert(w)
    <3>1. rolling' = rolling /\ torn' = torn /\ w \notin Rolling
      BY <2>5 DEF Batch, Record, Flush, Observe, Learn, Alert, redis, history, Rolling
    <3>2. \A v \in Workers : v \in Rolling => v \in Rolling'
      BY <2>1, <3>1 DEF Rolling
    <3>3. Rolling \subseteq Workers
      BY DEF Rolling
    <3> QED
      BY <1>2, <2>1, <3>1, <3>2, <3>3
  <2> QED
    BY <1>4, <2>2, <2>3, <2>4, <2>5
<1>5. ASSUME NEW w \in Workers, Die(w) \/ Start(w) PROVE RollingInv'
  <2>1. /\ rolling' = rolling /\ clock' = clock /\ ("rolling" \in torn => "rolling" \in torn')
        /\ w \in Rolling /\ rolling.until = Forever => "rolling" \in torn'
        /\ worker'[w] \in {Dead(clock), Started(clock)}
        /\ \A v \in Workers : v # w => worker'[v] = worker[v]
    BY <1>1, <1>5 DEF Die, Start, redis, history, Rolling, Up
  <2>2. worker'[w].since = clock
    BY <1>1, <2>1, StartedFacts
  <2>3. CASE rolling.until = Forever
    <3>1. "rolling" \in torn \/ \E v \in Workers : v \in Rolling
      BY <1>1, <2>3 DEF KeyInv, Rolling
    <3>2. \A v \in Workers : v # w /\ v \in Rolling => v \in Rolling'
      BY <2>1 DEF Rolling
    <3> QED
      BY <2>1, <2>3, <3>1, <3>2 DEF RollingInv, KeyInv
  <2>4. CASE rolling.until # Forever
    BY <1>1, <2>1, <2>2, <2>4 DEF RollingInv, KeyInv
  <2> QED
    BY <2>3, <2>4
<1>6. CASE \/ Tick \/ (\E s \in {"redis", "postgres", "broker"} : Break(s) \/ Mend(s))
           \/ (\E c \in Clients : Poll(c)) \/ UNCHANGED dashVars
  <2>1. UNCHANGED <<rolling, worker, torn>> /\ clock' \in {clock, clock + 1}
    BY <1>6 DEF Tick, Break, Mend, Poll, dashVars, vars, redis, history
  <2> QED
    BY <1>2, <2>1 DEF Up, Rolling
<1> QED
  BY <1>3, <1>4, <1>5, <1>6 DEF DashNext, Next

LEMMA LagStep ==
    ASSUME MetricsInv, LagInv, [DashNext]_dashVars
    PROVE  LagInv'
<1>1. /\ TypeOK /\ clock \in Nat /\ lag.until \in Int /\ LagTtl \in Nat
      /\ worker \in [Workers -> Processes] /\ left \in Purses
      /\ KeyInv(lag, "lag", LagTtl, Lagging)
  BY MetricsAssumption DEF MetricsInv, TypeOK, LagInv
<1>2. ASSUME lag' = lag, clock' \in {clock, clock + 1},
             \A v \in Workers : worker'[v].since = worker[v].since /\ (v \in Up' <=> v \in Up),
             "lag" \in torn => "lag" \in torn',
             Lagging # {} => "lag" \in torn' \/ Lagging' # {} \/ lag.until # Forever
      PROVE  LagInv'
  BY <1>1, <1>2, KeySame DEF LagInv, KeyInv
<1>3. ASSUME NEW w \in Workers, Beat(w) \/ Measure(w) \/ ExpireLag(w) PROVE LagInv'
  <2>1. /\ clock' = clock /\ w \in Up /\ w \in Up'
        /\ \A v \in Workers : /\ worker'[v].since = worker[v].since
                              /\ v \in Up' <=> v \in Up
                              /\ v # w => worker'[v] = worker[v]
    BY <1>1, <1>3, RefreshFacts
  <2>2. \A v \in Workers : v # w /\ v \in Lagging => v \in Lagging'
    BY <2>1 DEF Lagging
  <2>3. Lagging \subseteq Workers
    BY DEF Lagging
  <2>4. CASE lag' = lag /\ torn' = torn /\ w \notin Lagging
    BY <1>2, <2>1, <2>2, <2>3, <2>4
  <2>5. CASE w \in Lagging' /\ lag'.until = UntilAfterHset(lag)
    <3>1. lag'.until # Forever => lag'.until <= clock + LagTtl
      BY <1>1, <2>1, <2>5, KeyWritten
    <3> QED
      BY <2>1, <2>5, <3>1 DEF LagInv, KeyInv
  <2>6. CASE ExpireLag(w) /\ Works("redis")
    <3>1. lag'.until = UntilAfterExpire(lag, LagTtl)
      BY <1>1, <2>6 DEF ExpireLag, TypeOK
    <3>2. lag'.until # Forever /\ lag'.until <= clock + LagTtl
      BY <1>1, <2>1, <3>1, KeyWritten
    <3> QED
      BY <2>1, <3>2 DEF LagInv, KeyInv
  <2>7. CASE ExpireLag(w) /\ ~Works("redis")
    <3>1. lag' = lag /\ ("lag" \in torn => "lag" \in torn')
          /\ (lag.until = Forever => "lag" \in torn')
      BY <2>7 DEF ExpireLag
    <3> QED
      BY <1>2, <2>1, <3>1
  <2>8. CASE Beat(w)
    BY <2>4, <2>8 DEF Beat, history, Lagging
  <2>9. CASE Measure(w)
    <3>1. worker[w].round = "lag" /\ torn' = torn /\ w \notin Lagging
      BY <2>9 DEF Measure, history, Lagging
    <3>2. \/ lag' = lag
          \/ lag'.until = UntilAfterHset(lag) /\ worker' = [worker EXCEPT ![w].round = "expire"]
      BY <2>9 DEF Measure
    <3>3. worker' = [worker EXCEPT ![w].round = "expire"] => w \in Lagging'
      BY <1>1 DEF Lagging, Processes
    <3> QED
      BY <2>4, <2>5, <3>1, <3>2, <3>3
  <2> QED
    BY <1>3, <2>6, <2>7, <2>8, <2>9
<1>4. ASSUME NEW w \in Workers,
             \/ \E b \in left.kinds : Batch(w, b)
             \/ Show(w) \/ ExpireRolling(w) \/ Record(w) \/ Flush(w) \/ Observe(w)
             \/ Learn(w) \/ Alert(w) \/ Fail(w)
      PROVE  LagInv'
  <2>1. /\ lag' = lag /\ clock' = clock /\ ("lag" \in torn' <=> "lag" \in torn)
        /\ \A v \in Workers : /\ worker'[v].since = worker[v].since
                              /\ v \in Up' <=> v \in Up
                              /\ worker'[v].round = worker[v].round
    BY <1>1, <1>4, DueFacts
  <2> QED
    BY <1>2, <2>1 DEF Lagging
<1>5. ASSUME NEW w \in Workers, Die(w) \/ Start(w) PROVE LagInv'
  <2>1. /\ lag' = lag /\ clock' = clock /\ ("lag" \in torn => "lag" \in torn')
        /\ worker'[w] \in {Dead(clock), Started(clock)}
        /\ \A v \in Workers : v # w => worker'[v] = worker[v]
    BY <1>1, <1>5 DEF Die, Start, redis, history, Up
  <2>2. w \in Lagging /\ lag.until = Forever => "lag" \in torn'
    <3>1. CASE Die(w)
      BY <3>1 DEF Die, Lagging
    <3>2. CASE Start(w)
      <4>1. worker[w].pc = "down" /\ Sound(worker[w], clock)
        BY <1>1, <3>2 DEF Start, Up, TypeOK
      <4> QED
        BY <4>1 DEF Sound, Lagging
    <3> QED
      BY <1>5, <3>1, <3>2
  <2>3. worker'[w].since = clock
    BY <1>1, <2>1, StartedFacts
  <2>4. CASE lag.until = Forever
    <3>1. "lag" \in torn \/ \E v \in Workers : v \in Lagging
      BY <1>1, <2>4 DEF KeyInv, Lagging
    <3>2. \A v \in Workers : v # w /\ v \in Lagging => v \in Lagging'
      BY <2>1 DEF Lagging
    <3> QED
      BY <2>1, <2>2, <2>4, <3>1, <3>2 DEF LagInv, KeyInv
  <2>5. CASE lag.until # Forever
    BY <1>1, <2>1, <2>3, <2>5 DEF LagInv, KeyInv
  <2> QED
    BY <2>4, <2>5
<1>6. CASE \/ Tick \/ (\E s \in {"redis", "postgres", "broker"} : Break(s) \/ Mend(s))
           \/ (\E c \in Clients : Poll(c)) \/ UNCHANGED dashVars
  <2>1. UNCHANGED <<lag, worker, torn>> /\ clock' \in {clock, clock + 1}
    BY <1>6 DEF Tick, Break, Mend, Poll, dashVars, vars, redis, history
  <2> QED
    BY <1>2, <2>1 DEF Up, Lagging
<1> QED
  BY <1>3, <1>4, <1>5, <1>6 DEF DashNext, Next

(***************************************************************************)
(* Once no worker has lived for as long as a heartbeat is believed, the    *)
(* metrics page shows no rates and the status page no healthy system; once *)
(* none has for as long as Redis keeps the rolling window, or the lag, no  *)
(* page shows those either, unless an HSET was never followed by its       *)
(* EXPIRE (metrics_service.py:3-5; system.py:69-88; worker.py:40-44;       *)
(* pipeline.py:210-211), if there are workers at all.                      *)
(***************************************************************************)
THEOREM DeadIsBlankHolds ==
    ASSUME Workers # {}
    PROVE  DashSpec => []DeadIsBlank
<1>1. DashInit => LastBeatInv /\ RollingInv /\ LagInv
  <2> SUFFICES ASSUME DashInit, NEW w \in Workers PROVE LastBeatInv /\ RollingInv /\ LagInv
    OBVIOUS
  <2>1. 0 \in Int /\ Never \in Int /\ beat = Never /\ rolling.until = Never /\ lag.until = Never
        /\ Never # Forever /\ Never < 0 /\ clock = 0
    BY DEF Never, Forever, DashInit, Init
  <2>2. worker[w] \in {Started(0), Dead(Never)}
    BY DEF DashInit, Init
  <2>3. w \in Up \/ worker[w].since = Never
    BY <2>1, <2>2, StartedFacts DEF Up
  <2>4. RollTtl \in Nat /\ LagTtl \in Nat
    BY MetricsAssumption
  <2> QED
    BY <2>1, <2>3, <2>4 DEF LastBeatInv, RollingInv, LagInv, KeyInv
<1>2. MetricsInv /\ LastBeatInv /\ RollingInv /\ LagInv /\ [DashNext]_dashVars
        => LastBeatInv' /\ RollingInv' /\ LagInv'
  BY LastBeatStep, RollingStep, LagStep
<1>3. MetricsInv /\ LastBeatInv /\ RollingInv /\ LagInv => DeadIsBlank
  <2> SUFFICES ASSUME MetricsInv, LastBeatInv, RollingInv, LagInv, Up = {} PROVE DeadIsBlank
    BY DEF DeadIsBlank
  <2>1. /\ clock \in Nat /\ beat \in Int /\ rolling.until \in Int /\ lag.until \in Int
        /\ BeatFresh \in Nat /\ LagTtl \in Nat /\ RollTtl \in Nat
        /\ \A w \in Workers : worker[w].since \in Int
    BY MetricsAssumption, DashboardAssumption DEF MetricsInv, TypeOK, Processes
  <2>2. Rolling = {} /\ Lagging = {}
    <3>1. \A w \in Workers : worker[w].pc = "down" /\ worker[w].round = "wait"
      BY DEF Up, MetricsInv, TypeOK, Sound
    <3> QED
      BY <3>1 DEF Rolling, Lagging
  <2>3. ASSUME \A w \in Workers \ Up : clock - worker[w].since >= BeatFresh
        PROVE  EventsInWindow = Null /\ SystemStatus # "healthy"
    <3>1. PICK w \in Workers \ Up : beat <= worker[w].since
      BY DEF LastBeatInv
    <3>2. clock - worker[w].since >= BeatFresh
      BY <2>3
    <3>3. ~WorkerFresh
      BY <2>1, <3>1, <3>2 DEF WorkerFresh
    <3> QED
      BY <3>3 DEF EventsInWindow, RollingFresh, SystemStatus
  <2>4. ASSUME NEW key, NEW name, NEW ttl \in Nat, KeyInv(key, name, ttl, {}), key.until \in Int,
               name \notin torn, \A w \in Workers \ Up : clock - worker[w].since >= ttl
        PROVE  ~Present(key)
    <3>1. key.until # Forever
      BY <2>4 DEF KeyInv
    <3>2. PICK w \in Workers \ Up : key.until <= worker[w].since + ttl
      BY <2>4, <3>1 DEF KeyInv
    <3>3. clock - worker[w].since >= ttl
      BY <2>4
    <3>4. ~(clock < key.until)
      BY <2>1, <2>4, <3>2, <3>3
    <3> QED
      BY <3>1, <3>4 DEF Present
  <2>5. (\A w \in Workers \ Up : clock - worker[w].since >= RollTtl) /\ "rolling" \notin torn
          => StatusRates = Null
    BY <2>1, <2>2, <2>4 DEF StatusRates, RollingInv
  <2>6. (\A w \in Workers \ Up : clock - worker[w].since >= LagTtl) /\ "lag" \notin torn
          => LagMeasured = Null
    BY <2>1, <2>2, <2>4 DEF LagMeasured, LagInv
  <2> QED
    BY <2>3, <2>5, <2>6 DEF DeadIsBlank
<1> QED
  BY <1>1, <1>2, <1>3, MetricsInvHolds, PTL DEF DashSpec
=============================================================================
