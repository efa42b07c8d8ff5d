------------------------ MODULE StreamDeliveryProofs ------------------------
(***************************************************************************)
(* The stream processor implements Delivery: every step of StreamProcessor *)
(* is, seen without its workers, offsets and stages, a step of Delivery or *)
(* none at all.  It rests on the invariant of StreamProcessorProofs.       *)
(***************************************************************************)
EXTENDS StreamProcessorProofs

\* What Delivery's variables stand for.
Sent  == {Record(s) : s \in ValidSlots}
Acked == {Record(s) : s \in CommittedSlots}
Lost  == {Record(s) : s \in LostSlots}

\* A record of the topic is a slot with a valid event in it.
LEMMA SentFacts ==
    ASSUME NEW r
    PROVE  r \in Sent <=> \E s \in Slots : Msg(s) \in Events /\ r = Record(s)
  BY DEF Sent, ValidSlots

LEMMA AckedFacts ==
    ASSUME NEW r
    PROVE  r \in Acked <=>
             \E s \in Slots : Msg(s) \in Events /\ s[2] <= committed[s[1]] /\ r = Record(s)
  BY DEF Acked, CommittedSlots

LEMMA LostFacts ==
    ASSUME NEW r
    PROVE  r \in Lost <=>
             \E s \in Slots : /\ Msg(s) \in Events /\ r = Record(s)
                              /\ s \in abandoned \/ s \in skipped \/ Msg(s) \in orphaned
  BY DEF Lost, LostSlots, ValidSlots

\* Two slots with the same record are the same slot.
LEMMA RecordFacts ==
    ASSUME NEW s, NEW t, Record(s) = Record(t)
    PROVE  s[1] = t[1] /\ s[2] = t[2] /\ Msg(s) = Msg(t)
  BY DEF Record

\* Without a change of the topic the records stay as they are.
LEMMA RecordFrame ==
    ASSUME log' = log
    PROVE  /\ Slots' = Slots /\ Sent' = Sent
           /\ \A s : Msg(s)' = Msg(s) /\ Record(s)' = Record(s)
           /\ committed' = committed => Acked' = Acked
           /\ UNCHANGED <<abandoned, skipped, orphaned>> => Lost' = Lost
  BY LogFrame DEF Sent, Acked, Lost, Record, ValidSlots, CommittedSlots, LostSlots
-----------------------------------------------------------------------------
LEMMA InitDelivery == Init => Abstract!Init
<1> SUFFICES ASSUME Init PROVE Abstract!Init
  OBVIOUS
<1>1. Slots = {}
  BY DEF Init, Slots
<1>2. InFlight = {}
  BY DEF Init, InFlight, Marked
<1>3. ValidSlots = {} /\ CommittedSlots = {} /\ LostSlots = {}
  BY <1>1 DEF ValidSlots, CommittedSlots, LostSlots
<1> QED
  BY <1>2, <1>3 DEF Init, Abstract!Init

\* Steps that change nothing of what Delivery speaks of.
LEMMA StutterDelivery ==
    ASSUME log' = log, InFlight' = InFlight,
           UNCHANGED <<committed, stored, published, abandoned, skipped, orphaned>>
    PROVE  UNCHANGED Abstract!vars
  BY RecordFrame DEF Abstract!vars, Sent, Acked, Lost

\* Batches that are not marked, before and after, claim nothing.
LEMMA SameClaims ==
    ASSUME log' = log, NEW w \in Workers,
           \A v \in Workers : v # w => pc'[v] = pc[v] /\ pending'[v] = pending[v],
           \/ pc[w] \notin Marked /\ pc'[w] \notin Marked
           \/ pc[w] \in Marked /\ pc'[w] \in Marked /\ pending'[w] = pending[w]
    PROVE  InFlight' = InFlight
<1>1. \A s : Msg(s)' = Msg(s)
  BY LogFrame
<1> QED
  BY <1>1, InFlightFacts, InFlightFactsPrime

\* A message a producer appends is sent, and known to be lost when its event is.
LEMMA ProduceDelivery ==
    ASSUME IInv, NEW p \in Partitions, NEW m \in Messages, Produce(p, m)
    PROVE  Abstract!Send \/ UNCHANGED Abstract!vars
<1> PICK n : n = Len(log[p]) + 1
  OBVIOUS
<1> DEFINE new == <<p, n>>
           r   == <<p, n, m>>
<1>0. TypeOK
  BY DEF IInv
<1>1. /\ log' \in [Partitions -> Seq(Messages)]
      /\ Slots \subseteq Slots'
      /\ \A s \in Slots : Msg(s)' = Msg(s)
      /\ \A s \in Slots' : s[2] <= Len(log[s[1]]) => s \in Slots
  BY <1>0, ProduceFacts
<1>2. UNCHANGED <<committed, owner, position, workerVars, storeVars, historyVars, faults>>
  BY DEF Produce
<1>3. /\ new \in Slots' /\ new \notin Slots /\ Msg(new)' = m
      /\ \A s \in Slots' : s \in Slots \/ s = new
  <2>1. log \in [Partitions -> Seq(Messages)] /\ log' = [log EXCEPT ![p] = Append(@, m)]
    BY <1>0 DEF TypeOK, Produce
  <2>2. \A q \in Partitions : Len(log[q]) \in Nat
    BY <2>1
  <2>3. /\ Len(log'[p]) = Len(log[p]) + 1 /\ log'[p][n] = m
        /\ \A q \in Partitions : q # p => log'[q] = log[q]
    BY <2>1
  <2>4. new \in Slots' /\ new \notin Slots
    BY <2>2, <2>3, SlotFacts, SlotFactsPrime
  <2>5. ASSUME NEW s \in Slots', s \notin Slots PROVE s = new
    BY <2>2, <2>3, <2>5, <1>1, SlotFactsPrime
  <2> QED
    BY <2>3, <2>4, <2>5 DEF Msg
<1>4. \A s \in Slots : Record(s)' = Record(s)
  BY <1>1 DEF Record
<1>5. Record(new)' = r
  BY <1>3 DEF Record
<1>6. InFlight' = InFlight
  <2>1. \A w \in Workers : pending[w] \subseteq Slots
    BY <1>0 DEF TypeOK
  <2>2. \A w \in Workers : Ids(pending[w])' = Ids(pending[w])
    BY <2>1, <1>1, <1>2 DEF Ids, workerVars
  <2> QED
    BY <2>2, <1>2 DEF InFlight, workerVars
<1>7. new \notin abandoned /\ new \notin skipped
  BY <1>0, <1>3 DEF TypeOK
<1>8. Acked' = Acked
  <2>1. ASSUME NEW s \in Slots', s[2] <= committed[s[1]] PROVE s \in Slots
    <3>1. s[1] \in Partitions /\ s[2] \in Int
      BY SlotFactsPrime
    <3>2. committed[s[1]] <= Len(log[s[1]]) /\ Len(log[s[1]]) \in Int /\ committed[s[1]] \in Int
      BY <3>1, <1>0 DEF TypeOK, IInv, PositionsInOrder, NoOffset
    <3> QED
      BY <3>1, <3>2, <2>1, <1>1
  <2>2. CommittedSlots' = CommittedSlots
    BY <2>1, <1>1, <1>2 DEF CommittedSlots
  <2> QED
    BY <2>2, <1>4 DEF Acked, CommittedSlots
<1>9. CASE m \in Events
  <2>1. Sent' = Sent \cup {r} /\ r \notin Sent
    <3>1. ValidSlots' = ValidSlots \cup {new}
      BY <1>1, <1>3, <1>9 DEF ValidSlots
    <3>2. Sent' = Sent \cup {r}
      BY <3>1, <1>4, <1>5 DEF Sent, ValidSlots
    <3>3. ASSUME NEW s \in Slots, r = Record(s) PROVE FALSE
      <4>1. s = <<s[1], s[2]>>
        BY SlotFacts
      <4> QED
        BY <4>1, <3>3, <1>3 DEF Record
    <3> QED
      BY <3>2, <3>3, SentFacts
  <2>2. Lost' = Lost \/ Lost' = Lost \cup {r}
    <3>1. CASE m \in orphaned
      <4>1. LostSlots' = LostSlots \cup {new}
        BY <3>1, <1>1, <1>2, <1>3, <1>9 DEF LostSlots, ValidSlots, historyVars
      <4> QED
        BY <4>1, <1>4, <1>5 DEF Lost, LostSlots, ValidSlots
    <3>2. CASE m \notin orphaned
      <4>1. LostSlots' = LostSlots
        BY <3>2, <1>1, <1>2, <1>3, <1>7 DEF LostSlots, ValidSlots, historyVars
      <4> QED
        BY <4>1, <1>4 DEF Lost, LostSlots, ValidSlots
    <3> QED
      BY <3>1, <3>2
  <2> QED
    BY <2>1, <2>2, <1>2, <1>6, <1>8 DEF Abstract!Send, Sent, Lost, Acked, storeVars
<1>10. CASE m \notin Events
  <2>1. ValidSlots' = ValidSlots
    BY <1>1, <1>3, <1>10 DEF ValidSlots
  <2>2. LostSlots' = LostSlots
    BY <2>1, <1>1, <1>2 DEF LostSlots, ValidSlots, historyVars
  <2>3. Sent' = Sent /\ Lost' = Lost
    BY <2>1, <2>2, <1>4 DEF Sent, Lost, LostSlots, ValidSlots
  <2> QED
    BY <2>3, <1>2, <1>6, <1>8 DEF Abstract!vars, Sent, Lost, Acked, storeVars
<1> QED
  BY <1>9, <1>10

\* A rebalance gives up the records that were there before the group had an
\* offset: the new owners start behind them.
LEMMA AssignDelivery ==
    ASSUME IInv, NEW members, Assign(members),
           UNCHANGED <<log, committed, pending, storeVars, orphaned, abandoned>>,
           \A w \in Workers : pc'[w] = pc[w] \/ (pc[w] = "down" /\ pc'[w] = "poll")
    PROVE  Abstract!Lose
<1>1. /\ Slots' = Slots /\ Sent' = Sent /\ Acked' = Acked
      /\ \A s : Msg(s)' = Msg(s) /\ Record(s)' = Record(s)
  BY RecordFrame
<1>2. InFlight' = InFlight
  <2>1. \A w \in Workers : Ids(pending[w])' = Ids(pending[w])
    BY <1>1 DEF Ids
  <2>2. \A w \in Workers : pc'[w] \in Marked <=> pc[w] \in Marked
    BY DEF Marked
  <2> QED
    BY <2>1, <2>2 DEF InFlight
<1> DEFINE jumped == {s \in Slots : committed[s[1]] = NoOffset}
           R == {Record(s) : s \in jumped \cap ValidSlots}
<1>3. LostSlots' = LostSlots \cup (jumped \cap ValidSlots)
  BY <1>1 DEF Assign, LostSlots, ValidSlots
<1>4. Lost' = Lost \cup R
  BY <1>1, <1>3 DEF Lost, LostSlots, ValidSlots
<1>5. R \in SUBSET Sent /\ Abstract!RecordsOf({}) = {}
  BY DEF Sent, Abstract!RecordsOf
<1>6. /\ {} \in SUBSET InFlight /\ Lost' = Lost \cup R \cup Abstract!RecordsOf({})
      /\ InFlight' = InFlight \ {}
  BY <1>2, <1>4, <1>5
<1> HIDE DEF R
<1> QED
  BY <1>1, <1>5, <1>6 DEF Abstract!Lose, Sent, Acked, Lost, storeVars

\* A fetch, the check of the set and the evaluation change nothing Delivery
\* speaks of.
LEMMA PollDelivery == ASSUME IInv, NEW w \in Workers, Poll(w) PROVE UNCHANGED Abstract!vars
<1>1. /\ pc[w] = "poll"
      /\ UNCHANGED <<log, committed, storeVars, historyVars>>
  BY DEF Poll
<1>2. /\ \A v \in Workers : v # w => pc'[v] = pc[v] /\ pending'[v] = pending[v]
      /\ pc'[w] \in {"poll", "down", "commit", "check"}
  BY <1>1 DEF Poll, IInv, TypeOK, workerVars
<1>3. InFlight' = InFlight
  BY <1>1, <1>2, SameClaims DEF Marked
<1> QED
  BY <1>1, <1>3, StutterDelivery DEF storeVars, historyVars

LEMMA CheckSeenDelivery ==
    ASSUME IInv, NEW w \in Workers, CheckSeen(w) PROVE UNCHANGED Abstract!vars
<1>1. /\ pc[w] = "check" /\ UNCHANGED <<log, committed, storeVars, historyVars>>
      /\ pc'[w] \in {"commit", "mark"}
      /\ \A v \in Workers : v # w => pc'[v] = pc[v] /\ pending'[v] = pending[v]
  BY DEF CheckSeen, Goto, IInv, TypeOK, brokerVars
<1>2. InFlight' = InFlight
  BY <1>1, SameClaims DEF Marked
<1> QED
  BY <1>1, <1>2, StutterDelivery DEF storeVars, historyVars

LEMMA DetectDelivery ==
    ASSUME IInv, NEW w \in Workers, Detect(w) PROVE UNCHANGED Abstract!vars
<1>1. /\ pc[w] = "detect" /\ pc'[w] = "persist" /\ pending' = pending
      /\ UNCHANGED <<log, committed, storeVars, orphaned, abandoned, skipped>>
      /\ \A v \in Workers : v # w => pc'[v] = pc[v]
  BY DEF Detect, Goto, IInv, TypeOK, brokerVars
<1>2. InFlight' = InFlight
  BY <1>1, SameClaims DEF Marked
<1> QED
  BY <1>1, <1>2, StutterDelivery DEF storeVars

\* The ids a batch holds are ids of records that were sent.
LEMMA BatchIsSent ==
    ASSUME IInv, NEW w \in Workers
    PROVE  /\ pending[w] \subseteq ValidSlots
           /\ Ids(pending[w]) \in SUBSET {Abstract!IdOf(r) : r \in Sent}
<1>1. pending[w] \subseteq ValidSlots
  BY DEF IInv, TypeOK, PendingInOrder, ValidSlots, Ids
<1>2. ASSUME NEW s \in ValidSlots PROVE Record(s) \in Sent /\ Abstract!IdOf(Record(s)) = Msg(s)
  BY DEF Sent, Record, Abstract!IdOf
<1> QED
  BY <1>1, <1>2 DEF Ids

LEMMA MarkSeenDelivery == ASSUME IInv, NEW w \in Workers, MarkSeen(w) PROVE Abstract!Claim
<1>1. /\ pc[w] = "mark" /\ pc' = [pc EXCEPT ![w] = "detect"] /\ pending' = pending
      /\ UNCHANGED <<log, committed, stored, published, historyVars>>
  BY DEF MarkSeen, Goto, brokerVars
<1>2. Sent' = Sent /\ Acked' = Acked /\ Lost' = Lost /\ \A s : Msg(s)' = Msg(s)
  BY <1>1, RecordFrame DEF historyVars
<1>3. pc'[w] = "detect" /\ \A v \in Workers : v # w => pc'[v] = pc[v]
  BY <1>1 DEF IInv, TypeOK
<1>4. InFlight' = InFlight \cup Ids(pending[w])
  <2>1. ASSUME NEW e PROVE e \in InFlight' <=> e \in InFlight \/ e \in Ids(pending[w])
    BY <1>1, <1>2, <1>3, InFlightFacts, InFlightFactsPrime DEF Marked, Ids
  <2> QED
    BY <2>1
<1> QED
  BY <1>1, <1>2, <1>4, BatchIsSent DEF Abstract!Claim, Sent, Acked, Lost

\* A commit of the transaction stores the ids of the batch; an id stays claimed
\* when another batch holds it too.
LEMMA PersistDelivery == ASSUME IInv, NEW w \in Workers, Persist(w) PROVE Abstract!Store
<1>1. /\ pc[w] = "persist" /\ pc' = [pc EXCEPT ![w] = "publish"] /\ pending' = pending
      /\ stored' = stored \cup Ids(pending[w])
      /\ UNCHANGED <<log, committed, published, historyVars>>
  BY DEF Persist, Goto, brokerVars
<1>2. Sent' = Sent /\ Acked' = Acked /\ Lost' = Lost /\ \A s : Msg(s)' = Msg(s)
  BY <1>1, RecordFrame DEF historyVars
<1>3. pc'[w] = "publish" /\ \A v \in Workers : v # w => pc'[v] = pc[v]
  BY <1>1 DEF IInv, TypeOK
<1>4. Ids(pending[w]) \in SUBSET InFlight
  BY <1>1, InFlightFacts DEF Ids, Marked
<1>5. InFlight' \subseteq InFlight /\ InFlight \ InFlight' \in SUBSET Ids(pending[w])
  <2>1. ASSUME NEW e PROVE /\ e \in InFlight' => e \in InFlight
                           /\ e \in InFlight /\ e \notin InFlight' => e \in Ids(pending[w])
    BY <1>1, <1>2, <1>3, InFlightFacts, InFlightFactsPrime DEF Marked, Ids
  <2> QED
    BY <2>1
<1>6. InFlight' \in {InFlight \ F : F \in SUBSET Ids(pending[w])}
  <2>1. InFlight' = InFlight \ (InFlight \ InFlight')
    BY <1>5
  <2> QED
    BY <2>1, <1>5
<1> QED
  BY <1>1, <1>2, <1>4, <1>6 DEF Abstract!Store, Sent, Acked, Lost

LEMMA PublishDelivery == ASSUME IInv, NEW w \in Workers, Publish(w) PROVE Abstract!Tell
<1>1. /\ pc[w] = "publish" /\ pc'[w] = "commit"
      /\ \A v \in Workers : v # w => pc'[v] = pc[v] /\ pending'[v] = pending[v]
      /\ UNCHANGED <<log, committed, stored, historyVars>>
  BY DEF Publish, Goto, IInv, TypeOK, brokerVars
<1>2. PICK P \in SUBSET pending[w] : published' = published \cup Ids(P)
  BY DEF Publish
<1>3. Ids(P) \in SUBSET stored
  BY <1>1, <1>2 DEF IInv, PendingInOrder, Ids
<1>4. Sent' = Sent /\ Acked' = Acked /\ Lost' = Lost
  BY <1>1, RecordFrame DEF historyVars
<1>5. InFlight' = InFlight
  BY <1>1, SameClaims DEF Marked
<1> QED
  BY <1>1, <1>2, <1>3, <1>4, <1>5 DEF Abstract!Tell, Sent, Acked, Lost

\* What a commit moves the group's offset over is stored, claimed or lost.
LEMMA CommitDelivery == ASSUME IInv, IInv', NEW w \in Workers, Commit(w) PROVE Abstract!Acknowledge
<1>1. /\ pc[w] = "commit" /\ pc'[w] = "poll" /\ pending' = pending
      /\ committed' = [p \in Partitions |-> IF owner[p] = w THEN position[p] ELSE committed[p]]
      /\ \A v \in Workers : v # w => pc'[v] = pc[v]
      /\ UNCHANGED <<log, owner, storeVars, historyVars>>
  BY DEF Commit, Goto, IInv, TypeOK
<1>2. /\ Slots' = Slots /\ Sent' = Sent /\ Lost' = Lost
      /\ \A s : Msg(s)' = Msg(s) /\ Record(s)' = Record(s)
  BY <1>1, RecordFrame DEF historyVars
<1>3. InFlight' = InFlight
  BY <1>1, SameClaims DEF Marked
<1>4. Acked \subseteq Acked'
  <2>1. ASSUME NEW s \in CommittedSlots PROVE s \in CommittedSlots'
    <3>1. s \in Slots /\ s[1] \in Partitions /\ s[2] \in Int /\ s[2] <= committed[s[1]] /\ Msg(s) \in Events
      BY SlotFacts DEF CommittedSlots
    <3>2. owner[s[1]] = w => committed[s[1]] <= position[s[1]]
      BY <3>1, StreamAssumption DEF IInv, PositionsInOrder
    <3>3. committed[s[1]] \in Int /\ position[s[1]] \in Int
      BY <3>1 DEF IInv, TypeOK, NoOffset
    <3> QED
      BY <3>1, <3>2, <3>3, <1>1, <1>2 DEF CommittedSlots
  <2> QED
    BY <2>1, <1>2 DEF Acked
<1>5. Acked' \in SUBSET Sent
  BY <1>2 DEF Acked, Sent, CommittedSlots, ValidSlots
<1>6. ASSUME NEW r \in Acked' PROVE Abstract!IdOf(r) \in InFlight \cup stored \/ r \in Lost
  <2>1. PICK s \in CommittedSlots' : r = Record(s)
    BY <1>2 DEF Acked
  <2>2. s \in Slots /\ Msg(s) \in Events /\ Abstract!IdOf(r) = Msg(s)
    BY <2>1, <1>2 DEF CommittedSlots, Record, Abstract!IdOf
  <2>3. Accounted(s)'
    BY <2>1 DEF IInv, NoSilentLoss
  <2>4. Msg(s) \in stored \cup InFlight \cup orphaned \/ s \in abandoned \/ s \in skipped
    BY <2>3, <1>1, <1>2, <1>3 DEF Accounted, Settled, storeVars, historyVars
  <2> QED
    BY <2>1, <2>2, <2>4, LostFacts
<1>7. Acked' = Acked \cup Acked'
  BY <1>4
<1> QED
  BY <1>1, <1>2, <1>3, <1>5, <1>6, <1>7 DEF Abstract!Acknowledge, Sent, Acked, Lost, storeVars

\* A batch that fails or dies between SADD and the end of its transaction gives
\* up its events; one that fails gives up its slots as well.
LEMMA DropDelivery ==
    ASSUME IInv, NEW w \in Workers, Orphan(w), pc'[w] \notin Marked,
           \A v \in Workers : v # w => pc'[v] = pc[v] /\ pending'[v] = pending[v],
           NEW S \in SUBSET pending[w], abandoned' = abandoned \cup S,
           UNCHANGED <<log, committed, stored, published, skipped>>
    PROVE  Abstract!Lose
<1> DEFINE E == IF pc[w] \in Marked THEN Ids(pending[w]) ELSE {}
           R == {Record(s) : s \in S}
<1>1. /\ Slots' = Slots /\ Sent' = Sent /\ Acked' = Acked
      /\ \A s : Msg(s)' = Msg(s) /\ Record(s)' = Record(s)
  BY RecordFrame
<1>2. orphaned' = orphaned \cup E
  BY DEF Orphan
<1>3. E \in SUBSET InFlight
  BY InFlightFacts DEF Ids
<1>4. InFlight' \subseteq InFlight /\ InFlight \ InFlight' \in SUBSET E
  <2>1. ASSUME NEW e PROVE /\ e \in InFlight' => e \in InFlight
                           /\ e \in InFlight /\ e \notin InFlight' => e \in E
    BY <1>1, InFlightFacts, InFlightFactsPrime DEF Ids
  <2> QED
    BY <2>1
<1>5. R \in SUBSET Sent
  BY BatchIsSent DEF Sent
<1>6. Lost' = Lost \cup R \cup Abstract!RecordsOf(E)
  <2>1. ASSUME NEW r
        PROVE  r \in Abstract!RecordsOf(E) <=>
                 \E s \in Slots : Msg(s) \in Events /\ r = Record(s) /\ Msg(s) \in E
    <3>1. \A s : Abstract!IdOf(Record(s)) = Msg(s)
      BY DEF Abstract!IdOf, Record
    <3>2. r \in Abstract!RecordsOf(E) <=> r \in Sent /\ Abstract!IdOf(r) \in E
      BY DEF Abstract!RecordsOf, Sent
    <3> QED
      BY <3>1, <3>2, SentFacts
  <2>2. LostSlots' = LostSlots \cup S \cup {s \in ValidSlots : Msg(s) \in E}
    <3>1. S \subseteq ValidSlots
      BY BatchIsSent
    <3> QED
      BY <3>1, <1>1, <1>2 DEF LostSlots, ValidSlots
  <2>3. Lost' = Lost \cup R \cup {Record(s) : s \in {t \in ValidSlots : Msg(t) \in E}}
    BY <2>2, <1>1 DEF Lost
  <2>4. Abstract!RecordsOf(E) = {Record(s) : s \in {t \in ValidSlots : Msg(t) \in E}}
    BY <2>1 DEF ValidSlots
  <2> QED
    BY <2>3, <2>4
<1>7. InFlight' = InFlight \ (InFlight \ InFlight')
  BY <1>4
<1>8. InFlight \ InFlight' \in SUBSET InFlight /\ InFlight \ InFlight' \subseteq E
  BY <1>4
<1> QED
  BY <1>1, <1>3, <1>5, <1>6, <1>7, <1>8 DEF Abstract!Lose, Sent, Acked, Lost

LEMMA BatchFailsDelivery == ASSUME IInv, NEW w \in Workers, BatchFails(w) PROVE Abstract!Lose
<1>1. /\ Orphan(w) /\ pc'[w] \notin Marked
      /\ \A v \in Workers : v # w => pc'[v] = pc[v] /\ pending'[v] = pending[v]
      /\ UNCHANGED <<log, committed, stored, published, skipped>>
  BY DEF BatchFails, IInv, TypeOK, Marked, brokerVars, storeVars
<1>2. PICK S \in SUBSET pending[w] : abandoned' = abandoned \cup S
  <2>1. CASE pc[w] \in Unmarked \cup Marked
    BY <2>1 DEF BatchFails
  <2>2. CASE pc[w] \notin Unmarked \cup Marked
    <3>1. abandoned' = abandoned \cup {}
      BY <2>2 DEF BatchFails
    <3> QED
      BY <3>1
  <2> QED
    BY <2>1, <2>2
<1> QED
  BY <1>1, <1>2, DropDelivery

LEMMA CrashDelivery == ASSUME IInv, NEW w \in Workers, Crash(w) PROVE Abstract!Lose
<1>1. /\ Orphan(w) /\ pc'[w] \notin Marked
      /\ \A v \in Workers : v # w => pc'[v] = pc[v] /\ pending'[v] = pending[v]
      /\ UNCHANGED <<log, committed, stored, published, skipped>>
      /\ abandoned' = abandoned \cup {}
  BY DEF Crash, IInv, TypeOK, Marked, storeVars
<1>2. {} \in SUBSET pending[w]
  OBVIOUS
<1> QED
  BY <1>1, <1>2, DropDelivery
-----------------------------------------------------------------------------
\* Every step of the stream processor is a step of Delivery, or none.
LEMMA NextDelivery == IInv /\ IInv' /\ [Next]_vars => [Abstract!Next]_(Abstract!vars)
<1> SUFFICES ASSUME IInv, IInv', [Next]_vars
             PROVE  Abstract!Next \/ UNCHANGED Abstract!vars
  OBVIOUS
<1>1. CASE \E p \in Partitions, m \in Messages : Produce(p, m)
  BY <1>1, ProduceDelivery DEF Abstract!Next
<1>2. CASE Reassign \/ Rebalance
  <2>1. /\ Assign(Live)
        /\ UNCHANGED <<log, committed, workerVars, storeVars, orphaned, abandoned>>
    BY <1>2 DEF Reassign, Rebalance
  <2> QED
    BY <2>1, AssignDelivery DEF Abstract!Next, workerVars
<1>3. ASSUME NEW w \in Workers, Start(w) PROVE Abstract!Next
  <2>1. /\ Assign(Live \cup {w})
        /\ UNCHANGED <<log, committed, pending, storeVars, orphaned, abandoned>>
        /\ \A v \in Workers : pc'[v] = pc[v] \/ (pc[v] = "down" /\ pc'[v] = "poll")
    BY <1>3 DEF Start, Goto, IInv, TypeOK
  <2> QED
    BY <2>1, AssignDelivery DEF Abstract!Next
<1>4. ASSUME NEW w \in Workers, Step(w) PROVE Abstract!Next \/ UNCHANGED Abstract!vars
  BY <1>4, PollDelivery, CheckSeenDelivery, MarkSeenDelivery, DetectDelivery, PersistDelivery,
     PublishDelivery, CommitDelivery DEF Step, Abstract!Next
<1>5. ASSUME NEW w \in Workers, BatchFails(w) \/ Crash(w) PROVE Abstract!Next
  BY <1>5, BatchFailsDelivery, CrashDelivery DEF Abstract!Next
<1>6. CASE (\E w \in Workers : Sigterm(w)) \/ SeenExpires \/ UNCHANGED vars
  <2>1. UNCHANGED <<log, committed, pc, pending, stored, published, abandoned, skipped, orphaned>>
    BY <1>6 DEF Sigterm, SeenExpires, vars, brokerVars, workerVars, storeVars, historyVars
  <2>2. InFlight' = InFlight
    BY <2>1, LogFrame DEF InFlight, Ids
  <2> QED
    BY <2>1, <2>2, StutterDelivery
<1> QED
  BY <1>1, <1>2, <1>3, <1>4, <1>5, <1>6 DEF Next

(***************************************************************************)
(* The stream processor keeps the promise of Delivery, for any number of   *)
(* workers, partitions, messages and faults: an event that is claimed ends *)
(* in the database or among the known losses, subscribers are told of      *)
(* nothing else than rows, and nothing is acknowledged that is neither     *)
(* stored, claimed nor known to be lost (pipeline.py:101-143).             *)
(***************************************************************************)
THEOREM ImplementsDeliveryHolds == Spec => ImplementsDelivery
<1>1. Init => Abstract!Init
  BY InitDelivery
<1>2. IInv /\ IInv' /\ [Next]_vars => [Abstract!Next]_(Abstract!vars)
  BY NextDelivery
<1> QED
  BY <1>1, <1>2, Invariance, PTL DEF Spec, ImplementsDelivery, Abstract!Spec
=============================================================================
