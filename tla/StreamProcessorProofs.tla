----------------------- MODULE StreamProcessorProofs -----------------------
(***************************************************************************)
(* Proofs about StreamProcessor, for any workers, partitions, events and   *)
(* bounds.  IInv is inductive; the safety properties are its conjuncts or  *)
(* follow from it.                                                         *)
(***************************************************************************)
EXTENDS StreamProcessor, TLAPS

\* A slot is a pair of a partition and a place in its log.
LEMMA SlotFacts ==
    ASSUME NEW s
    PROVE  s \in Slots <=> /\ s = <<s[1], s[2]>>
                           /\ s[1] \in Partitions
                           /\ s[2] \in 1..Len(log[s[1]])
  BY DEF Slots

LEMMA SlotFactsPrime ==
    ASSUME NEW s
    PROVE  s \in Slots' <=> /\ s = <<s[1], s[2]>>
                            /\ s[1] \in Partitions
                            /\ s[2] \in 1..Len(log'[s[1]])
  BY DEF Slots

\* An id is in flight when a marked batch holds a slot with it.
LEMMA InFlightFacts ==
    ASSUME NEW e
    PROVE  e \in InFlight <=> \E w \in Workers : pc[w] \in Marked /\ \E s \in pending[w] : Msg(s) = e
  BY DEF InFlight, Ids

LEMMA InFlightFactsPrime ==
    ASSUME NEW e
    PROVE  e \in InFlight' <=>
             \E w \in Workers : pc'[w] \in Marked /\ \E s \in pending'[w] : Msg(s)' = e
  BY DEF InFlight, Ids

\* Appending to the topic leaves the slots that are there as they are.
LEMMA ProduceFacts ==
    ASSUME TypeOK, NEW p \in Partitions, NEW m \in Messages, Produce(p, m)
    PROVE  /\ log' \in [Partitions -> Seq(Messages)]
           /\ Slots \subseteq Slots'
           /\ \A s \in Slots : Msg(s)' = Msg(s)
           /\ \A q \in Partitions : Len(log[q]) <= Len(log'[q])
           /\ \A s \in Slots' : s[2] <= Len(log[s[1]]) => s \in Slots
  <1>1. log \in [Partitions -> Seq(Messages)]
    BY DEF TypeOK
  <1>2. log' = [log EXCEPT ![p] = Append(@, m)]
    BY DEF Produce
  <1>3. /\ log' \in [Partitions -> Seq(Messages)]
        /\ \A q \in Partitions : /\ Len(log[q]) \in Nat
                                 /\ Len(log'[q]) \in Nat
                                 /\ Len(log[q]) <= Len(log'[q])
    BY <1>1, <1>2
  <1>4. ASSUME NEW q \in Partitions, NEW i \in 1..Len(log[q])
        PROVE  log'[q][i] = log[q][i]
    BY <1>1, <1>2
  <1>5. Slots \subseteq Slots'
    BY <1>3, SlotFacts, SlotFactsPrime
  <1>6. \A s \in Slots : Msg(s)' = Msg(s)
    BY <1>4, SlotFacts DEF Msg
  <1>7. \A s \in Slots' : s[2] <= Len(log[s[1]]) => s \in Slots
    BY <1>3, SlotFacts, SlotFactsPrime
  <1> QED BY <1>3, <1>5, <1>6, <1>7

\* The other actions leave the topic alone, and with it the slots.
LEMMA LogFrame ==
    ASSUME log' = log
    PROVE  Slots' = Slots /\ \A s : Msg(s)' = Msg(s)
  BY DEF Slots, Msg

\* What is accounted for stays so, while the marks and the history only grow.
LEMMA AccountedStays ==
    ASSUME Settled \subseteq Settled', abandoned \subseteq abandoned', skipped \subseteq skipped',
           NEW s \in Slots, Msg(s)' = Msg(s), Accounted(s)
    PROVE  Accounted(s)'
  BY DEF Accounted
-----------------------------------------------------------------------------
LEMMA InitIInv == Init => IInv
<1> SUFFICES ASSUME Init PROVE IInv
  OBVIOUS
<1>1. \A p \in Partitions : Len(log[p]) = 0 /\ committed[p] = -1
  BY DEF Init, NoOffset
<1>2. Slots = {}
  BY <1>1 DEF Slots
<1>3. TypeOK
  BY <1>2 DEF Init, TypeOK, NoOffset, FaultKinds, Messages, Marked, Unmarked
<1>4. FetchedIsHandled /\ NoSilentLoss
  BY <1>2 DEF FetchedIsHandled, FetchedSlots, NoSilentLoss, CommittedSlots
<1>5. PositionsInOrder
  BY <1>1, StreamAssumption DEF Init, PositionsInOrder
<1>6. PendingInOrder
  BY DEF Init, PendingInOrder, Ids
<1>7. DownOwnsNothing /\ SeenIsSettled /\ PublishedAreStored
  BY DEF Init, DownOwnsNothing, SeenIsSettled, PublishedAreStored
<1> QED
  BY <1>3, <1>4, <1>5, <1>6, <1>7 DEF IInv

LEMMA ProduceIInv ==
    ASSUME IInv, NEW p \in Partitions, NEW m \in Messages, Produce(p, m)
    PROVE  IInv'
<1>0. TypeOK
  BY DEF IInv
<1>1. /\ log' \in [Partitions -> Seq(Messages)]
      /\ Slots \subseteq Slots'
      /\ \A s \in Slots : Msg(s)' = Msg(s)
      /\ \A q \in Partitions : Len(log[q]) <= Len(log'[q])
      /\ \A s \in Slots' : s[2] <= Len(log[s[1]]) => s \in Slots
  BY <1>0, ProduceFacts
<1>2. UNCHANGED <<committed, owner, position, workerVars, storeVars, historyVars, faults>>
  BY DEF Produce
<1>3. \A w \in Workers : pending[w] \subseteq Slots
  BY <1>0 DEF TypeOK
<1>4. \A w \in Workers : Ids(pending[w])' = Ids(pending[w])
  BY <1>1, <1>2, <1>3 DEF Ids, workerVars
<1>5. Settled' = Settled
  BY <1>2, <1>4 DEF Settled, InFlight, workerVars, storeVars, historyVars
<1>6. TypeOK'
  BY <1>0, <1>1, <1>2 DEF TypeOK, workerVars, storeVars, historyVars
<1>7. \A s \in Slots : Accounted(s) => Accounted(s)'
  BY <1>1, <1>2, <1>5, AccountedStays DEF historyVars
<1>8. ASSUME NEW s \in Slots' PROVE s[1] \in Partitions /\ s[2] \in Nat
  BY <1>1, SlotFactsPrime
<1>9. FetchedIsHandled'
  <2> SUFFICES ASSUME NEW s \in FetchedSlots'
               PROVE  \/ Accounted(s)'
                      \/ pc[owner[s[1]]] \in Unmarked /\ s \in pending[owner[s[1]]]
    BY <1>2 DEF FetchedIsHandled, workerVars
  <2>1. s \in Slots' /\ owner[s[1]] # NoWorker /\ s[2] <= position[s[1]] /\ Msg(s)' \in Events
    BY <1>2 DEF FetchedSlots
  <2>2. position[s[1]] <= Len(log[s[1]])
    BY <2>1, <1>8 DEF IInv, PositionsInOrder
  <2>3. s \in Slots
    BY <2>1, <2>2, <1>0, <1>1, <1>8 DEF TypeOK
  <2>4. s \in FetchedSlots
    BY <2>1, <2>3, <1>1 DEF FetchedSlots
  <2> QED
    BY <2>3, <2>4, <1>7 DEF IInv, FetchedIsHandled
<1>10. NoSilentLoss'
  <2> SUFFICES ASSUME NEW s \in CommittedSlots' PROVE Accounted(s)'
    BY DEF NoSilentLoss
  <2>1. s \in Slots' /\ s[2] <= committed[s[1]] /\ Msg(s)' \in Events
    BY <1>2 DEF CommittedSlots
  <2>2. committed[s[1]] <= Len(log[s[1]]) /\ committed[s[1]] \in Int
    BY <2>1, <1>8, <1>0 DEF IInv, PositionsInOrder, TypeOK, NoOffset
  <2>3. s \in Slots
    BY <2>1, <2>2, <1>0, <1>1, <1>8 DEF TypeOK
  <2>4. s \in CommittedSlots
    BY <2>1, <2>3, <1>1 DEF CommittedSlots
  <2> QED
    BY <2>3, <2>4, <1>7 DEF IInv, NoSilentLoss
<1>11. PositionsInOrder'
  <2> SUFFICES ASSUME NEW q \in Partitions
               PROVE  /\ committed[q] <= Len(log'[q])
                      /\ owner[q] # NoWorker => committed[q] <= position[q] /\ position[q] <= Len(log'[q])
    BY <1>2 DEF PositionsInOrder
  <2>1. Len(log[q]) \in Nat /\ Len(log'[q]) \in Nat /\ Len(log[q]) <= Len(log'[q])
    BY <1>0, <1>1 DEF TypeOK
  <2>2. committed[q] \in Int /\ position[q] \in Nat
    BY <1>0 DEF TypeOK, NoOffset
  <2>3. /\ committed[q] <= Len(log[q])
        /\ owner[q] # NoWorker => committed[q] <= position[q] /\ position[q] <= Len(log[q])
    BY DEF IInv, PositionsInOrder
  <2> QED
    BY <2>1, <2>2, <2>3
<1>12. PendingInOrder' /\ DownOwnsNothing' /\ SeenIsSettled' /\ PublishedAreStored'
  BY <1>2, <1>4, <1>5 DEF IInv, PendingInOrder, DownOwnsNothing, SeenIsSettled, PublishedAreStored,
                          workerVars, storeVars
<1> QED
  BY <1>6, <1>9, <1>10, <1>11, <1>12 DEF IInv

\* A rebalance: the new owners start where their partition is committed, which
\* is accounted for, or at its end, which is skipped.
LEMMA AssignIInv ==
    ASSUME IInv, NEW members \in SUBSET Workers, Assign(members),
           UNCHANGED <<log, committed, pending, storeVars, detected, redetected, orphaned, abandoned>>,
           TypeOK',
           \A w \in members : pc'[w] # "down",
           \A w \in Workers : pc'[w] = pc[w] \/ (pc[w] = "down" /\ pc'[w] = "poll")
    PROVE  IInv'
<1>0. TypeOK /\ Slots' = Slots /\ \A s : Msg(s)' = Msg(s)
  BY LogFrame DEF IInv
<1>1. /\ owner' \in [Partitions -> members]
      /\ position' = [p \in Partitions |-> ResumeAt(p)]
      /\ skipped' = skipped \cup {s \in Slots : committed[s[1]] = NoOffset}
  BY DEF Assign
<1>2. \A w \in Workers : Ids(pending[w])' = Ids(pending[w])
  BY <1>0 DEF Ids
<1>3. \A w \in Workers : pc'[w] \in Marked <=> pc[w] \in Marked
  BY DEF Marked
<1>4. Settled' = Settled
  BY <1>2, <1>3 DEF Settled, InFlight, storeVars
<1>5. \A s \in Slots : Accounted(s) => Accounted(s)'
  BY <1>0, <1>1, <1>4, AccountedStays
<1>6. FetchedIsHandled'
  <2> SUFFICES ASSUME NEW s \in FetchedSlots' PROVE Accounted(s)'
    BY DEF FetchedIsHandled
  <2>1. s \in Slots /\ s[1] \in Partitions /\ s[2] <= ResumeAt(s[1]) /\ Msg(s) \in Events
    BY <1>0, <1>1, SlotFacts DEF FetchedSlots
  <2>2. CASE committed[s[1]] = NoOffset
    BY <2>1, <2>2, <1>1 DEF Accounted
  <2>3. CASE committed[s[1]] # NoOffset
    BY <2>1, <2>3, <1>5 DEF ResumeAt, CommittedSlots, IInv, NoSilentLoss
  <2> QED
    BY <2>2, <2>3
<1>7. NoSilentLoss'
  BY <1>0, <1>5 DEF IInv, NoSilentLoss, CommittedSlots
<1>8. PositionsInOrder'
  <2> SUFFICES ASSUME NEW q \in Partitions
               PROVE  /\ committed[q] <= Len(log[q])
                      /\ committed[q] <= ResumeAt(q) /\ ResumeAt(q) <= Len(log[q])
    BY <1>1 DEF PositionsInOrder
  <2>1. Len(log[q]) \in Nat /\ committed[q] \in Nat \cup {-1} /\ committed[q] <= Len(log[q])
    BY <1>0 DEF TypeOK, IInv, PositionsInOrder, NoOffset
  <2> QED
    BY <2>1 DEF ResumeAt, NoOffset
<1>9. PendingInOrder' /\ SeenIsSettled' /\ PublishedAreStored'
  BY <1>2, <1>4 DEF IInv, PendingInOrder, SeenIsSettled, PublishedAreStored, storeVars
<1>10. DownOwnsNothing'
  BY <1>1 DEF DownOwnsNothing
<1> QED
  BY <1>6, <1>7, <1>8, <1>9, <1>10 DEF IInv

\* A fault only moves its own counter.
LEMMA StrikeType ==
    ASSUME TypeOK, NEW k \in FaultKinds, Strike(k)
    PROVE  faults' \in [FaultKinds -> Nat]
BY DEF TypeOK, Strike

LEMMA ReassignIInv == ASSUME IInv, Reassign \/ Rebalance PROVE IInv'
<1>0. TypeOK
  BY DEF IInv
<1>1. /\ Assign(Live)
      /\ UNCHANGED <<log, committed, workerVars, storeVars, detected, redetected, orphaned, abandoned>>
      /\ faults' \in [FaultKinds -> Nat]
  <2>1. CASE Reassign
    <3>1. faults' = faults
      BY <2>1 DEF Reassign
    <3>2. faults' \in [FaultKinds -> Nat]
      BY <1>0, <3>1 DEF TypeOK
    <3> QED
      BY <2>1, <3>2 DEF Reassign
  <2>2. CASE Rebalance
    <3>1. "rebalance" \in FaultKinds /\ Strike("rebalance")
      BY <2>2 DEF Rebalance, FaultKinds
    <3>2. faults' \in [FaultKinds -> Nat]
      BY <1>0, <3>1, StrikeType
    <3> QED
      BY <2>2, <3>2 DEF Rebalance
  <2> QED
    BY <2>1, <2>2
<1>2. Live \in SUBSET Workers /\ \A w \in Live : pc[w] # "down"
  BY DEF Live
<1>3. owner' \in [Partitions -> Workers \cup {NoWorker}]
  BY <1>1, <1>2 DEF Assign
<1>4. position' \in [Partitions -> Nat]
  BY <1>0, <1>1 DEF Assign, ResumeAt, TypeOK, NoOffset
<1>5. Slots' = Slots /\ skipped' \subseteq Slots
  BY <1>0, <1>1, LogFrame DEF Assign, TypeOK
<1>6. TypeOK'
  BY <1>0, <1>1, <1>3, <1>4, <1>5 DEF TypeOK, workerVars, storeVars
<1> QED
  BY <1>1, <1>2, <1>6, AssignIInv DEF workerVars

LEMMA StartIInv == ASSUME IInv, NEW w \in Workers, Start(w) PROVE IInv'
<1>0. TypeOK
  BY DEF IInv
<1>1. /\ pc[w] = "down" /\ pc' = [pc EXCEPT ![w] = "poll"]
      /\ Assign(Live \cup {w})
      /\ UNCHANGED <<log, committed, pending, stopping, storeVars, detected, redetected,
                     orphaned, abandoned, faults>>
  BY DEF Start, Goto
<1>2. Live \cup {w} \in SUBSET Workers
  BY DEF Live
<1>3. owner' \in [Partitions -> Workers \cup {NoWorker}]
  BY <1>1, <1>2 DEF Assign
<1>4. position' \in [Partitions -> Nat]
  BY <1>0, <1>1 DEF Assign, ResumeAt, TypeOK, NoOffset
<1>5. Slots' = Slots /\ skipped' \subseteq Slots
  BY <1>0, <1>1, LogFrame DEF Assign, TypeOK
<1>6. TypeOK'
  BY <1>0, <1>1, <1>3, <1>4, <1>5 DEF TypeOK, storeVars
<1>7. \A v \in Live \cup {w} : pc'[v] # "down"
  BY <1>0, <1>1 DEF Live, TypeOK
<1>8. \A v \in Workers : pc'[v] = pc[v] \/ (pc[v] = "down" /\ pc'[v] = "poll")
  BY <1>0, <1>1 DEF TypeOK
<1> QED
  BY <1>1, <1>2, <1>6, <1>7, <1>8, AssignIInv

\* A fetch moves the position over slots that are in the batch, or not valid.
LEMMA PollIInv == ASSUME IInv, NEW w \in Workers, Poll(w) PROVE IInv'
<1>0. TypeOK /\ Slots' = Slots /\ \A s : Msg(s)' = Msg(s)
  BY LogFrame DEF IInv, Poll
<1>1. PICK upto \in Fetchable(w) :
        LET decoded == {s \in Fetched(upto) : Msg(s) # Undecodable}
            valid   == {s \in Fetched(upto) : Msg(s) \in Events}
        IN  /\ position' = upto
            /\ \/ /\ decoded = {}
                  /\ UNCHANGED <<owner, workerVars>>
               \/ /\ decoded # {} /\ stopping[w]
                  /\ pc' = [pc EXCEPT ![w] = "down"]
                  /\ stopping' = [stopping EXCEPT ![w] = FALSE]
                  /\ Release(w)
                  /\ UNCHANGED pending
               \/ /\ decoded # {} /\ ~stopping[w]
                  /\ pc' = [pc EXCEPT ![w] = IF valid = {} THEN "commit" ELSE "check"]
                  /\ pending' = [pending EXCEPT ![w] = valid]
                  /\ UNCHANGED <<owner, stopping>>
  BY DEF Poll
<1> DEFINE decoded == {s \in Fetched(upto) : Msg(s) # Undecodable}
           valid   == {s \in Fetched(upto) : Msg(s) \in Events}
<1>2. pc[w] = "poll" /\ UNCHANGED <<log, committed, storeVars, historyVars, faults>>
  BY DEF Poll
<1>3. /\ upto \in [Partitions -> Nat]
      /\ \A p \in Partitions : IF owner[p] = w THEN upto[p] \in position[p]..Len(log[p])
                                              ELSE upto[p] = position[p]
  BY StreamAssumption DEF Fetchable
<1>4. pending[w] = {} /\ valid \subseteq Slots /\ Ids(valid) \subseteq Events
  BY <1>2 DEF IInv, PendingInOrder, Fetched, Ids
<1>5. /\ \A v \in Workers : v # w => (pc'[v] = pc[v] /\ pending'[v] = pending[v])
      /\ pc'[w] \in {"poll", "down", "commit", "check"}
      /\ pending'[w] = valid \/ pending'[w] = {}
      /\ pc'[w] # "check" => pending'[w] = {}
  BY <1>0, <1>1, <1>2, <1>4 DEF TypeOK, workerVars
<1>6. /\ owner' \in [Partitions -> Workers \cup {NoWorker}]
      /\ \A p \in Partitions : owner'[p] # NoWorker => owner'[p] = owner[p] /\ pc'[owner[p]] # "down"
  <2>1. CASE UNCHANGED owner /\ pc'[w] # "down"
    BY <2>1, <1>0, <1>5 DEF TypeOK, IInv, DownOwnsNothing
  <2>2. CASE Release(w)
    BY <2>2, <1>0, <1>5 DEF Release, TypeOK, IInv, DownOwnsNothing
  <2> QED
    BY <2>1, <2>2, <1>0, <1>1, <1>2 DEF workerVars, TypeOK
<1>7. TypeOK'
  <2>1. position' \in [Partitions -> Nat]
    BY <1>1, <1>3
  <2>2. pc' \in [Workers -> {"down", "poll", "publish", "commit"} \cup Marked \cup Unmarked]
    BY <1>0, <1>1 DEF TypeOK, workerVars, Unmarked
  <2>3. pending' \in [Workers -> SUBSET Slots] /\ stopping' \in [Workers -> BOOLEAN]
    BY <1>0, <1>1, <1>4 DEF TypeOK, workerVars
  <2> QED
    BY <2>1, <2>2, <2>3, <1>0, <1>2, <1>6 DEF TypeOK, storeVars, historyVars
<1>8. Settled' = Settled
  <2>1. ASSUME NEW e PROVE e \in InFlight' <=> e \in InFlight
    BY <1>0, <1>2, <1>5, InFlightFacts, InFlightFactsPrime DEF Marked
  <2> QED
    BY <2>1, <1>2 DEF Settled, storeVars, historyVars
<1>9. \A s \in Slots : Accounted(s) => Accounted(s)'
  BY <1>0, <1>2, <1>8, AccountedStays DEF historyVars
<1>10. FetchedIsHandled'
  <2> SUFFICES ASSUME NEW s \in FetchedSlots'
               PROVE  \/ Accounted(s)'
                      \/ pc'[owner'[s[1]]] \in Unmarked /\ s \in pending'[owner'[s[1]]]
    BY DEF FetchedIsHandled
  <2>1. /\ s \in Slots /\ s[1] \in Partitions /\ s[2] \in Nat /\ Msg(s) \in Events
        /\ owner'[s[1]] # NoWorker /\ s[2] <= upto[s[1]]
    BY <1>0, <1>1, SlotFacts DEF FetchedSlots
  <2>2. owner'[s[1]] = owner[s[1]] /\ owner[s[1]] \in Workers
    BY <2>1, <1>0, <1>6 DEF TypeOK
  <2>3. CASE s[2] <= position[s[1]]
    <3>1. s \in FetchedSlots
      BY <2>1, <2>2, <2>3 DEF FetchedSlots
    <3>2. CASE Accounted(s)
      BY <3>2, <2>1, <1>9
    <3>3. CASE pc[owner[s[1]]] \in Unmarked /\ s \in pending[owner[s[1]]]
      BY <3>3, <2>2, <1>2, <1>5 DEF Unmarked
    <3> QED
      BY <3>1, <3>2, <3>3 DEF IInv, FetchedIsHandled
  <2>4. CASE ~(s[2] <= position[s[1]])
    <3>1. owner[s[1]] = w /\ s \in valid
      BY <2>1, <2>4, <1>0, <1>3 DEF Fetched, TypeOK
    <3>2. s \in decoded /\ valid # {}
      BY <3>1, StreamAssumption
    <3>3. pc'[w] = "check" /\ pending'[w] = valid
      BY <3>1, <3>2, <1>0, <1>1, <1>6, <2>1 DEF TypeOK
    <3> QED
      BY <3>1, <3>3, <2>2 DEF Unmarked
  <2> QED
    BY <2>3, <2>4
<1>11. NoSilentLoss'
  BY <1>0, <1>2, <1>9 DEF IInv, NoSilentLoss, CommittedSlots
<1>12. PositionsInOrder'
  <2> SUFFICES ASSUME NEW p \in Partitions
               PROVE  /\ committed[p] <= Len(log[p])
                      /\ owner'[p] # NoWorker => committed[p] <= upto[p] /\ upto[p] <= Len(log[p])
    BY <1>1, <1>2 DEF PositionsInOrder
  <2>1. Len(log[p]) \in Nat /\ committed[p] \in Int /\ position[p] \in Nat /\ upto[p] \in Nat
    BY <1>0, <1>3 DEF TypeOK, NoOffset
  <2> QED
    BY <2>1, <1>3, <1>6 DEF IInv, PositionsInOrder
<1>13. PendingInOrder'
  <2> SUFFICES ASSUME NEW v \in Workers
               PROVE  /\ Ids(pending'[v]) \subseteq Events
                      /\ pc'[v] \in {"down", "poll", "commit"} => pending'[v] = {}
                      /\ pc'[v] = "publish" => Ids(pending'[v]) \subseteq stored
    BY <1>0, <1>2 DEF PendingInOrder, Ids, storeVars
  <2>1. CASE v = w
    BY <2>1, <1>4, <1>5 DEF Ids
  <2>2. CASE v # w
    BY <2>2, <1>5 DEF IInv, PendingInOrder
  <2> QED
    BY <2>1, <2>2
<1>14. DownOwnsNothing' /\ SeenIsSettled' /\ PublishedAreStored'
  BY <1>2, <1>6, <1>8 DEF IInv, DownOwnsNothing, SeenIsSettled, PublishedAreStored, storeVars
<1> QED
  BY <1>7, <1>10, <1>11, <1>12, <1>13, <1>14 DEF IInv

\* What a stage of w's batch has in common: it moves w on, may narrow its batch,
\* keeps the broker, and settles or hands over every slot it was holding.
LEMMA StageIInv ==
    ASSUME IInv, NEW w \in Workers, TypeOK', pc[w] # "down", pc'[w] # "down",
           UNCHANGED <<log, committed, owner, position>>,
           \A v \in Workers : v # w => (pc'[v] = pc[v] /\ pending'[v] = pending[v]),
           pending'[w] \subseteq pending[w],
           pc'[w] \in {"poll", "commit"} => pending'[w] = {},
           pc'[w] = "publish" => Ids(pending[w]) \subseteq stored',
           Settled \subseteq Settled', abandoned \subseteq abandoned', skipped \subseteq skipped',
           stored \subseteq stored', seen' \subseteq Settled', published' \subseteq stored',
           \A s \in pending[w] : pc[w] \in Unmarked =>
               \/ Accounted(s)'
               \/ pc'[w] \in Unmarked /\ s \in pending'[w]
    PROVE  IInv'
<1>0. TypeOK /\ Slots' = Slots /\ \A s : Msg(s)' = Msg(s)
  BY LogFrame DEF IInv
<1>1. \A s \in Slots : Accounted(s) => Accounted(s)'
  BY <1>0, AccountedStays
<1>2. FetchedIsHandled'
  <2> SUFFICES ASSUME NEW s \in FetchedSlots
               PROVE  \/ Accounted(s)'
                      \/ pc'[owner[s[1]]] \in Unmarked /\ s \in pending'[owner[s[1]]]
    BY <1>0 DEF FetchedIsHandled, FetchedSlots
  <2>1. s \in Slots /\ owner[s[1]] \in Workers
    BY <1>0, SlotFacts DEF FetchedSlots, TypeOK
  <2>2. CASE Accounted(s)
    BY <2>1, <2>2, <1>1
  <2>3. CASE pc[owner[s[1]]] \in Unmarked /\ s \in pending[owner[s[1]]]
    <3>1. CASE owner[s[1]] = w
      BY <2>3, <3>1
    <3>2. CASE owner[s[1]] # w
      BY <2>1, <2>3, <3>2
    <3> QED
      BY <3>1, <3>2
  <2> QED
    BY <2>2, <2>3 DEF IInv, FetchedIsHandled
<1>3. NoSilentLoss'
  BY <1>0, <1>1 DEF IInv, NoSilentLoss, CommittedSlots
<1>4. PositionsInOrder' /\ DownOwnsNothing'
  <2>1. PositionsInOrder'
    BY DEF IInv, PositionsInOrder
  <2>2. ASSUME NEW p \in Partitions, owner[p] # NoWorker PROVE pc'[owner[p]] # "down"
    <3>1. owner[p] \in Workers /\ pc[owner[p]] # "down"
      BY <2>2, <1>0 DEF TypeOK, IInv, DownOwnsNothing
    <3> QED
      BY <3>1
  <2> QED
    BY <2>1, <2>2 DEF DownOwnsNothing
<1>5. PendingInOrder'
  <2> SUFFICES ASSUME NEW v \in Workers
               PROVE  /\ Ids(pending'[v]) \subseteq Events
                      /\ pc'[v] \in {"down", "poll", "commit"} => pending'[v] = {}
                      /\ pc'[v] = "publish" => Ids(pending'[v]) \subseteq stored'
    BY <1>0 DEF PendingInOrder, Ids
  <2>1. CASE v = w
    BY <2>1 DEF Ids, IInv, PendingInOrder
  <2>2. CASE v # w
    BY <2>2 DEF IInv, PendingInOrder
  <2> QED
    BY <2>1, <2>2
<1>6. SeenIsSettled' /\ PublishedAreStored'
  BY DEF SeenIsSettled, PublishedAreStored
<1> QED
  BY <1>2, <1>3, <1>4, <1>5, <1>6 DEF IInv

\* Narrowing an unmarked batch to the ids that are not in the set: those it drops
\* are settled, because the set holds nothing else.
LEMMA CheckSeenIInv == ASSUME IInv, NEW w \in Workers, CheckSeen(w) PROVE IInv'
<1> DEFINE fresh == {s \in pending[w] : Msg(s) \notin seen}
           next == IF fresh = {} THEN "commit" ELSE "mark"
<1>0. TypeOK /\ Slots' = Slots /\ \A s : Msg(s)' = Msg(s)
  BY LogFrame DEF IInv, CheckSeen, brokerVars
<1>1. /\ pc[w] = "check" /\ pc' = [pc EXCEPT ![w] = next]
      /\ pending' = [pending EXCEPT ![w] = fresh]
      /\ UNCHANGED <<log, committed, owner, position, stopping, seen, stored, published,
                     detected, redetected, orphaned, abandoned, skipped, faults>>
  BY DEF CheckSeen, Goto, brokerVars, storeVars, historyVars
<1>2. /\ \A v \in Workers : v # w => (pc'[v] = pc[v] /\ pending'[v] = pending[v])
      /\ pc'[w] = next /\ pending'[w] = fresh
  BY <1>0, <1>1 DEF TypeOK
<1>3. TypeOK'
  <2>1. pc' \in [Workers -> {"down", "poll", "publish", "commit"} \cup Marked \cup Unmarked]
    BY <1>0, <1>1 DEF TypeOK, Unmarked
  <2>2. pending' \in [Workers -> SUBSET Slots]
    BY <1>0, <1>1 DEF TypeOK
  <2> QED
    BY <2>1, <2>2, <1>0, <1>1 DEF TypeOK
<1>4. Settled' = Settled
  <2>1. ASSUME NEW e PROVE e \in InFlight' <=> e \in InFlight
    BY <1>0, <1>1, <1>2, InFlightFacts, InFlightFactsPrime DEF Marked
  <2> QED
    BY <2>1, <1>1 DEF Settled
<1>5. ASSUME NEW s \in pending[w], s \notin fresh PROVE Accounted(s)'
  BY <1>0, <1>1, <1>4, <1>5 DEF Accounted, IInv, SeenIsSettled
<1>6. seen' \subseteq Settled' /\ published' \subseteq stored'
  BY <1>1, <1>4 DEF IInv, SeenIsSettled, PublishedAreStored
<1>7. fresh # {} => next \in Unmarked
  BY DEF Unmarked
<1>8. pc[w] # "down" /\ pc'[w] # "down" /\ pc'[w] # "publish" /\ pc'[w] # "poll"
      /\ (pc'[w] = "commit" => fresh = {}) /\ fresh \subseteq pending[w]
  BY <1>1, <1>2
<1>9. \A s \in pending[w] : Accounted(s)' \/ (pc'[w] \in Unmarked /\ s \in pending'[w])
  BY <1>2, <1>5, <1>7
<1> HIDE DEF fresh, next
<1> QED
  BY <1>1, <1>2, <1>3, <1>4, <1>6, <1>8, <1>9, StageIInv

\* SADD: the ids of the batch are in flight from now on.
LEMMA MarkSeenIInv == ASSUME IInv, NEW w \in Workers, MarkSeen(w) PROVE IInv'
<1>0. TypeOK /\ Slots' = Slots /\ \A s : Msg(s)' = Msg(s)
  BY LogFrame DEF IInv, MarkSeen, brokerVars
<1>1. /\ pc[w] = "mark" /\ pc' = [pc EXCEPT ![w] = "detect"]
      /\ seen' = seen \cup Ids(pending[w])
      /\ UNCHANGED <<log, committed, owner, position, pending, stopping, stored, published,
                     detected, redetected, orphaned, abandoned, skipped, faults>>
  BY DEF MarkSeen, Goto, brokerVars, historyVars
<1>2. pc'[w] = "detect" /\ \A v \in Workers : v # w => pc'[v] = pc[v]
  BY <1>0, <1>1 DEF TypeOK
<1>3. Ids(pending[w]) \subseteq Events
  BY DEF IInv, PendingInOrder
<1>4. TypeOK'
  <2>1. pc' \in [Workers -> {"down", "poll", "publish", "commit"} \cup Marked \cup Unmarked]
    BY <1>0, <1>1 DEF TypeOK, Marked
  <2> QED
    BY <2>1, <1>0, <1>1, <1>3 DEF TypeOK
<1>5. Settled \subseteq Settled' /\ Ids(pending[w]) \subseteq Settled'
  <2>1. ASSUME NEW e \in InFlight PROVE e \in InFlight'
    BY <1>0, <1>1, <1>2, InFlightFacts, InFlightFactsPrime DEF Marked
  <2>2. ASSUME NEW e \in Ids(pending[w]) PROVE e \in InFlight'
    BY <1>0, <1>1, <1>2, InFlightFactsPrime DEF Marked, Ids
  <2> QED
    BY <2>1, <2>2, <1>1 DEF Settled
<1>6. \A s \in pending[w] : Accounted(s)'
  BY <1>0, <1>5 DEF Accounted, Ids
<1>7. seen' \subseteq Settled' /\ published' \subseteq stored'
  BY <1>1, <1>5 DEF IInv, SeenIsSettled, PublishedAreStored
<1> QED
  BY <1>1, <1>2, <1>4, <1>5, <1>6, <1>7, StageIInv

LEMMA DetectIInv == ASSUME IInv, NEW w \in Workers, Detect(w) PROVE IInv'
<1>0. TypeOK /\ Slots' = Slots /\ \A s : Msg(s)' = Msg(s)
  BY LogFrame DEF IInv, Detect, brokerVars
<1>1. /\ pc[w] = "detect" /\ pc' = [pc EXCEPT ![w] = "persist"]
      /\ detected' = detected \cup Ids(pending[w])
      /\ redetected' \subseteq redetected \cup Ids(pending[w])
      /\ UNCHANGED <<log, committed, owner, position, pending, stopping, seen, stored, published,
                     orphaned, abandoned, skipped, faults>>
  BY DEF Detect, Goto, brokerVars, storeVars, Ids
<1>2. pc'[w] = "persist" /\ \A v \in Workers : v # w => pc'[v] = pc[v]
  BY <1>0, <1>1 DEF TypeOK
<1>3. Ids(pending[w]) \subseteq Events
  BY DEF IInv, PendingInOrder
<1>4. TypeOK'
  <2>1. pc' \in [Workers -> {"down", "poll", "publish", "commit"} \cup Marked \cup Unmarked]
    BY <1>0, <1>1 DEF TypeOK, Marked
  <2> QED
    BY <2>1, <1>0, <1>1, <1>3 DEF TypeOK
<1>5. Settled' = Settled
  <2>1. ASSUME NEW e PROVE e \in InFlight <=> e \in InFlight'
    BY <1>0, <1>1, <1>2, InFlightFacts, InFlightFactsPrime DEF Marked
  <2> QED
    BY <2>1, <1>1 DEF Settled
<1>6. seen' \subseteq Settled' /\ published' \subseteq stored'
  BY <1>1, <1>5 DEF IInv, SeenIsSettled, PublishedAreStored
<1> QED
  BY <1>1, <1>2, <1>4, <1>5, <1>6, StageIInv DEF Unmarked

\* The transaction turns ids in flight into rows.
LEMMA PersistIInv == ASSUME IInv, NEW w \in Workers, Persist(w) PROVE IInv'
<1>0. TypeOK /\ Slots' = Slots /\ \A s : Msg(s)' = Msg(s)
  BY LogFrame DEF IInv, Persist, brokerVars
<1>1. /\ pc[w] = "persist" /\ pc' = [pc EXCEPT ![w] = "publish"]
      /\ stored' = stored \cup Ids(pending[w])
      /\ UNCHANGED <<log, committed, owner, position, pending, stopping, seen, published,
                     detected, redetected, orphaned, abandoned, skipped, faults>>
  BY DEF Persist, Goto, brokerVars, historyVars
<1>2. pc'[w] = "publish" /\ \A v \in Workers : v # w => pc'[v] = pc[v]
  BY <1>0, <1>1 DEF TypeOK
<1>3. Ids(pending[w]) \subseteq Events
  BY DEF IInv, PendingInOrder
<1>4. TypeOK'
  <2>1. pc' \in [Workers -> {"down", "poll", "publish", "commit"} \cup Marked \cup Unmarked]
    BY <1>0, <1>1 DEF TypeOK
  <2> QED
    BY <2>1, <1>0, <1>1, <1>3 DEF TypeOK
<1>5. Settled \subseteq Settled'
  <2>1. ASSUME NEW e \in InFlight PROVE e \in InFlight' \cup stored'
    <3>1. PICK v \in Workers : pc[v] \in Marked /\ \E s \in pending[v] : Msg(s) = e
      BY <2>1, InFlightFacts
    <3>2. CASE v = w
      BY <3>1, <3>2, <1>1 DEF Ids
    <3>3. CASE v # w
      BY <3>1, <3>3, <1>0, <1>1, <1>2, InFlightFactsPrime
    <3> QED
      BY <3>2, <3>3
  <2> QED
    BY <2>1, <1>1 DEF Settled
<1>6. seen' \subseteq Settled' /\ published' \subseteq stored'
  BY <1>1, <1>5 DEF IInv, SeenIsSettled, PublishedAreStored
<1> QED
  BY <1>1, <1>2, <1>4, <1>5, <1>6, StageIInv DEF Unmarked

\* What is published was stored by the stage before.
LEMMA PublishIInv == ASSUME IInv, NEW w \in Workers, Publish(w) PROVE IInv'
<1>0. TypeOK /\ Slots' = Slots /\ \A s : Msg(s)' = Msg(s)
  BY LogFrame DEF IInv, Publish, brokerVars
<1>1. /\ pc[w] = "publish" /\ pc' = [pc EXCEPT ![w] = "commit"]
      /\ pending' = [pending EXCEPT ![w] = {}]
      /\ published \subseteq published' /\ published' \subseteq published \cup Ids(pending[w])
      /\ UNCHANGED <<log, committed, owner, position, stopping, seen, stored,
                     detected, redetected, orphaned, abandoned, skipped, faults>>
  BY DEF Publish, Goto, brokerVars, historyVars, Ids
<1>2. /\ pc'[w] = "commit" /\ pending'[w] = {}
      /\ \A v \in Workers : v # w => (pc'[v] = pc[v] /\ pending'[v] = pending[v])
  BY <1>0, <1>1 DEF TypeOK
<1>3. Ids(pending[w]) \subseteq Events /\ Ids(pending[w]) \subseteq stored
  BY <1>1 DEF IInv, PendingInOrder
<1>4. TypeOK'
  <2>1. pc' \in [Workers -> {"down", "poll", "publish", "commit"} \cup Marked \cup Unmarked]
    BY <1>0, <1>1 DEF TypeOK
  <2>2. pending' \in [Workers -> SUBSET Slots]
    BY <1>0, <1>1 DEF TypeOK
  <2> QED
    BY <2>1, <2>2, <1>0, <1>1, <1>3 DEF TypeOK
<1>5. Settled' = Settled
  <2>1. ASSUME NEW e PROVE e \in InFlight <=> e \in InFlight'
    BY <1>0, <1>1, <1>2, InFlightFacts, InFlightFactsPrime DEF Marked
  <2> QED
    BY <2>1, <1>1 DEF Settled
<1>6. seen' \subseteq Settled' /\ published' \subseteq stored'
  BY <1>1, <1>3, <1>5 DEF IInv, SeenIsSettled, PublishedAreStored
<1> QED
  BY <1>1, <1>2, <1>4, <1>5, <1>6, StageIInv DEF Unmarked

\* The commit: nothing the worker's position has passed is still in its hands.
LEMMA CommitIInv == ASSUME IInv, NEW w \in Workers, Commit(w) PROVE IInv'
<1>0. TypeOK /\ Slots' = Slots /\ \A s : Msg(s)' = Msg(s)
  BY LogFrame DEF IInv, Commit
<1>1. /\ pc[w] = "commit" /\ pc' = [pc EXCEPT ![w] = "poll"]
      /\ committed' = [p \in Partitions |-> IF owner[p] = w THEN position[p] ELSE committed[p]]
      /\ UNCHANGED <<log, owner, position, pending, stopping, storeVars, historyVars, faults>>
  BY DEF Commit, Goto
<1>2. pc'[w] = "poll" /\ \A v \in Workers : v # w => pc'[v] = pc[v]
  BY <1>0, <1>1 DEF TypeOK
<1>3. pending[w] = {} /\ \A p \in Partitions : owner[p] = w => owner[p] # NoWorker
  BY <1>1, StreamAssumption DEF IInv, PendingInOrder
<1>4. TypeOK'
  <2>1. pc' \in [Workers -> {"down", "poll", "publish", "commit"} \cup Marked \cup Unmarked]
    BY <1>0, <1>1 DEF TypeOK
  <2>2. committed' \in [Partitions -> Nat \cup {NoOffset}]
    BY <1>0, <1>1 DEF TypeOK
  <2> QED
    BY <2>1, <2>2, <1>0, <1>1 DEF TypeOK, storeVars, historyVars
<1>5. Settled' = Settled
  <2>1. ASSUME NEW e PROVE e \in InFlight <=> e \in InFlight'
    BY <1>0, <1>1, <1>2, InFlightFacts, InFlightFactsPrime DEF Marked
  <2> QED
    BY <2>1, <1>1 DEF Settled, storeVars, historyVars
<1>6. \A s \in Slots : Accounted(s) => Accounted(s)'
  BY <1>0, <1>1, <1>5, AccountedStays DEF historyVars
<1>7. FetchedIsHandled'
  <2> SUFFICES ASSUME NEW s \in FetchedSlots
               PROVE  \/ Accounted(s)'
                      \/ pc'[owner[s[1]]] \in Unmarked /\ s \in pending[owner[s[1]]]
    BY <1>0, <1>1 DEF FetchedIsHandled, FetchedSlots
  <2>1. s \in Slots /\ owner[s[1]] \in Workers
    BY <1>0, SlotFacts DEF FetchedSlots, TypeOK
  <2> QED
    BY <2>1, <1>2, <1>3, <1>6 DEF IInv, FetchedIsHandled
<1>8. NoSilentLoss'
  <2> SUFFICES ASSUME NEW s \in CommittedSlots' PROVE Accounted(s)'
    BY DEF NoSilentLoss
  <2>1. s \in Slots /\ s[1] \in Partitions /\ s[2] <= committed'[s[1]] /\ Msg(s) \in Events
    BY <1>0, SlotFacts DEF CommittedSlots
  <2>2. CASE owner[s[1]] = w
    <3>1. s \in FetchedSlots
      BY <2>1, <2>2, <1>1, <1>3 DEF FetchedSlots
    <3>2. Accounted(s)
      BY <3>1, <2>2, <1>3 DEF IInv, FetchedIsHandled
    <3> QED
      BY <3>2, <2>1, <1>6
  <2>3. CASE owner[s[1]] # w
    <3>1. s \in CommittedSlots
      BY <2>1, <2>3, <1>1 DEF CommittedSlots
    <3> QED
      BY <3>1, <2>1, <1>6 DEF IInv, NoSilentLoss
  <2> QED
    BY <2>2, <2>3
<1>9. PositionsInOrder'
  <2> SUFFICES ASSUME NEW p \in Partitions
               PROVE  /\ committed'[p] <= Len(log[p])
                      /\ owner[p] # NoWorker => committed'[p] <= position[p] /\ position[p] <= Len(log[p])
    BY <1>1 DEF PositionsInOrder
  <2>1. committed'[p] = IF owner[p] = w THEN position[p] ELSE committed[p]
    BY <1>1
  <2>2. position[p] \in Nat
    BY <1>0 DEF TypeOK
  <2> QED
    BY <2>1, <2>2, <1>3 DEF IInv, PositionsInOrder
<1>10. PendingInOrder'
  <2>1. ASSUME NEW v \in Workers
        PROVE  /\ Ids(pending[v])' = Ids(pending[v])
               /\ pc'[v] = "publish" => pc[v] = "publish"
               /\ pc'[v] \in {"down", "poll", "commit"} => pc[v] \in {"down", "poll", "commit"}
    BY <1>0, <1>1, <1>2 DEF Ids
  <2> QED
    BY <2>1, <1>1 DEF IInv, PendingInOrder, storeVars
<1>11. DownOwnsNothing' /\ SeenIsSettled' /\ PublishedAreStored'
  BY <1>0, <1>1, <1>2, <1>5 DEF IInv, DownOwnsNothing, SeenIsSettled, PublishedAreStored,
                                 storeVars, TypeOK
<1> QED
  BY <1>4, <1>7, <1>8, <1>9, <1>10, <1>11 DEF IInv

\* The marks of a batch that is dropped pass from in flight to orphaned.
LEMMA OrphanSettles ==
    ASSUME TypeOK, NEW w \in Workers, Orphan(w), stored' = stored, log' = log,
           \A v \in Workers : v # w => (pc'[v] = pc[v] /\ pending'[v] = pending[v])
    PROVE  /\ Settled \subseteq Settled'
           /\ pc[w] \in Marked => Ids(pending[w]) \subseteq orphaned'
           /\ orphaned \subseteq orphaned' /\ orphaned' \subseteq orphaned \cup Ids(pending[w])
<1>0. \A s : Msg(s)' = Msg(s)
  BY LogFrame
<1>1. /\ orphaned \subseteq orphaned' /\ orphaned' \subseteq orphaned \cup Ids(pending[w])
      /\ pc[w] \in Marked => Ids(pending[w]) \subseteq orphaned'
  BY DEF Orphan
<1>2. ASSUME NEW e \in InFlight PROVE e \in InFlight' \cup orphaned'
  <2>1. PICK v \in Workers : pc[v] \in Marked /\ \E s \in pending[v] : Msg(s) = e
    BY <1>2, InFlightFacts
  <2>2. CASE v = w
    BY <2>1, <2>2, <1>1 DEF Ids
  <2>3. CASE v # w
    BY <2>1, <2>3, <1>0, InFlightFactsPrime
  <2> QED
    BY <2>2, <2>3
<1> QED
  BY <1>1, <1>2 DEF Settled

LEMMA BatchFailsIInv == ASSUME IInv, NEW w \in Workers, BatchFails(w) PROVE IInv'
<1>0. TypeOK /\ Slots' = Slots /\ \A s : Msg(s)' = Msg(s)
  BY LogFrame DEF IInv, BatchFails, brokerVars
<1>1. /\ pc[w] \in Unmarked \cup Marked \cup {"publish", "commit"}
      /\ pc' = [pc EXCEPT ![w] = "poll"] /\ pending' = [pending EXCEPT ![w] = {}]
      /\ Orphan(w)
      /\ abandoned \subseteq abandoned' /\ abandoned' \subseteq abandoned \cup pending[w]
      /\ pc[w] \in Unmarked => pending[w] \subseteq abandoned'
      /\ faults' \in [FaultKinds -> Nat]
      /\ UNCHANGED <<log, committed, owner, position, stopping, seen, stored, published,
                     detected, redetected, skipped>>
  BY <1>0, StrikeType DEF BatchFails, FaultKinds, brokerVars, storeVars
<1>2. /\ pc'[w] = "poll" /\ pending'[w] = {}
      /\ \A v \in Workers : v # w => (pc'[v] = pc[v] /\ pending'[v] = pending[v])
  BY <1>0, <1>1 DEF TypeOK
<1>3. /\ Settled \subseteq Settled'
      /\ orphaned' \subseteq orphaned \cup Ids(pending[w])
  BY <1>0, <1>1, <1>2, OrphanSettles
<1>4. TypeOK'
  <2>1. pc' \in [Workers -> {"down", "poll", "publish", "commit"} \cup Marked \cup Unmarked]
    BY <1>0, <1>1 DEF TypeOK
  <2>2. pending' \in [Workers -> SUBSET Slots]
    BY <1>0, <1>1 DEF TypeOK
  <2>3. orphaned' \subseteq Events /\ abandoned' \subseteq Slots
    BY <1>0, <1>1, <1>3 DEF TypeOK, IInv, PendingInOrder
  <2> QED
    BY <2>1, <2>2, <2>3, <1>0, <1>1 DEF TypeOK
<1>5. \A s \in pending[w] : pc[w] \in Unmarked => Accounted(s)'
  BY <1>1 DEF Accounted
<1>6. seen' \subseteq Settled' /\ published' \subseteq stored'
  BY <1>1, <1>3 DEF IInv, SeenIsSettled, PublishedAreStored
<1>7. pc[w] # "down"
  BY <1>1 DEF Unmarked, Marked
<1> QED
  BY <1>1, <1>2, <1>3, <1>4, <1>5, <1>6, <1>7, StageIInv

\* A worker that dies gives up its partitions, and with them its positions.
LEMMA CrashIInv == ASSUME IInv, NEW w \in Workers, Crash(w) PROVE IInv'
<1>0. TypeOK /\ Slots' = Slots /\ \A s : Msg(s)' = Msg(s)
  BY LogFrame DEF IInv, Crash
<1>1. /\ pc' = [pc EXCEPT ![w] = "down"] /\ pending' = [pending EXCEPT ![w] = {}]
      /\ stopping' = [stopping EXCEPT ![w] = FALSE]
      /\ Orphan(w) /\ Release(w)
      /\ faults' \in [FaultKinds -> Nat]
      /\ UNCHANGED <<log, committed, position, seen, stored, published,
                     detected, redetected, abandoned, skipped>>
  BY <1>0, StrikeType DEF Crash, FaultKinds, storeVars
<1>2. /\ pc'[w] = "down" /\ pending'[w] = {}
      /\ \A v \in Workers : v # w => (pc'[v] = pc[v] /\ pending'[v] = pending[v])
  BY <1>0, <1>1 DEF TypeOK
<1>3. /\ Settled \subseteq Settled'
      /\ orphaned' \subseteq orphaned \cup Ids(pending[w])
  BY <1>0, <1>1, <1>2, OrphanSettles
<1>4. /\ owner' \in [Partitions -> Workers \cup {NoWorker}]
      /\ \A p \in Partitions : owner'[p] # NoWorker => owner'[p] = owner[p] /\ owner[p] # w
  <2>1. owner' = [p \in Partitions |-> IF owner[p] = w THEN NoWorker ELSE owner[p]]
    BY <1>1 DEF Release
  <2>2. owner \in [Partitions -> Workers \cup {NoWorker}]
    BY <1>0 DEF TypeOK
  <2> QED
    BY <2>1, <2>2
<1>5. TypeOK'
  <2>1. pc' \in [Workers -> {"down", "poll", "publish", "commit"} \cup Marked \cup Unmarked]
    BY <1>0, <1>1 DEF TypeOK
  <2>2. pending' \in [Workers -> SUBSET Slots] /\ stopping' \in [Workers -> BOOLEAN]
    BY <1>0, <1>1 DEF TypeOK
  <2>3. orphaned' \subseteq Events
    BY <1>0, <1>1, <1>3 DEF TypeOK, IInv, PendingInOrder
  <2> QED
    BY <2>1, <2>2, <2>3, <1>0, <1>1, <1>4 DEF TypeOK
<1>6. \A s \in Slots : Accounted(s) => Accounted(s)'
  BY <1>0, <1>1, <1>3, AccountedStays
<1>7. FetchedIsHandled'
  <2> SUFFICES ASSUME NEW s \in FetchedSlots'
               PROVE  \/ Accounted(s)'
                      \/ pc'[owner'[s[1]]] \in Unmarked /\ s \in pending'[owner'[s[1]]]
    BY DEF FetchedIsHandled
  <2>1. s \in Slots /\ s[1] \in Partitions /\ owner'[s[1]] # NoWorker
    BY <1>0, SlotFacts DEF FetchedSlots
  <2>2. owner'[s[1]] = owner[s[1]] /\ owner[s[1]] \in Workers /\ owner[s[1]] # w
    BY <2>1, <1>0, <1>4 DEF TypeOK
  <2>3. s \in FetchedSlots
    BY <2>1, <2>2, <1>0, <1>1 DEF FetchedSlots
  <2> QED
    BY <2>1, <2>2, <2>3, <1>2, <1>6 DEF IInv, FetchedIsHandled
<1>8. NoSilentLoss'
  BY <1>0, <1>1, <1>6 DEF IInv, NoSilentLoss, CommittedSlots
<1>9. PositionsInOrder'
  <2> SUFFICES ASSUME NEW p \in Partitions
               PROVE  /\ committed[p] <= Len(log[p])
                      /\ owner'[p] # NoWorker => committed[p] <= position[p] /\ position[p] <= Len(log[p])
    BY <1>1 DEF PositionsInOrder
  <2> QED
    BY <1>4 DEF IInv, PositionsInOrder
<1>10. PendingInOrder'
  <2> SUFFICES ASSUME NEW v \in Workers
               PROVE  /\ Ids(pending'[v]) \subseteq Events
                      /\ pc'[v] \in {"down", "poll", "commit"} => pending'[v] = {}
                      /\ pc'[v] = "publish" => Ids(pending'[v]) \subseteq stored
    BY <1>0, <1>1 DEF PendingInOrder, Ids
  <2>1. CASE v = w
    BY <2>1, <1>2 DEF Ids
  <2>2. CASE v # w
    BY <2>2, <1>2 DEF IInv, PendingInOrder
  <2> QED
    BY <2>1, <2>2
<1>11. DownOwnsNothing'
  <2> SUFFICES ASSUME NEW p \in Partitions, owner'[p] # NoWorker PROVE pc'[owner'[p]] # "down"
    BY DEF DownOwnsNothing
  <2>1. owner'[p] = owner[p] /\ owner[p] \in Workers /\ owner[p] # w
    BY <1>0, <1>4 DEF TypeOK
  <2> QED
    BY <2>1, <1>2 DEF IInv, DownOwnsNothing
<1>12. SeenIsSettled' /\ PublishedAreStored'
  BY <1>1, <1>3 DEF IInv, SeenIsSettled, PublishedAreStored
<1> QED
  BY <1>5, <1>7, <1>8, <1>9, <1>10, <1>11, <1>12 DEF IInv

\* A signal and the expiry of the set change nothing a position stands for.
LEMMA QuietIInv ==
    ASSUME IInv,
           \/ \E w \in Workers : Sigterm(w)
           \/ SeenExpires
           \/ UNCHANGED vars
    PROVE  IInv'
<1>1. /\ UNCHANGED <<log, committed, owner, position, pc, pending, stored, published,
                     detected, redetected, orphaned, abandoned, skipped>>
      /\ stopping' \in [Workers -> BOOLEAN] /\ seen' \subseteq seen
      /\ faults' \in [FaultKinds -> Nat]
  <2>1. TypeOK
    BY DEF IInv
  <2>2. CASE \E w \in Workers : Sigterm(w)
    BY <2>1, <2>2, StrikeType DEF Sigterm, FaultKinds, TypeOK, brokerVars, storeVars, historyVars
  <2>3. CASE SeenExpires
    BY <2>1, <2>3, StrikeType DEF SeenExpires, FaultKinds, TypeOK, brokerVars, workerVars, historyVars
  <2>4. CASE UNCHANGED vars
    BY <2>1, <2>4 DEF TypeOK, vars, brokerVars, workerVars, storeVars, historyVars
  <2> QED
    BY <2>2, <2>3, <2>4
<1>2. Slots' = Slots /\ \A s : Msg(s)' = Msg(s)
  BY <1>1, LogFrame
<1>3. \A w \in Workers : Ids(pending[w])' = Ids(pending[w])
  BY <1>1, <1>2 DEF Ids
<1>4. Settled' = Settled
  BY <1>1, <1>3 DEF Settled, InFlight
<1>5. \A s : Accounted(s)' = Accounted(s)
  BY <1>1, <1>2, <1>4 DEF Accounted
<1>6. TypeOK'
  BY <1>1, <1>2 DEF IInv, TypeOK
<1>7. FetchedIsHandled' /\ NoSilentLoss'
  BY <1>1, <1>2, <1>5 DEF IInv, FetchedIsHandled, FetchedSlots, NoSilentLoss, CommittedSlots
<1>8. PositionsInOrder' /\ DownOwnsNothing' /\ PendingInOrder'
  BY <1>1, <1>3 DEF IInv, PositionsInOrder, DownOwnsNothing, PendingInOrder
<1>9. SeenIsSettled' /\ PublishedAreStored'
  BY <1>1, <1>4 DEF IInv, SeenIsSettled, PublishedAreStored
<1> QED
  BY <1>6, <1>7, <1>8, <1>9 DEF IInv
-----------------------------------------------------------------------------
LEMMA NextIInv == IInv /\ [Next]_vars => IInv'
<1> SUFFICES ASSUME IInv, [Next]_vars PROVE IInv'
  OBVIOUS
<1>1. CASE \E p \in Partitions, m \in Messages : Produce(p, m)
  BY <1>1, ProduceIInv
<1>2. CASE Reassign \/ Rebalance
  BY <1>2, ReassignIInv
<1>3. ASSUME NEW w \in Workers, Start(w) PROVE IInv'
  BY <1>3, StartIInv
<1>4. ASSUME NEW w \in Workers, Step(w) PROVE IInv'
  BY <1>4, PollIInv, CheckSeenIInv, MarkSeenIInv, DetectIInv, PersistIInv, PublishIInv, CommitIInv
     DEF Step
<1>5. ASSUME NEW w \in Workers, BatchFails(w) PROVE IInv'
  BY <1>5, BatchFailsIInv
<1>6. ASSUME NEW w \in Workers, Crash(w) PROVE IInv'
  BY <1>6, CrashIInv
<1>7. CASE (\E w \in Workers : Sigterm(w)) \/ SeenExpires \/ UNCHANGED vars
  BY <1>7, QuietIInv
<1> QED
  BY <1>1, <1>2, <1>3, <1>4, <1>5, <1>6, <1>7 DEF Next

(***************************************************************************)
(* The inductive invariant of the stream processor: what every fetch       *)
(* position, Redis mark and batch in flight stands for.                    *)
(***************************************************************************)
THEOREM Invariance == Spec => []IInv
  BY InitIInv, NextIInv, PTL DEF Spec

(***************************************************************************)
(* A valid event the group has committed past is a row, in flight, or was  *)
(* hit by one of the three known faults, for any number of workers,        *)
(* partitions, messages and faults.                                        *)
(***************************************************************************)
THEOREM NoSilentLossHolds == Spec => []NoSilentLoss
<1>1. IInv => NoSilentLoss
  BY DEF IInv
<1> QED
  BY <1>1, Invariance, PTL

(***************************************************************************)
(* No subscriber ever hears of an event that is not in the database.       *)
(***************************************************************************)
THEOREM PublishedAreStoredHolds == Spec => []PublishedAreStored
<1>1. IInv => PublishedAreStored
  BY DEF IInv
<1> QED
  BY <1>1, Invariance, PTL

(***************************************************************************)
(* No step of the group takes a committed offset backwards.                *)
(***************************************************************************)
THEOREM OffsetsNeverRegressHolds == Spec => OffsetsNeverRegress
<1>1. ASSUME IInv, [Next]_vars
      PROVE  [\A p \in Partitions : committed[p] <= committed'[p]]_committed
  <2>0. TypeOK /\ PositionsInOrder
    BY <1>1 DEF IInv
  <2>1. \A p \in Partitions : committed[p] \in Int /\ position[p] \in Int
    BY <2>0 DEF TypeOK, NoOffset
  <2>2. ASSUME NEW w \in Workers, Commit(w), NEW p \in Partitions
        PROVE  committed[p] <= committed'[p]
    <3>1. committed'[p] = IF owner[p] = w THEN position[p] ELSE committed[p]
      BY <2>2 DEF Commit
    <3>2. owner[p] = w => committed[p] <= position[p]
      BY <2>0, StreamAssumption DEF PositionsInOrder
    <3> QED
      BY <3>1, <3>2, <2>1
  <2>3. CASE \A w \in Workers : ~Commit(w)
    <3>1. CASE UNCHANGED vars
      BY <3>1 DEF vars, brokerVars
    <3>2. ASSUME NEW w \in Workers, Step(w) PROVE UNCHANGED committed
      BY <3>2, <2>3 DEF Step, Poll, CheckSeen, MarkSeen, Detect, Persist, Publish, brokerVars
    <3>3. ASSUME NEW w \in Workers, Start(w) \/ BatchFails(w) \/ Crash(w) \/ Sigterm(w)
          PROVE  UNCHANGED committed
      BY <3>3 DEF Start, BatchFails, Crash, Sigterm, brokerVars
    <3>4. ASSUME NEW p \in Partitions, NEW m \in Messages, Produce(p, m) PROVE UNCHANGED committed
      BY <3>4 DEF Produce
    <3>5. CASE Reassign \/ Rebalance \/ SeenExpires
      BY <3>5 DEF Reassign, Rebalance, SeenExpires, brokerVars
    <3> QED
      BY <1>1, <3>1, <3>2, <3>3, <3>4, <3>5 DEF Next
  <2> QED
    BY <2>2, <2>3
<1> QED
  BY <1>1, Invariance, PTL DEF Spec, OffsetsNeverRegress
=============================================================================
