-------------------------- MODULE StreamOnceProofs --------------------------
(***************************************************************************)
(* What the dedup set is good for: with one worker whose set does not      *)
(* expire, an event is evaluated once however often it is redelivered.     *)
(***************************************************************************)
EXTENDS StreamProcessorProofs

\* What the worker has evaluated is marked; what it is about to mark is not, and
\* what it is about to evaluate is marked and was not evaluated before.
FreshBatch ==
    \A w \in Workers :
        /\ pc[w] = "mark" => Ids(pending[w]) \cap seen = {}
        /\ pc[w] = "detect" => Ids(pending[w]) \subseteq seen /\ Ids(pending[w]) \cap detected = {}

OnceInv == detected \subseteq seen /\ FreshBatch /\ RedeliveryEvaluatesOnce

\* No step takes a message off the topic.
LEMMA SlotsStay ==
    ASSUME IInv, [Next]_vars
    PROVE  Slots \subseteq Slots' /\ \A s \in Slots : Msg(s)' = Msg(s)
<1>1. CASE \E p \in Partitions, m \in Messages : Produce(p, m)
  BY <1>1, ProduceFacts DEF IInv
<1>2. CASE log' = log
  BY <1>2, LogFrame
<1>3. ASSUME NEW w \in Workers, Step(w) PROVE log' = log
  BY <1>3 DEF Step, Poll, CheckSeen, MarkSeen, Detect, Persist, Publish, Commit, brokerVars
<1>4. ASSUME NEW w \in Workers, Start(w) \/ BatchFails(w) \/ Crash(w) \/ Sigterm(w)
      PROVE  log' = log
  BY <1>4 DEF Start, BatchFails, Crash, Sigterm, brokerVars
<1>5. ASSUME Reassign \/ Rebalance \/ SeenExpires \/ UNCHANGED vars PROVE log' = log
  BY <1>5 DEF Reassign, Rebalance, SeenExpires, vars, brokerVars
<1> QED
  BY <1>1, <1>2, <1>3, <1>4, <1>5 DEF Next

\* Two slots with the same event stay where they are.
LEMMA DuplicatesStay ==
    ASSUME IInv, [Next]_vars,
           \A e \in redetected' : \/ e \in redetected
                                  \/ \E s, t \in Slots : s # t /\ Msg(s) = e /\ Msg(t) = e,
           RedeliveryEvaluatesOnce
    PROVE  RedeliveryEvaluatesOnce'
  BY SlotsStay DEF RedeliveryEvaluatesOnce

\* Steps that mark and evaluate nothing, and let no batch into either stage.
LEMMA OnceFrame ==
    ASSUME IInv, OnceInv, [Next]_vars,
           detected' = detected, redetected' = redetected, seen' = seen,
           \A w \in Workers : pc'[w] \in {"mark", "detect"}
                                => pc'[w] = pc[w] /\ pending'[w] = pending[w]
    PROVE  OnceInv'
<1>1. RedeliveryEvaluatesOnce'
  BY DuplicatesStay DEF OnceInv
<1>2. ASSUME NEW w \in Workers, pc'[w] \in {"mark", "detect"}
      PROVE  Ids(pending[w])' = Ids(pending[w])
  <2>1. pending[w] \subseteq Slots
    BY DEF IInv, TypeOK
  <2> QED
    BY <2>1, <1>2, SlotsStay DEF Ids
<1> QED
  BY <1>1, <1>2 DEF OnceInv, FreshBatch

LEMMA CheckSeenOnce ==
    ASSUME IInv, OnceInv, [Next]_vars, NEW w \in Workers, CheckSeen(w)
    PROVE  OnceInv'
<1>1. /\ UNCHANGED <<log, seen, detected, redetected>>
      /\ pending'[w] = {s \in pending[w] : Msg(s) \notin seen}
      /\ pc'[w] \in {"commit", "mark"}
      /\ \A v \in Workers : v # w => pc'[v] = pc[v] /\ pending'[v] = pending[v]
  BY DEF CheckSeen, Goto, IInv, TypeOK, brokerVars, storeVars, historyVars
<1>2. RedeliveryEvaluatesOnce'
  BY <1>1, DuplicatesStay DEF OnceInv
<1>3. ASSUME NEW v \in Workers PROVE Ids(pending[v])' = {Msg(s) : s \in pending'[v]}
  BY <1>1, LogFrame DEF Ids
<1>4. FreshBatch'
  BY <1>1, <1>3 DEF OnceInv, FreshBatch, Ids
<1> QED
  BY <1>1, <1>2, <1>4 DEF OnceInv

\* There is nobody else whose batch the marks could belong to.
LEMMA MarkSeenOnce ==
    ASSUME \A v, u \in Workers : v = u,
           IInv, OnceInv, [Next]_vars, NEW w \in Workers, MarkSeen(w)
    PROVE  OnceInv'
<1>1. /\ pc[w] = "mark" /\ pc'[w] = "detect"
      /\ seen' = seen \cup Ids(pending[w])
      /\ UNCHANGED <<log, pending, detected, redetected>>
  BY DEF MarkSeen, Goto, IInv, TypeOK, brokerVars, historyVars
<1>2. RedeliveryEvaluatesOnce'
  BY <1>1, DuplicatesStay DEF OnceInv
<1>3. Ids(pending[w])' = Ids(pending[w])
  BY <1>1, LogFrame DEF Ids
<1>4. Ids(pending[w]) \cap detected = {}
  BY <1>1 DEF OnceInv, FreshBatch
<1> QED
  BY <1>1, <1>2, <1>3, <1>4 DEF OnceInv, FreshBatch

\* Only an event the batch holds twice is evaluated twice.
LEMMA DetectOnce ==
    ASSUME \A v, u \in Workers : v = u,
           IInv, OnceInv, [Next]_vars, NEW w \in Workers, Detect(w)
    PROVE  OnceInv'
<1> DEFINE again == {Msg(s) : s \in {t \in pending[w] :
                        \/ Msg(t) \in detected
                        \/ \E u \in pending[w] : u # t /\ Msg(u) = Msg(t)}}
<1>1. /\ pc[w] = "detect" /\ pc'[w] = "persist"
      /\ detected' = detected \cup Ids(pending[w])
      /\ redetected' = redetected \cup again
      /\ UNCHANGED <<log, pending, seen>>
  BY DEF Detect, Goto, IInv, TypeOK, brokerVars, storeVars
<1>2. Ids(pending[w]) \subseteq seen /\ Ids(pending[w]) \cap detected = {}
  BY <1>1 DEF OnceInv, FreshBatch
<1>3. ASSUME NEW e \in again PROVE \E s, t \in Slots : s # t /\ Msg(s) = e /\ Msg(t) = e
  <2>1. pending[w] \subseteq Slots
    BY DEF IInv, TypeOK
  <2>2. \A t \in pending[w] : Msg(t) \notin detected
    BY <1>2 DEF Ids
  <2> QED
    BY <2>1, <2>2
<1>4. RedeliveryEvaluatesOnce'
  BY <1>1, <1>3, DuplicatesStay DEF OnceInv
<1> QED
  BY <1>1, <1>2, <1>4 DEF OnceInv, FreshBatch

LEMMA NextOnce ==
    ASSUME \A v, u \in Workers : v = u, FaultLimit["expire"] = 0,
           IInv, OnceInv, [Next]_vars
    PROVE  OnceInv'
<1>1. ASSUME NEW w \in Workers, CheckSeen(w) \/ MarkSeen(w) \/ Detect(w) PROVE OnceInv'
  BY <1>1, CheckSeenOnce, MarkSeenOnce, DetectOnce
<1>2. ASSUME NEW w \in Workers,
             Poll(w) \/ Persist(w) \/ Publish(w) \/ Commit(w) \/ Start(w)
               \/ BatchFails(w) \/ Crash(w) \/ Sigterm(w)
      PROVE  OnceInv'
  <2>1. UNCHANGED <<detected, redetected, seen>>
    BY <1>2 DEF Poll, Persist, Publish, Commit, Start, BatchFails, Crash, Sigterm,
                storeVars, historyVars
  <2>2. TypeOK
    BY DEF IInv
  <2>3. ASSUME NEW v \in Workers, pc'[v] \in {"mark", "detect"}
        PROVE  pc'[v] = pc[v] /\ pending'[v] = pending[v]
    <3>1. CASE Poll(w)
      BY <3>1, <2>2, <2>3 DEF Poll, TypeOK, workerVars
    <3>2. CASE Persist(w) \/ Publish(w) \/ Commit(w) \/ Start(w)
      BY <3>2, <2>2, <2>3 DEF Persist, Publish, Commit, Start, Goto, TypeOK
    <3>3. CASE BatchFails(w) \/ Crash(w) \/ Sigterm(w)
      BY <3>3, <2>2, <2>3 DEF BatchFails, Crash, Sigterm, TypeOK
    <3> QED
      BY <1>2, <3>1, <3>2, <3>3
  <2> QED
    BY <2>1, <2>3, OnceFrame
<1>3. ~SeenExpires
  <2>1. faults["expire"] \in Nat
    BY DEF IInv, TypeOK, FaultKinds
  <2> QED
    BY <2>1 DEF SeenExpires, Strike
<1>4. CASE \/ \E p \in Partitions, m \in Messages : Produce(p, m)
           \/ Reassign \/ Rebalance \/ UNCHANGED vars
  <2>1. UNCHANGED <<detected, redetected, seen, pc, pending>>
    BY <1>4 DEF Produce, Reassign, Rebalance, vars, workerVars, storeVars, historyVars
  <2> QED
    BY <2>1, OnceFrame
<1> QED
  BY <1>1, <1>2, <1>3, <1>4 DEF Next, Step

(***************************************************************************)
(* With one worker and a dedup set that does not expire, an event the      *)
(* engine evaluates twice is in the topic twice: no crash, failed batch,   *)
(* signal or rebalance makes the sliding windows count a redelivery        *)
(* (pipeline.py:88-107).                                                   *)
(***************************************************************************)
THEOREM RedeliveryEvaluatesOnceHolds ==
    ASSUME \A v, u \in Workers : v = u, FaultLimit["expire"] = 0
    PROVE  Spec => []RedeliveryEvaluatesOnce
<1>1. Init => OnceInv
  BY DEF Init, OnceInv, FreshBatch, RedeliveryEvaluatesOnce
<1>2. IInv /\ OnceInv /\ [Next]_vars => OnceInv'
  BY NextOnce
<1>3. OnceInv => RedeliveryEvaluatesOnce
  BY DEF OnceInv
<1> QED
  BY <1>1, <1>2, <1>3, Invariance, PTL DEF Spec
=============================================================================
