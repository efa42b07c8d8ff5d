--------------------------- MODULE AlertFeedProofs ---------------------------
(***************************************************************************)
(* Proofs about AlertFeed, for any number of workers, analysts, browsers,  *)
(* alerts and keys, and any plan.  The feed only watches the triage: what  *)
(* is proved of AlertTriage holds here as well.  What a screen shows is    *)
(* then followed back along the way a message takes to it: from the row    *)
(* that is flushed into the outbox of the transaction, into the batch to   *)
(* publish, into the inbox of the socket, onto the screen.                 *)
(***************************************************************************)
EXTENDS AlertFeed, AlertTriageProofs, WellFoundedInduction

(***************************************************************************)
(* The feed writes no variable of the triage.                              *)
(***************************************************************************)
LEMMA FeedStepTriage == [FeedNext]_allVars => [Next]_vars
<1> SUFFICES ASSUME [FeedNext]_allVars PROVE [Next]_vars
  OBVIOUS
<1>1. ASSUME NEW w \in Workers, FeedLookup(w) \/ FeedApply(w) \/ FeedCommit(w) \/ FeedRollback(w)
      PROVE  Lookup(w) \/ Insert(w) \/ Fold(w) \/ Commit(w) \/ Rollback(w)
  BY <1>1 DEF FeedLookup, FeedApply, FeedCommit, FeedRollback
<1>2. ASSUME NEW w \in Workers, QuietBatch(w) \/ Publish(w) \/ PublishFails(w)
      PROVE  UNCHANGED vars
  BY <1>2 DEF QuietBatch, Publish, PublishFails
<1>3. ASSUME NEW x \in Analysts, FeedPatchRead(x) \/ FeedPatchWrite(x) \/ FeedPatchRefused(x)
      PROVE  PatchRead(x) \/ PatchWrite(x) \/ PatchRefused(x)
  BY <1>3 DEF FeedPatchRead, FeedPatchWrite, FeedPatchRefused
<1>4. ASSUME NEW x \in Analysts, FeedPatchSame(x) \/ PublishMove(x) \/ PublishMoveFails(x)
      PROVE  UNCHANGED vars
  BY <1>4 DEF FeedPatchSame, PublishMove, PublishMoveFails
<1>5. ASSUME NEW b \in Browsers,
             \/ Connect(b) \/ Subscribe(b) \/ Receive(b) \/ Disconnect(b)
             \/ Pause(b) \/ Resume(b) \/ ClearEvents(b)
      PROVE  UNCHANGED vars
  BY <1>5 DEF Connect, Subscribe, Receive, Disconnect, Pause, Resume, ClearEvents, Drop
<1>6. CASE UNCHANGED allVars
  BY <1>6 DEF allVars
<1> QED
  BY <1>1, <1>2, <1>3, <1>4, <1>5, <1>6 DEF FeedNext, Next

(***************************************************************************)
(* Every behaviour of the feed is one of the triage: publishing after the  *)
(* commit, the sockets and the screens (streaming/pipeline.py,             *)
(* api/routes/realtime.py) never touch an alert.                           *)
(***************************************************************************)
THEOREM FeedImplementsTriage == FeedSpec => Spec
<1>1. FeedInit => Init
  BY DEF FeedInit
<1> QED
  BY <1>1, FeedStepTriage, PTL DEF FeedSpec, Spec

LEMMA FeedInvariance == FeedSpec => []IInv
  BY FeedImplementsTriage, Invariance, PTL

(***************************************************************************)
(* With the feed around it, one analyst still only makes moves the         *)
(* workflow allows (services/alerts.py:62-68).                             *)
(***************************************************************************)
THEOREM FeedAllowedTransitionsHolds ==
    ASSUME \A x, y \in Analysts : x = y
    PROVE  FeedSpec => OnlyAllowedTransitions
<1>1. Spec => OnlyAllowedTransitions
  BY OnlyAllowedTransitionsHolds
<1> QED
  BY <1>1, FeedImplementsTriage

(***************************************************************************)
(* With the feed around it, one worker and one analyst still never have    *)
(* two active alerts of a key without a reopening                          *)
(* (detection/correlation.py:32-61).                                       *)
(***************************************************************************)
THEOREM FeedTwoActiveHolds ==
    ASSUME \A v, w \in Workers : v = w, \A x, y \in Analysts : x = y
    PROVE  FeedSpec => []TwoActiveMeansReopened
<1>1. Spec => []TwoActiveMeansReopened
  BY TwoActiveMeansReopenedHolds
<1> QED
  BY <1>1, FeedImplementsTriage

(***************************************************************************)
(* Nor does the feed make one worker lose a detection: every committed one *)
(* is in the counts of its key (detection/correlation.py:6).               *)
(***************************************************************************)
THEOREM FeedCountsHolds ==
    ASSUME \A v, w \in Workers : v = w
    PROVE  FeedSpec => []CountsEveryDetection
<1>1. Spec => []CountsEveryDetection
  BY CountsEveryDetectionHolds
<1> QED
  BY <1>1, FeedImplementsTriage
-----------------------------------------------------------------------------
(***************************************************************************)
(* Lists.                                                                  *)
(***************************************************************************)
LEMMA EntriesFacts ==
    ASSUME NEW S, NEW s \in Seq(S)
    PROVE  /\ Entries(s) \subseteq S
           /\ \A x : Entries(Append(s, x)) = Entries(s) \cup {x}
           /\ s # <<>> => Head(s) \in Entries(s) /\ Entries(s) = Entries(Tail(s)) \cup {Head(s)}
           /\ \A x : Entries(<<x>> \o s) = Entries(s) \cup {x}
<1>1. Entries(s) \subseteq S
  BY DEF Entries
<1>2. ASSUME NEW x PROVE Entries(Append(s, x)) = Entries(s) \cup {x}
  <2>1. /\ DOMAIN Append(s, x) = DOMAIN s \cup {Len(s) + 1}
        /\ \A i \in DOMAIN s : Append(s, x)[i] = s[i]
        /\ Append(s, x)[Len(s) + 1] = x
    <3>1. s \in Seq(S \cup {x}) /\ x \in S \cup {x}
      OBVIOUS
    <3> QED
      BY <3>1
  <2> QED
    BY <2>1 DEF Entries
<1>3. ASSUME s # <<>> PROVE Head(s) \in Entries(s) /\ Entries(s) = Entries(Tail(s)) \cup {Head(s)}
  <2>1. /\ Len(s) \in Nat /\ Len(s) > 0 /\ DOMAIN s = 1..Len(s) /\ Head(s) = s[1]
        /\ DOMAIN Tail(s) = 1..(Len(s) - 1) /\ \A i \in 1..(Len(s) - 1) : Tail(s)[i] = s[i + 1]
    BY <1>3
  <2>2. Head(s) \in Entries(s)
    BY <2>1 DEF Entries
  <2>3. Entries(Tail(s)) \subseteq Entries(s)
    BY <2>1 DEF Entries
  <2>4. ASSUME NEW i \in 1..Len(s), i # 1 PROVE s[i] \in Entries(Tail(s))
    <3>1. i - 1 \in 1..(Len(s) - 1) /\ Tail(s)[i - 1] = s[i]
      BY <2>1, <2>4
    <3> QED
      BY <2>1, <3>1 DEF Entries
  <2> QED
    BY <2>1, <2>2, <2>3, <2>4 DEF Entries
<1>4. ASSUME NEW x PROVE Entries(<<x>> \o s) = Entries(s) \cup {x}
  <2>1. /\ Len(s) \in Nat /\ DOMAIN s = 1..Len(s) /\ DOMAIN (<<x>> \o s) = 1..(Len(s) + 1)
        /\ (<<x>> \o s)[1] = x
        /\ \A i \in 1..Len(s) : (<<x>> \o s)[i + 1] = s[i]
    <3>1. s \in Seq(S \cup {x}) /\ <<x>> \in Seq(S \cup {x}) /\ Len(<<x>>) = 1
      OBVIOUS
    <3> QED
      BY <3>1
  <2>2. \A i \in 1..(Len(s) + 1) : i # 1 => i - 1 \in 1..Len(s) /\ (<<x>> \o s)[i] = s[i - 1]
    <3> TAKE i \in 1..(Len(s) + 1)
    <3> HAVE i # 1
    <3>1. i - 1 \in 1..Len(s) /\ (i - 1) + 1 = i
      BY <2>1
    <3> QED
      BY <2>1, <3>1
  <2>3. 1 \in 1..(Len(s) + 1) /\ \A i \in 1..Len(s) : i + 1 \in 1..(Len(s) + 1)
    BY <2>1
  <2>4. Entries(<<x>> \o s) \subseteq Entries(s) \cup {x}
    BY <2>1, <2>2 DEF Entries
  <2>5. \A i \in 1..Len(s) : s[i] \in Entries(<<x>> \o s)
    BY <2>1, <2>3 DEF Entries
  <2>6. x \in Entries(<<x>> \o s)
    BY <2>1, <2>3 DEF Entries
  <2>7. Entries(s) \subseteq Entries(<<x>> \o s)
    BY <2>1, <2>5 DEF Entries
  <2> QED
    BY <2>4, <2>6, <2>7
<1> QED
  BY <1>1, <1>2, <1>3, <1>4

LEMMA FirstFacts ==
    ASSUME NEW S, NEW s \in Seq(S), NEW n \in Nat \ {0}
    PROVE  /\ First(s, n) \in Seq(S) /\ Len(First(s, n)) <= n
           /\ Len(First(s, n)) = IF Len(s) > n THEN n ELSE Len(s)
           /\ \A i \in DOMAIN First(s, n) : i \in DOMAIN s /\ First(s, n)[i] = s[i]
           /\ Entries(First(s, n)) \subseteq Entries(s)
<1>1. CASE Len(s) > n
  <2>1. /\ SubSeq(s, 1, n) \in Seq(S) /\ Len(SubSeq(s, 1, n)) = n
        /\ \A i \in 1..n : SubSeq(s, 1, n)[i] = s[i]
    BY <1>1
  <2> QED
    BY <1>1, <2>1 DEF First, Entries
<1>2. CASE ~(Len(s) > n)
  BY <1>2 DEF First, Entries
<1> QED
  BY <1>1, <1>2
\* Induction over the naturals, for a set.
LEMMA InductionOnSet ==
    ASSUME NEW T \in SUBSET Nat, 0 \in T, \A n \in T : n + 1 \in T
    PROVE  T = Nat
<1> DEFINE Others == Nat \ T
           Less == {pair \in Nat \X Nat : pair[1] < pair[2]}
<1> SUFFICES ASSUME Others # {} PROVE FALSE
  OBVIOUS
<1>1. IsWellFoundedOn(Less, Nat)
  BY NatLessThanWellFounded DEF OpToRel
<1>2. Others \subseteq Nat
  OBVIOUS
<1>3. PICK n \in Others : \A m \in Others : <<m, n>> \notin Less
  <2> HIDE DEF Others, Less
  <2> QED
    BY <1>1, <1>2, WFMin
<1>4. n - 1 \in Nat /\ <<n - 1, n>> \in Less
  BY <1>3
<1>5. n - 1 \in T
  BY <1>3, <1>4
<1> QED
  BY <1>3, <1>5, (n - 1) + 1 = n

\* The recursive function behind Without: what is kept of the first i entries.
LEMMA WithoutUnfolds ==
    ASSUME NEW S, NEW list \in Seq(S), NEW a
    PROVE  \E kept :
              /\ Without(a, list) = kept[Len(list)]
              /\ \A i \in 0..Len(list) :
                   kept[i] = IF i = 0 THEN <<>>
                             ELSE IF list[i].alert = a THEN kept[i - 1] ELSE Append(kept[i - 1], list[i])
<1> DEFINE N == Len(list)
           Step(f, i) == IF i = 0 THEN <<>>
                         ELSE IF list[i].alert = a THEN f[i - 1] ELSE Append(f[i - 1], list[i])
           kept == CHOOSE f : f = [i \in 0..N |-> Step(f, i)]
<1>0. N \in Nat /\ \A i \in 1..N : list[i] \in S
  OBVIOUS
<1>1. \E f : f = [i \in 0..N |-> Step(f, i)]
  <2> DEFINE Runs(n, f) == \A i \in 0..n : f[i] = Step(f, i)
             Starts(n) == \E f \in [0..n -> Seq(S)] : Runs(n, f)
             T == {n \in Nat : n <= N => Starts(n)}
  <2>1. Starts(0)
    <3> DEFINE f == [i \in 0..0 |-> <<>>]
    <3>1. f \in [0..0 -> Seq(S)] /\ Runs(0, f)
      OBVIOUS
    <3> QED
      BY <3>1
  <2>2. ASSUME NEW n \in Nat, n + 1 <= N, Starts(n) PROVE Starts(n + 1)
    <3>1. PICK f \in [0..n -> Seq(S)] : Runs(n, f)
      BY <2>2
    <3> DEFINE last == IF list[n + 1].alert = a THEN f[n] ELSE Append(f[n], list[n + 1])
               g == [i \in 0..(n + 1) |-> IF i = n + 1 THEN last ELSE f[i]]
    <3>2. last \in Seq(S)
      BY <1>0, <2>2, <3>1
    <3>3. g \in [0..(n + 1) -> Seq(S)]
      <4> HIDE DEF last
      <4> QED
        BY <2>2, <3>1, <3>2
    <3>4. g[n + 1] = Step(g, n + 1)
      BY <2>2, <3>1
    <3>5. ASSUME NEW i \in 0..n PROVE g[i] = Step(g, i)
      <4>1. g[i] = f[i] /\ (i # 0 => g[i - 1] = f[i - 1])
        <5> HIDE DEF last
        <5> QED
          BY <2>2, <3>5
      <4> QED
        BY <3>1, <4>1
    <3>6. \A i \in 0..(n + 1) : i \in 0..n \/ i = n + 1
      BY <2>2
    <3> HIDE DEF g, Step
    <3>7. Runs(n + 1, g)
      BY <3>4, <3>5, <3>6
    <3> HIDE DEF Runs
    <3> QED
      BY <3>3, <3>7
  <2> HIDE DEF Starts
  <2>3. T \in SUBSET Nat /\ 0 \in T /\ \A n \in T : n + 1 \in T
    BY <1>0, <2>1, <2>2
  <2>4. N \in T
    <3> HIDE DEF T
    <3> QED
      BY <1>0, <2>3, InductionOnSet
  <2>5. PICK f \in [0..N -> Seq(S)] : Runs(N, f)
    BY <1>0, <2>4 DEF Starts
  <2>6. f = [i \in 0..N |-> Step(f, i)]
    <3> HIDE DEF Step
    <3> QED
      BY <2>5
  <2> HIDE DEF Step
  <2> QED
    BY <2>6
<1>2. kept = [i \in 0..N |-> Step(kept, i)]
  <2> HIDE DEF Step
  <2> QED
    BY <1>1
<1>3. Without(a, list) = kept[N]
  BY DEF Without
<1> HIDE DEF kept
<1>4. \A i \in 0..N : kept[i] = Step(kept, i)
  <2> HIDE DEF Step
  <2> QED
    BY <1>2
<1> QED
  BY <1>3, <1>4 DEF Step

\* Without takes the entries of the alert out, and nothing else.
LEMMA WithoutFacts ==
    ASSUME NEW S, NEW list \in Seq(S), NEW a
    PROVE  /\ Without(a, list) \in Seq(S)
           /\ Entries(Without(a, list)) = {m \in Entries(list) : m.alert # a}
<1> DEFINE N == Len(list)
           Step(f, i) == IF i = 0 THEN <<>>
                         ELSE IF list[i].alert = a THEN f[i - 1] ELSE Append(f[i - 1], list[i])
<1>0. N \in Nat /\ \A i \in 1..N : list[i] \in S
  OBVIOUS
<1>1. PICK kept : Without(a, list) = kept[N] /\ \A i \in 0..N : kept[i] = Step(kept, i)
  BY WithoutUnfolds
<1>3. Without(a, list) = kept[N]
  BY <1>1
<1>4. \A i \in 0..N : kept[i] = Step(kept, i)
  BY <1>1
<1> DEFINE Left(n) == {m \in {list[j] : j \in 1..n} : m.alert # a}
           Holds(n) == kept[n] \in Seq(S) /\ Entries(kept[n]) = Left(n)
           T == {n \in Nat : n <= N => Holds(n)}
<1>5. Holds(0)
  <2>1. kept[0] = <<>>
    BY <1>0, <1>4
  <2> QED
    BY <2>1 DEF Entries
<1>6. ASSUME NEW n \in Nat, n + 1 <= N, Holds(n) PROVE Holds(n + 1)
  <2>1. n + 1 \in 0..N /\ n + 1 \in 1..N /\ n + 1 # 0 /\ (n + 1) - 1 = n
    BY <1>0, <1>6
  <2>2. kept[n + 1] = IF list[n + 1].alert = a THEN kept[n] ELSE Append(kept[n], list[n + 1])
    BY <1>4, <2>1
  <2>3. kept[n + 1] \in Seq(S)
    BY <1>0, <1>6, <2>1, <2>2
  <2>4. {list[j] : j \in 1..(n + 1)} = {list[j] : j \in 1..n} \cup {list[n + 1]}
    <3>1. 1..(n + 1) = (1..n) \cup {n + 1}
      BY <1>6
    <3> QED
      BY <3>1
  <2>5. Left(n + 1) = IF list[n + 1].alert = a THEN Left(n) ELSE Left(n) \cup {list[n + 1]}
    BY <2>4
  <2>6. Entries(kept[n + 1]) = Left(n + 1)
    <3>1. \A x : Entries(Append(kept[n], x)) = Entries(kept[n]) \cup {x}
      BY <1>6, EntriesFacts
    <3> HIDE DEF Left
    <3> QED
      BY <1>6, <2>2, <2>5, <3>1
  <2> QED
    BY <2>3, <2>6
<1> HIDE DEF Holds
<1>7. T \in SUBSET Nat /\ 0 \in T /\ \A n \in T : n + 1 \in T
  BY <1>0, <1>5, <1>6
<1>8. Holds(N)
  <2>1. T = Nat
    <3> HIDE DEF T
    <3> QED
      BY <1>7, InductionOnSet
  <2> QED
    BY <1>0, <2>1
<1>9. Left(N) = {m \in Entries(list) : m.alert # a}
  BY <1>0 DEF Entries
<1> QED
  BY <1>0, <1>3, <1>8, <1>9 DEF Holds
\* What a message makes of the list: itself on top, the other alerts below it, and
\* none of them lost unless the list is full.
LEMMA ListedFacts ==
    ASSUME NEW m \in News, NEW list \in Seq(News)
    PROVE  LET after == Listed(m, list)
               all == {n \in Entries(list) : n.alert # m.alert} \cup {m}
           IN  /\ after \in Seq(News) /\ Len(after) <= MaxAlerts
               /\ Entries(after) \subseteq all /\ m \in Entries(after)
               /\ Len(after) = MaxAlerts \/ Entries(after) = all
<1> DEFINE rest == Without(m.alert, list)
           whole == <<m>> \o rest
           all == {n \in Entries(list) : n.alert # m.alert} \cup {m}
<1>1. rest \in Seq(News) /\ Entries(rest) = {n \in Entries(list) : n.alert # m.alert}
  BY WithoutFacts
<1> HIDE DEF rest
<1>2. /\ whole \in Seq(News) /\ Len(whole) \in Nat /\ Len(whole) >= 1 /\ whole[1] = m
      /\ DOMAIN whole = 1..Len(whole)
  BY <1>1
<1>3. Entries(whole) = all
  BY <1>1, EntriesFacts
<1> HIDE DEF whole, all
<1>4. MaxAlerts \in Nat \ {0}
  BY FeedAssumption
<1> DEFINE after == First(whole, MaxAlerts)
<1>5. /\ after \in Seq(News) /\ Len(after) <= MaxAlerts
      /\ Len(after) = IF Len(whole) > MaxAlerts THEN MaxAlerts ELSE Len(whole)
      /\ \A i \in DOMAIN after : i \in DOMAIN whole /\ after[i] = whole[i]
      /\ Entries(after) \subseteq Entries(whole)
  BY <1>2, <1>4, FirstFacts
<1>6. Len(whole) > MaxAlerts \/ after = whole
  BY DEF First
<1> HIDE DEF after
<1>7. 1 \in DOMAIN after
  BY <1>2, <1>4, <1>5
<1>8. m \in Entries(after)
  BY <1>2, <1>5, <1>7 DEF Entries
<1>9. after = Listed(m, list)
  BY DEF after, whole, rest, Listed
<1> QED
  BY <1>3, <1>4, <1>5, <1>6, <1>8, <1>9 DEF all
-----------------------------------------------------------------------------
\* The row a flush has written, as the outbox takes it.
LEMMA SnapshotFacts ==
    ASSUME IInv, NEW w \in Workers, Insert(w) \/ Fold(w)
    PROVE  \E a \in Alerts, row \in Row :
              /\ Flush(w, a, row)
              /\ a \in DOMAIN draft'[w] /\ draft'[w][a] = row
              /\ Snapshot(w) = Told(a, row.status, row.count)
<1>1. TypeOK /\ TypeOK'
  BY InsertIInv, FoldIInv DEF IInv
<1>2. CASE Insert(w)
  <2>0. PICK a \in Alerts \ Used :
          Flush(w, a, [key |-> hand[w].key, status |-> "open", count |-> hand[w].hint,
                       history |-> <<>>])
    BY <1>2 DEF Insert
  <2>1. PICK row : /\ Flush(w, a, row)
                   /\ row = [key |-> hand[w].key, status |-> "open", count |-> hand[w].hint,
                             history |-> <<>>]
    BY <2>0
  <2>2. DOMAIN draft'[w] = DOMAIN draft[w] \cup {a} /\ draft'[w][a] = row
    BY <1>1, <2>1, FlushFacts
  <2>3. a \notin DOMAIN draft[w]
    BY <2>1 DEF Used
  <2>4. (CHOOSE new \in DOMAIN draft'[w] : new \notin DOMAIN draft[w]) = a
    BY <2>2, <2>3
  <2>5. hand[w].found \notin Alerts
    BY <1>2, AlertAssumption DEF Insert
  <2>6. row \in Row
    BY <1>1, <2>2 DEF TypeOK, IsTable
  <2> QED
    BY <2>1, <2>2, <2>4, <2>5, <2>6 DEF Snapshot
<1>3. CASE Fold(w)
  <2> DEFINE a == hand[w].found
  <2>1. pc[w] = "apply" /\ a # NoAlert
    BY <1>3 DEF Fold
  <2>2. a \in Alerts
    BY <1>1, <2>1, ViewFacts DEF IInv, InHandExist, IsTable
  <2>3. PICK row \in Folded(hand[w].read, View(w)[a], hand[w].hint) : Flush(w, a, row)
    BY <1>3 DEF Fold
  <2>4. DOMAIN draft'[w] = DOMAIN draft[w] \cup {a} /\ draft'[w][a] = row
    BY <1>1, <2>3, FlushFacts
  <2>5. row \in Row
    BY <1>1, <2>4 DEF TypeOK, IsTable
  <2> QED
    BY <2>2, <2>3, <2>4, <2>5 DEF Snapshot
<1> QED
  BY <1>2, <1>3
(***************************************************************************)
(* The types, in two halves: the way to the browsers, and the screens.     *)
(* The numbers of the events under way are needed to type those shown.     *)
(***************************************************************************)
Pipes ==
    /\ outbox \in [Workers -> Seq(News)]
    /\ sending \in [Workers -> Seq(News \cup Batch)]
    /\ telling \in [Analysts -> News \cup {NoPatch}]
    /\ socket \in [Browsers -> {"offline", "accepted", "live"}]
    /\ inbox \in [Browsers -> Seq(News \cup Numbered)]
    /\ \A b \in Browsers : socket[b] = "offline" => inbox[b] = <<>>
    /\ published \in Nat
    /\ untold \in [Browsers -> SUBSET Alerts]
    /\ unheard \in [Browsers -> SUBSET Nat]
    /\ \A b \in Browsers : \A m \in Entries(inbox[b]) : m.kind = "event" => m.number <= published

Panes ==
    /\ shown \in [Browsers -> Seq(News)]
    /\ events \in [Browsers -> Seq(Nat)]
    /\ buffer \in [Browsers -> Seq(Nat)]
    /\ paused \in [Browsers -> BOOLEAN]
    /\ \A b \in Browsers :
        /\ Len(shown[b]) <= MaxAlerts
        /\ \A i \in 1..Len(events[b]) : events[b][i] \in 1..published
        /\ Len(events[b]) <= MaxEvents
        /\ \A i \in 1..Len(buffer[b]) : buffer[b][i] \in 1..published
        /\ Len(buffer[b]) <= MaxEvents
        /\ ~paused[b] => buffer[b] = <<>>

FeedTypes == Pipes /\ Panes

LEMMA FeedTypesMeaning == FeedTypes => FeedTypeOK
<1> SUFFICES ASSUME FeedTypes PROVE FeedTypeOK
  OBVIOUS
<1>1. \A s \in Seq(Nat) : (\A i \in 1..Len(s) : s[i] \in 1..published) => s \in Seq(1..published)
  <2> DEFINE R == 1..published
  <2> HIDE DEF R
  <2>1. \A s \in Seq(Nat) : (\A i \in 1..Len(s) : s[i] \in R) => s \in Seq(R)
    OBVIOUS
  <2> QED
    BY <2>1 DEF R
<1> QED
  BY <1>1 DEF FeedTypes, Pipes, Panes, FeedTypeOK

LEMMA InitFeedTypes == FeedInit => FeedTypes
<1> SUFFICES ASSUME FeedInit PROVE FeedTypes
  OBVIOUS
<1>1. \A S : <<>> \in Seq(S) /\ Len(<<>>) = 0 /\ Entries(<<>>) = {}
  BY DEF Entries
<1>2. Pipes
  BY <1>1 DEF FeedInit, Pipes
<1>3. Panes
  BY <1>1, FeedAssumption DEF FeedInit, Panes
<1> QED
  BY <1>2, <1>3 DEF FeedTypes

\* The screens do not change, and no event number is taken back.
LEMMA PanesStay ==
    ASSUME Panes, published \in Nat, published' \in Nat, published <= published',
           UNCHANGED screenVars
    PROVE  Panes'
  BY DEF Panes, screenVars

LEMMA BroadcastFacts ==
    ASSUME Pipes, NEW m \in News \cup Numbered, Broadcast(m)
    PROVE  /\ inbox' \in [Browsers -> Seq(News \cup Numbered)]
           /\ \A b \in Browsers :
                \/ socket[b] # "live" /\ inbox'[b] = inbox[b]
                \/ /\ socket[b] = "live" /\ inbox'[b] = Append(inbox[b], m)
                   /\ Entries(inbox'[b]) = Entries(inbox[b]) \cup {m}
<1>1. \A b \in Browsers :
        \/ socket[b] # "live" /\ inbox'[b] = inbox[b]
        \/ socket[b] = "live" /\ inbox'[b] = Append(inbox[b], m)
  BY DEF Broadcast, Deaf
<1>2. DOMAIN inbox' = Browsers /\ inbox' = [b \in Browsers |-> inbox'[b]]
  BY DEF Broadcast
<1>3. \A b \in Browsers : inbox[b] \in Seq(News \cup Numbered)
  BY DEF Pipes
<1>4. \A b \in Browsers : Entries(Append(inbox[b], m)) = Entries(inbox[b]) \cup {m}
  BY <1>3, EntriesFacts
<1>5. \A b \in Browsers : inbox'[b] \in Seq(News \cup Numbered)
  <2>1. \A b \in Browsers : Append(inbox[b], m) \in Seq(News \cup Numbered)
    BY <1>3
  <2> QED
    BY <1>1, <1>3, <2>1
<1> QED
  BY <1>1, <1>2, <1>4, <1>5

\* News that is published.
LEMMA PublishNewsTypes ==
    ASSUME FeedTypes, NEW m \in News, PublishNews(m), UNCHANGED <<outbox, socket, screenVars>>,
           sending' \in [Workers -> Seq(News \cup Batch)],
           telling' \in [Analysts -> News \cup {NoPatch}]
    PROVE  FeedTypes'
<1>1. Pipes /\ Panes /\ Broadcast(m) /\ published' = published /\ unheard' = unheard
  BY DEF FeedTypes, PublishNews
<1>2. m.kind = "alert" /\ m.alert \in Alerts
  BY DEF News
<1>3. /\ inbox' \in [Browsers -> Seq(News \cup Numbered)]
      /\ \A b \in Browsers :
           \/ socket[b] # "live" /\ inbox'[b] = inbox[b]
           \/ /\ socket[b] = "live" /\ inbox'[b] = Append(inbox[b], m)
              /\ Entries(inbox'[b]) = Entries(inbox[b]) \cup {m}
  BY <1>1, BroadcastFacts
<1>4. untold' \in [Browsers -> SUBSET Alerts]
  BY <1>1, <1>2 DEF PublishNews, Pipes
<1>5. \A b \in Browsers : socket[b] = "offline" => inbox'[b] = <<>>
  BY <1>1, <1>3 DEF Pipes
<1>6. \A b \in Browsers : \A n \in Entries(inbox'[b]) : n.kind = "event" => n.number <= published
  BY <1>1, <1>2, <1>3 DEF Pipes
<1>7. Pipes'
  BY <1>1, <1>3, <1>4, <1>5, <1>6 DEF Pipes
<1>8. Panes'
  BY <1>1, PanesStay DEF Pipes
<1> QED
  BY <1>7, <1>8 DEF FeedTypes

\* A batch of events that is published takes the next number.
LEMMA PublishEventsTypes ==
    ASSUME FeedTypes, PublishEvents, UNCHANGED <<outbox, telling, socket, screenVars>>,
           sending' \in [Workers -> Seq(News \cup Batch)]
    PROVE  FeedTypes'
<1> DEFINE m == [kind |-> "event", number |-> published + 1]
<1>1. Pipes /\ Panes /\ Broadcast(m) /\ published' = published + 1 /\ untold' = untold
  BY DEF FeedTypes, PublishEvents
<1>2. published \in Nat /\ m \in Numbered /\ m.number = published + 1
  BY <1>1 DEF Pipes, Numbered
<1> HIDE DEF m
<1>3. /\ inbox' \in [Browsers -> Seq(News \cup Numbered)]
      /\ \A b \in Browsers :
           \/ socket[b] # "live" /\ inbox'[b] = inbox[b]
           \/ /\ socket[b] = "live" /\ inbox'[b] = Append(inbox[b], m)
              /\ Entries(inbox'[b]) = Entries(inbox[b]) \cup {m}
  BY <1>1, <1>2, BroadcastFacts
<1>4. unheard' \in [Browsers -> SUBSET Nat]
  BY <1>1, <1>2 DEF PublishEvents, Pipes
<1>5. \A b \in Browsers : socket[b] = "offline" => inbox'[b] = <<>>
  BY <1>1, <1>3 DEF Pipes
<1>6. \A b \in Browsers : \A n \in Entries(inbox'[b]) : n.kind = "event" => n.number <= published + 1
  <2>1. \A b \in Browsers : \A n \in Entries(inbox[b]) : n.kind = "event" => n.number \in Nat
    <3> TAKE b \in Browsers
    <3>1. Entries(inbox[b]) \subseteq News \cup Numbered
      BY <1>1, EntriesFacts DEF Pipes
    <3> QED
      BY <3>1 DEF News, Numbered
  <2>2. \A b \in Browsers : \A n \in Entries(inbox[b]) : n.kind = "event" => n.number <= published
    BY <1>1 DEF Pipes
  <2>3. \A b \in Browsers : \A n \in Entries(inbox'[b]) : n \in Entries(inbox[b]) \/ n = m
    BY <1>3
  <2>4. m.number <= published + 1 /\ \A i \in Nat : i <= published => i <= published + 1
    BY <1>2
  <2> QED
    BY <2>1, <2>2, <2>3, <2>4
<1>7. Pipes'
  BY <1>1, <1>2, <1>3, <1>4, <1>5, <1>6 DEF Pipes
<1>8. Panes'
  BY <1>1, <1>2, PanesStay
<1> QED
  BY <1>7, <1>8 DEF FeedTypes
\* The steps that only prepare news or spend the plan: the screens stay.
LEMMA WorkerTypes ==
    ASSUME IInv, FeedTypes, NEW w \in Workers,
           FeedLookup(w) \/ FeedApply(w) \/ FeedCommit(w) \/ FeedRollback(w) \/ QuietBatch(w)
    PROVE  FeedTypes'
<1>1. UNCHANGED <<telling, socket, inbox, screenVars, published, unheard>>
  BY DEF FeedLookup, FeedApply, FeedCommit, FeedRollback, QuietBatch
<1>2. Pipes /\ Panes
  BY DEF FeedTypes
<1>3. outbox' \in [Workers -> Seq(News)]
  <2>1. CASE FeedApply(w)
    <3>1. PICK a \in Alerts, row \in Row : Snapshot(w) = Told(a, row.status, row.count)
      BY <2>1, SnapshotFacts DEF FeedApply
    <3>2. Told(a, row.status, row.count) \in News
      BY DEF Told, News, Row
    <3> QED
      BY <1>2, <2>1, <3>1, <3>2 DEF FeedApply, Pipes
  <2>2. CASE FeedCommit(w) \/ FeedRollback(w)
    <3>1. outbox' = [outbox EXCEPT ![w] = <<>>]
      BY <2>2 DEF FeedCommit, FeedRollback
    <3> QED
      BY <1>2, <3>1 DEF Pipes
  <2>3. CASE FeedLookup(w) \/ QuietBatch(w)
    BY <1>2, <2>3 DEF FeedLookup, QuietBatch, Pipes
  <2> QED
    BY <2>1, <2>2, <2>3
<1>4. sending' \in [Workers -> Seq(News \cup Batch)]
  <2> DEFINE e == [kind |-> "events"]
  <2>1. <<e>> \in Seq(News \cup Batch)
    BY DEF Batch
  <2>2. outbox[w] \in Seq(News \cup Batch)
    BY <1>2 DEF Pipes
  <2>3. <<e>> \o outbox[w] \in Seq(News \cup Batch)
    BY <2>1, <2>2
  <2> HIDE DEF e
  <2>4. CASE FeedCommit(w)
    BY <1>2, <2>3, <2>4 DEF FeedCommit, Pipes, e
  <2>5. CASE QuietBatch(w)
    BY <1>2, <2>1, <2>5 DEF QuietBatch, Pipes, e
  <2>6. CASE FeedLookup(w) \/ FeedApply(w) \/ FeedRollback(w)
    BY <1>2, <2>6 DEF FeedLookup, FeedApply, FeedRollback, Pipes
  <2> QED
    BY <2>4, <2>5, <2>6
<1>5. untold' \in [Browsers -> SUBSET Alerts]
  <2>1. CASE FeedCommit(w)
    <3>1. IsTable(draft[w])
      BY DEF IInv, TypeOK
    <3> QED
      BY <1>2, <2>1, <3>1 DEF FeedCommit, Doubt, Pipes, IsTable
  <2>2. CASE FeedLookup(w) \/ FeedApply(w) \/ FeedRollback(w) \/ QuietBatch(w)
    BY <1>2, <2>2 DEF FeedLookup, FeedApply, FeedRollback, QuietBatch, Pipes
  <2> QED
    BY <2>1, <2>2
<1>6. Pipes'
  BY <1>1, <1>2, <1>3, <1>4, <1>5 DEF Pipes
<1>7. Panes'
  BY <1>1, <1>2, PanesStay DEF Pipes
<1> QED
  BY <1>6, <1>7 DEF FeedTypes

\* News in a list is about alerts.
LEMMA AboutFacts ==
    ASSUME NEW s \in Seq(News \cup Batch \cup Numbered)
    PROVE  About(s) \subseteq Alerts
<1>1. Entries(s) \subseteq News \cup Batch \cup Numbered
  BY EntriesFacts
<1> QED
  BY <1>1 DEF About, News, Batch, Numbered

LEMMA PublishTypes ==
    ASSUME FeedTypes, NEW w \in Workers, Publish(w) \/ PublishFails(w)
    PROVE  FeedTypes'
<1>1. Pipes /\ Panes /\ sending[w] \in Seq(News \cup Batch) /\ sending[w] # <<>>
  BY DEF FeedTypes, Pipes, Publish, PublishFails
<1>2. CASE Publish(w)
  <2>1. Tail(sending[w]) \in Seq(News \cup Batch) /\ Head(sending[w]) \in News \cup Batch
    BY <1>1
  <2>2. sending' \in [Workers -> Seq(News \cup Batch)]
    BY <1>1, <1>2, <2>1 DEF Publish, Pipes
  <2>3. UNCHANGED <<outbox, telling, socket, screenVars>> /\ telling \in [Analysts -> News \cup {NoPatch}]
    BY <1>1, <1>2 DEF Publish, Pipes
  <2>4. CASE Head(sending[w]).kind = "alert"
    <3>1. Head(sending[w]) \in News /\ PublishNews(Head(sending[w]))
      BY <1>2, <2>1, <2>4 DEF Publish, Batch
    <3> QED
      BY <2>2, <2>3, <3>1, PublishNewsTypes
  <2>5. CASE Head(sending[w]).kind # "alert"
    <3>1. PublishEvents
      BY <1>2, <2>5 DEF Publish
    <3> QED
      BY <2>2, <2>3, <3>1, PublishEventsTypes
  <2> QED
    BY <2>4, <2>5
<1>3. CASE PublishFails(w)
  <2>1. UNCHANGED <<outbox, telling, socket, inbox, screenVars, published, unheard>>
    BY <1>3 DEF PublishFails
  <2>2. sending' \in [Workers -> Seq(News \cup Batch)]
    BY <1>1, <1>3 DEF PublishFails, Pipes
  <2>3. About(sending[w]) \subseteq Alerts
    <3>1. sending[w] \in Seq(News \cup Batch \cup Numbered)
      BY <1>1
    <3> QED
      BY <3>1, AboutFacts
  <2>4. untold' \in [Browsers -> SUBSET Alerts]
    BY <1>1, <1>3, <2>3 DEF PublishFails, Doubt, Pipes
  <2>5. Pipes'
    BY <1>1, <2>1, <2>2, <2>4 DEF Pipes
  <2>6. Panes'
    BY <1>1, <2>1, PanesStay DEF Pipes
  <2> QED
    BY <2>5, <2>6 DEF FeedTypes
<1> QED
  BY <1>2, <1>3

LEMMA RequestTypes ==
    ASSUME IInv, FeedTypes, NEW x \in Analysts,
           \/ FeedPatchRead(x) \/ FeedPatchSame(x) \/ FeedPatchWrite(x) \/ FeedPatchRefused(x)
           \/ PublishMove(x) \/ PublishMoveFails(x)
    PROVE  FeedTypes'
<1>1. Pipes /\ Panes
  BY DEF FeedTypes
<1>2. CASE PublishMove(x)
  <2>1. /\ telling[x] \in News /\ PublishNews(telling[x])
        /\ UNCHANGED <<outbox, sending, socket, screenVars>>
    BY <1>1, <1>2 DEF PublishMove, Pipes
  <2>2. sending' \in [Workers -> Seq(News \cup Batch)] /\ telling' \in [Analysts -> News \cup {NoPatch}]
    BY <1>1, <1>2 DEF PublishMove, Pipes
  <2> QED
    BY <2>1, <2>2, PublishNewsTypes
<1>3. CASE \/ FeedPatchRead(x) \/ FeedPatchSame(x) \/ FeedPatchWrite(x) \/ FeedPatchRefused(x) \/ PublishMoveFails(x)
  <2>1. UNCHANGED <<outbox, sending, socket, inbox, screenVars, published, unheard>>
    BY <1>3 DEF FeedPatchRead, FeedPatchSame, FeedPatchWrite, FeedPatchRefused, PublishMoveFails, feedVars
  <2>2. telling' \in [Analysts -> News \cup {NoPatch}] /\ untold' \in [Browsers -> SUBSET Alerts]
    <3>1. CASE FeedPatchWrite(x)
      <4>1. patch[x] \in Request
        BY <3>1 DEF FeedPatchWrite, PatchWrite, IInv, TypeOK
      <4>2. patch[x].alert \in Alerts /\ Told(patch[x].alert, patch[x].to, patch[x].read.count) \in News
        BY <4>1 DEF Request, Row, Told, News
      <4> QED
        BY <1>1, <3>1, <4>2 DEF FeedPatchWrite, Doubt, Pipes
    <3>2. CASE PublishMoveFails(x)
      <4>1. telling[x] \in News /\ telling[x].alert \in Alerts
        BY <1>1, <3>2 DEF PublishMoveFails, Pipes, News
      <4> QED
        BY <1>1, <3>2, <4>1 DEF PublishMoveFails, Doubt, Pipes
    <3>3. CASE FeedPatchRead(x) \/ FeedPatchRefused(x)
      BY <1>1, <3>3 DEF FeedPatchRead, FeedPatchRefused, feedVars, Pipes
    <3>4. CASE FeedPatchSame(x)
      <4>1. PICK a \in DOMAIN rows : telling' = [telling EXCEPT ![x] = Told(a, rows[a].status, rows[a].count)]
        BY <3>4 DEF FeedPatchSame
      <4>2. a \in Alerts /\ rows[a] \in Row
        BY DEF IInv, TypeOK, IsTable
      <4>3. Told(a, rows[a].status, rows[a].count) \in News
        BY <4>2 DEF Row, Told, News
      <4> QED
        BY <1>1, <3>4, <4>1, <4>3 DEF FeedPatchSame, Pipes
    <3> QED
      BY <1>3, <3>1, <3>2, <3>3, <3>4
  <2>3. Pipes'
    BY <1>1, <2>1, <2>2 DEF Pipes
  <2>4. Panes'
    BY <1>1, <2>1, PanesStay DEF Pipes
  <2> QED
    BY <2>3, <2>4 DEF FeedTypes
<1> QED
  BY <1>2, <1>3
LEMMA SocketTypes ==
    ASSUME FeedTypes, NEW b \in Browsers, Connect(b) \/ Subscribe(b) \/ Disconnect(b)
    PROVE  FeedTypes'
<1>1. Pipes /\ Panes
  BY DEF FeedTypes
<1>2. UNCHANGED <<outbox, sending, telling, screenVars, published>>
  BY DEF Connect, Subscribe, Disconnect
<1>3. /\ socket' \in [Browsers -> {"offline", "accepted", "live"}]
      /\ \A c \in Browsers : c # b => socket'[c] = socket[c] /\ inbox'[c] = inbox[c]
      /\ inbox'[b] = inbox[b] \/ inbox'[b] = <<>>
      /\ socket'[b] = "offline" => inbox'[b] = <<>>
      /\ inbox' \in [Browsers -> Seq(News \cup Numbered)]
  <2>1. CASE Connect(b) \/ Subscribe(b)
    <3>1. PICK s \in {"accepted", "live"} : socket' = [socket EXCEPT ![b] = s]
      BY <2>1 DEF Connect, Subscribe
    <3>2. inbox' = inbox
      BY <2>1 DEF Connect, Subscribe
    <3> QED
      BY <1>1, <3>1, <3>2 DEF Pipes
  <2>2. CASE Disconnect(b)
    <3>1. /\ socket' = [socket EXCEPT ![b] = "offline"]
          /\ inbox' = [inbox EXCEPT ![b] = <<>>]
      BY <2>2 DEF Disconnect
    <3> QED
      BY <1>1, <3>1 DEF Pipes
  <2> QED
    BY <2>1, <2>2
<1>4. untold' \in [Browsers -> SUBSET Alerts] /\ unheard' \in [Browsers -> SUBSET Nat]
  <2>1. CASE Disconnect(b)
    <3>1. inbox[b] \in Seq(News \cup Batch \cup Numbered)
      BY <1>1 DEF Pipes
    <3>2. About(inbox[b]) \subseteq Alerts
      BY <3>1, AboutFacts
    <3>3. Entries(inbox[b]) \subseteq News \cup Numbered
      BY <1>1, EntriesFacts DEF Pipes
    <3>4. InTransit(b) \subseteq Nat
      BY <3>3 DEF InTransit, News, Numbered
    <3> QED
      BY <1>1, <2>1, <3>2, <3>4 DEF Disconnect, Pipes
  <2>2. CASE Connect(b) \/ Subscribe(b)
    BY <1>1, <2>2 DEF Connect, Subscribe, Pipes
  <2> QED
    BY <2>1, <2>2
<1>5. \A c \in Browsers : \A m \in Entries(inbox'[c]) : m \in Entries(inbox[c])
  <2>1. Entries(<<>>) = {}
    BY DEF Entries
  <2> QED
    BY <1>3, <2>1
<1>6. Pipes'
  BY <1>1, <1>2, <1>3, <1>4, <1>5 DEF Pipes
<1>7. Panes'
  BY <1>1, <1>2, PanesStay DEF Pipes
<1> QED
  BY <1>6, <1>7 DEF FeedTypes

\* A new number on top of a list of older ones.
LEMMA NewestFacts ==
    ASSUME NEW list \in Seq(Nat), NEW n \in Nat
    PROVE  /\ Newest(<<n>> \o list) \in Seq(Nat)
           /\ Len(Newest(<<n>> \o list)) \in 1..MaxEvents
           /\ Len(Newest(<<n>> \o list)) = IF Len(list) + 1 > MaxEvents THEN MaxEvents ELSE Len(list) + 1
           /\ \A i \in 1..Len(Newest(<<n>> \o list)) :
                Newest(<<n>> \o list)[i] = IF i = 1 THEN n ELSE list[i - 1]
<1>1. /\ <<n>> \o list \in Seq(Nat) /\ Len(<<n>> \o list) = Len(list) + 1
      /\ \A i \in 1..(Len(list) + 1) : (<<n>> \o list)[i] = IF i = 1 THEN n ELSE list[i - 1]
  OBVIOUS
<1> DEFINE whole == <<n>> \o list
<1>2. /\ MaxEvents \in Nat \ {0} /\ Len(list) \in Nat
      /\ whole \in Seq(Nat) /\ Len(whole) = Len(list) + 1 /\ DOMAIN whole = 1..(Len(list) + 1)
      /\ \A i \in 1..(Len(list) + 1) : whole[i] = IF i = 1 THEN n ELSE list[i - 1]
  BY <1>1, FeedAssumption
<1> HIDE DEF whole
<1>3. /\ First(whole, MaxEvents) \in Seq(Nat) /\ Len(First(whole, MaxEvents)) <= MaxEvents
      /\ Len(First(whole, MaxEvents)) = IF Len(whole) > MaxEvents THEN MaxEvents ELSE Len(whole)
      /\ \A i \in DOMAIN First(whole, MaxEvents) :
            i \in DOMAIN whole /\ First(whole, MaxEvents)[i] = whole[i]
  BY <1>2, FirstFacts
<1>4. Newest(whole) = First(whole, MaxEvents)
  BY DEF Newest
<1> DEFINE after == Newest(whole)
<1>5. /\ after \in Seq(Nat) /\ DOMAIN after = 1..Len(after)
      /\ Len(after) = IF Len(list) + 1 > MaxEvents THEN MaxEvents ELSE Len(list) + 1
      /\ \A i \in DOMAIN after : i \in 1..(Len(list) + 1) /\ after[i] = whole[i]
  BY <1>2, <1>3, <1>4
<1> HIDE DEF after
<1>6. Len(after) \in 1..MaxEvents
  BY <1>2, <1>5
<1>7. \A i \in 1..Len(after) : after[i] = IF i = 1 THEN n ELSE list[i - 1]
  BY <1>2, <1>5
<1> QED
  BY <1>5, <1>6, <1>7 DEF after, whole

LEMMA ReceiveTypes == ASSUME FeedTypes, NEW b \in Browsers, Receive(b) PROVE FeedTypes'
<1> DEFINE m == Head(inbox[b])
<1>1. Pipes /\ Panes /\ inbox[b] \in Seq(News \cup Numbered) /\ inbox[b] # <<>>
  BY DEF FeedTypes, Pipes, Receive
<1>2. /\ m \in News \cup Numbered /\ m \in Entries(inbox[b])
      /\ Tail(inbox[b]) \in Seq(News \cup Numbered) /\ Entries(Tail(inbox[b])) \subseteq Entries(inbox[b])
  BY <1>1, EntriesFacts
<1>3. /\ UNCHANGED <<outbox, sending, telling, socket, paused, published, untold, unheard>>
      /\ inbox' = [inbox EXCEPT ![b] = Tail(@)]
  BY DEF Receive
<1>4. Pipes'
  <2>1. \A c \in Browsers : Entries(inbox'[c]) \subseteq Entries(inbox[c])
    BY <1>1, <1>2, <1>3 DEF Pipes
  <2>2. inbox' \in [Browsers -> Seq(News \cup Numbered)]
    BY <1>1, <1>2, <1>3 DEF Pipes
  <2>3. \A c \in Browsers : socket'[c] = "offline" => inbox'[c] = <<>>
    BY <1>1, <1>3 DEF Pipes
  <2> QED
    BY <1>1, <1>3, <2>1, <2>2, <2>3 DEF Pipes
<1>5. m.kind = "event" => m.number \in 1..published
  <2> SUFFICES ASSUME m.kind = "event" PROVE m.number \in 1..published
    OBVIOUS
  <2>1. m \in Numbered
    BY <1>2 DEF News
  <2> QED
    BY <1>1, <1>2, <2>1 DEF Pipes, Numbered
<1>6. Panes'
  <2>1. CASE m.kind = "alert"
    <3>1. m \in News
      BY <1>2, <2>1 DEF Numbered
    <3>2. Listed(m, shown[b]) \in Seq(News) /\ Len(Listed(m, shown[b])) <= MaxAlerts
      BY <1>1, <3>1, ListedFacts DEF Panes
    <3>3. shown' = [shown EXCEPT ![b] = Listed(m, @)] /\ UNCHANGED <<events, buffer>>
      BY <2>1 DEF Receive
    <3> QED
      BY <1>1, <1>3, <3>2, <3>3 DEF Panes
  <2>2. ASSUME NEW list \in Seq(Nat), \A i \in 1..Len(list) : list[i] \in 1..published,
               m.kind = "event"
        PROVE  /\ Newest(<<m.number>> \o list) \in Seq(Nat)
               /\ Len(Newest(<<m.number>> \o list)) <= MaxEvents
               /\ \A i \in 1..Len(Newest(<<m.number>> \o list)) :
                    Newest(<<m.number>> \o list)[i] \in 1..published
    <3> DEFINE after == Newest(<<m.number>> \o list)
    <3>0. m.number \in Nat
      BY <1>1, <1>5, <2>2 DEF Pipes
    <3>1. /\ after \in Seq(Nat) /\ Len(after) \in 1..MaxEvents
          /\ Len(after) = IF Len(list) + 1 > MaxEvents THEN MaxEvents ELSE Len(list) + 1
          /\ \A i \in 1..Len(after) : after[i] = IF i = 1 THEN m.number ELSE list[i - 1]
      BY <2>2, <3>0, NewestFacts
    <3> HIDE DEF after
    <3>2. MaxEvents \in Nat /\ Len(list) \in Nat
      BY FeedAssumption
    <3>3. \A i \in 1..Len(after) : i = 1 \/ i - 1 \in 1..Len(list)
      BY <3>1, <3>2
    <3>4. \A i \in 1..Len(after) : after[i] \in 1..published
      BY <1>5, <2>2, <3>1, <3>3
    <3>5. Len(after) <= MaxEvents
      BY <3>1, <3>2
    <3> QED
      BY <3>1, <3>4, <3>5 DEF after
  <2>3. CASE m.kind = "event" /\ paused[b]
    <3>1. buffer' = [buffer EXCEPT ![b] = Newest(<<m.number>> \o @)] /\ UNCHANGED <<shown, events>>
      BY <2>3 DEF Receive
    <3>2. buffer[b] \in Seq(Nat) /\ \A i \in 1..Len(buffer[b]) : buffer[b][i] \in 1..published
      BY <1>1 DEF Panes
    <3> DEFINE after == Newest(<<m.number>> \o buffer[b])
    <3>3. /\ after \in Seq(Nat) /\ Len(after) <= MaxEvents
          /\ \A i \in 1..Len(after) : after[i] \in 1..published
      BY <2>2, <2>3, <3>2
    <3>4. buffer' = [buffer EXCEPT ![b] = after]
      BY <3>1
    <3> HIDE DEF after
    <3> QED
      BY <1>1, <1>3, <2>3, <3>1, <3>3, <3>4 DEF Panes
  <2>4. CASE m.kind = "event" /\ ~paused[b]
    <3>1. events' = [events EXCEPT ![b] = Newest(<<m.number>> \o @)] /\ UNCHANGED <<shown, buffer>>
      BY <2>4 DEF Receive
    <3>2. events[b] \in Seq(Nat) /\ \A i \in 1..Len(events[b]) : events[b][i] \in 1..published
      BY <1>1 DEF Panes
    <3> DEFINE after == Newest(<<m.number>> \o events[b])
    <3>3. /\ after \in Seq(Nat) /\ Len(after) <= MaxEvents
          /\ \A i \in 1..Len(after) : after[i] \in 1..published
      BY <2>2, <2>4, <3>2
    <3>4. events' = [events EXCEPT ![b] = after]
      BY <3>1
    <3> HIDE DEF after
    <3> QED
      BY <1>1, <1>3, <2>4, <3>1, <3>3, <3>4 DEF Panes
  <2>5. m.kind = "alert" \/ m.kind = "event"
    BY <1>2 DEF News, Numbered
  <2> QED
    BY <2>1, <2>3, <2>4, <2>5
<1> QED
  BY <1>4, <1>6 DEF FeedTypes

\* A click keeps the screen as it is, or empties it.
LEMMA ClickTypes ==
    ASSUME FeedTypes, NEW b \in Browsers, Pause(b) \/ Resume(b) \/ ClearEvents(b)
    PROVE  FeedTypes'
<1>1. Pipes /\ Panes
  BY DEF FeedTypes
<1>2. UNCHANGED <<outbox, sending, telling, socket, inbox, shown, published, untold>>
  BY DEF Pause, Resume, ClearEvents, Drop
<1>3. CASE Pause(b)
  <2>1. UNCHANGED <<events, buffer, unheard>> /\ paused' = [paused EXCEPT ![b] = TRUE]
    BY <1>3 DEF Pause
  <2>2. Pipes'
    BY <1>1, <1>2, <2>1 DEF Pipes
  <2>3. Panes'
    BY <1>1, <1>2, <2>1 DEF Panes
  <2> QED
    BY <2>2, <2>3 DEF FeedTypes
<1>4. CASE Resume(b) \/ ClearEvents(b)
  <2>1. PICK kept \in {events[b], <<>>} : Drop(b, kept)
    BY <1>4 DEF Resume, ClearEvents
  <2>2. paused' \in [Browsers -> BOOLEAN]
    BY <1>1, <1>4 DEF Resume, ClearEvents, Panes
  <2>3. Pipes'
    BY <1>1, <1>2, <2>1 DEF Pipes, Drop
  <2>4. events' = [events EXCEPT ![b] = kept] /\ buffer' = [buffer EXCEPT ![b] = <<>>]
    BY <2>1 DEF Drop
  <2>5. <<>> \in Seq(Nat) /\ Len(<<>>) = 0 /\ 0 <= MaxEvents /\ 1..0 = {}
    BY FeedAssumption
  <2>6. kept \in Seq(Nat) /\ Len(kept) <= MaxEvents /\ \A i \in 1..Len(kept) : kept[i] \in 1..published
    <3>1. CASE kept = events[b]
      BY <1>1, <3>1 DEF Panes
    <3>2. CASE kept = <<>>
      BY <2>5, <3>2
    <3> QED
      BY <3>1, <3>2
  <2>7. /\ events' \in [Browsers -> Seq(Nat)] /\ buffer' \in [Browsers -> Seq(Nat)]
        /\ \A c \in Browsers : events'[c] = events[c] \/ events'[c] = kept
        /\ \A c \in Browsers : (buffer'[c] = buffer[c] /\ c # b) \/ buffer'[c] = <<>>
    BY <1>1, <2>4, <2>5, <2>6 DEF Panes
  <2>8. \A c \in Browsers : c # b => paused'[c] = paused[c]
    BY <1>1, <1>4 DEF Resume, ClearEvents, Panes
  <2>9. \A c \in Browsers :
          /\ \A i \in 1..Len(events'[c]) : events'[c][i] \in 1..published
          /\ Len(events'[c]) <= MaxEvents
    BY <1>1, <2>6, <2>7 DEF Panes
  <2>10. \A c \in Browsers :
          /\ \A i \in 1..Len(buffer'[c]) : buffer'[c][i] \in 1..published
          /\ Len(buffer'[c]) <= MaxEvents
          /\ ~paused'[c] => buffer'[c] = <<>>
    BY <1>1, <2>5, <2>7, <2>8 DEF Panes
  <2>11. Panes'
    BY <1>1, <1>2, <2>2, <2>7, <2>9, <2>10 DEF Panes
  <2> QED
    BY <2>3, <2>11 DEF FeedTypes
<1> QED
  BY <1>3, <1>4

LEMMA FeedTypesStep == IInv /\ FeedTypes /\ [FeedNext]_allVars => FeedTypes'
<1> SUFFICES ASSUME IInv, FeedTypes, [FeedNext]_allVars PROVE FeedTypes'
  OBVIOUS
<1>1. CASE UNCHANGED allVars
  BY <1>1 DEF allVars, feedVars, screenVars, FeedTypes, Pipes, Panes
<1> QED
  BY <1>1, WorkerTypes, PublishTypes, RequestTypes, SocketTypes, ReceiveTypes, ClickTypes DEF FeedNext

(***************************************************************************)
(* Every queue and every screen holds what it can hold, and a browser no   *)
(* more than MAX_ALERTS alerts and MAX_EVENTS events, with a buffer only   *)
(* while it is paused (RealtimeProvider.tsx:57-68).                        *)
(***************************************************************************)
THEOREM FeedTypeOKHolds == FeedSpec => []FeedTypeOK
<1>1. FeedInit => FeedTypes
  BY InitFeedTypes
<1>2. IInv /\ FeedTypes /\ [FeedNext]_allVars => FeedTypes'
  BY FeedTypesStep
<1>3. FeedTypes => FeedTypeOK
  BY FeedTypesMeaning
<1> QED
  BY <1>1, <1>2, <1>3, FeedInvariance, PTL DEF FeedSpec
-----------------------------------------------------------------------------
(***************************************************************************)
(* The live view is the tail of the stream.  What makes this inductive is  *)
(* the order of what is still under way: its numbers increase, and are     *)
(* above everything the browser keeps.                                     *)
(***************************************************************************)
Numbers(box) == {m.number : m \in {n \in Entries(box) : n.kind = "event"}}

Tailed(kept, box, out, pub) ==
    /\ \A i, j \in 1..Len(kept) : i < j => kept[i] > kept[j]
    /\ \A i \in 1..Len(box) : box[i].kind = "event" =>
         box[i].number \in 1..pub /\ \A k \in 1..Len(kept) : kept[k] < box[i].number
    /\ \A i, j \in 1..Len(box) :
         i < j /\ box[i].kind = "event" /\ box[j].kind = "event" => box[i].number < box[j].number
    /\ \A n \in 1..pub :
         \/ n \in out \cup Numbers(box) \cup Entries(kept)
         \/ Len(kept) >= MaxEvents /\ kept[MaxEvents] > n

TailInv == \A b \in Browsers : Tailed(buffer[b] \o events[b], inbox[b], unheard[b], published)

Box == Seq(News \cup Numbered)

\* News that joins the messages under way, and news that is received.
LEMMA NewsTailed ==
    ASSUME NEW kept \in Seq(Nat), NEW box \in Box, NEW out, NEW pub \in Nat,
           NEW m \in News, Tailed(kept, box, out, pub)
    PROVE  Tailed(kept, Append(box, m), out, pub)
<1>1. m.kind = "alert"
  BY DEF News
<1>2. /\ Len(Append(box, m)) = Len(box) + 1 /\ Len(box) \in Nat
      /\ Append(box, m)[Len(box) + 1] = m
      /\ \A i \in 1..Len(box) : Append(box, m)[i] = box[i]
  BY DEF Box
<1>3. Entries(Append(box, m)) = Entries(box) \cup {m}
  BY EntriesFacts DEF Box
<1>4. Numbers(Append(box, m)) = Numbers(box)
  BY <1>1, <1>3 DEF Numbers
<1> DEFINE more == Append(box, m)
<1>5. \A i \in 1..Len(more) : more[i].kind = "event" => i \in 1..Len(box) /\ more[i] = box[i]
  BY <1>1, <1>2
<1> HIDE DEF more
<1>6. \A i \in 1..Len(more) : more[i].kind = "event" =>
        more[i].number \in 1..pub /\ \A k \in 1..Len(kept) : kept[k] < more[i].number
  BY <1>5 DEF Tailed
<1>7. \A i, j \in 1..Len(more) :
        i < j /\ more[i].kind = "event" /\ more[j].kind = "event" => more[i].number < more[j].number
  BY <1>5 DEF Tailed
<1>8. \A n \in 1..pub :
        \/ n \in out \cup Numbers(more) \cup Entries(kept)
        \/ Len(kept) >= MaxEvents /\ kept[MaxEvents] > n
  BY <1>4 DEF Tailed, more
<1>9. Tailed(kept, more, out, pub)
  BY <1>6, <1>7, <1>8 DEF Tailed
<1> QED
  BY <1>9 DEF more

LEMMA NewsTaken ==
    ASSUME NEW kept \in Seq(Nat), NEW box \in Box, NEW out, NEW pub \in Nat,
           box # <<>>, Head(box).kind # "event", Tailed(kept, box, out, pub)
    PROVE  Tailed(kept, Tail(box), out, pub)
<1>1. /\ Len(Tail(box)) = Len(box) - 1 /\ Len(box) \in Nat
      /\ \A i \in 1..Len(Tail(box)) : Tail(box)[i] = box[i + 1] /\ i + 1 \in 1..Len(box)
  BY DEF Box
<1>2. Entries(box) = Entries(Tail(box)) \cup {Head(box)}
  BY EntriesFacts DEF Box
<1>3. Numbers(Tail(box)) = Numbers(box)
  BY <1>2 DEF Numbers
<1> QED
  BY <1>1, <1>3 DEF Tailed

\* The next event, published to a browser that listens or to one that does not.
LEMMA EventTailed ==
    ASSUME NEW kept \in Seq(Nat), NEW box \in Box, NEW out, NEW pub \in Nat,
           NEW m \in Numbered, m.number = pub + 1,
           \A k \in 1..Len(kept) : kept[k] \in 1..pub, Tailed(kept, box, out, pub)
    PROVE  Tailed(kept, Append(box, m), out, pub + 1)
<1>1. m.kind = "event"
  BY DEF Numbered
<1>2. /\ Len(Append(box, m)) = Len(box) + 1 /\ Len(box) \in Nat
      /\ Append(box, m)[Len(box) + 1] = m
      /\ \A i \in 1..Len(box) : Append(box, m)[i] = box[i]
  BY DEF Box
<1>3. Entries(Append(box, m)) = Entries(box) \cup {m}
  BY EntriesFacts DEF Box
<1>4. Numbers(Append(box, m)) = Numbers(box) \cup {pub + 1}
  BY <1>1, <1>3 DEF Numbers
<1> DEFINE more == Append(box, m)
<1>5. \A i \in 1..Len(more) : \/ i \in 1..Len(box) /\ more[i] = box[i]
                              \/ i = Len(box) + 1 /\ more[i] = m
  BY <1>2
<1>6. \A i \in 1..Len(box) : box[i].kind = "event" =>
        box[i].number \in 1..pub /\ \A k \in 1..Len(kept) : kept[k] < box[i].number
  BY DEF Tailed
<1> HIDE DEF more
<1>7. \A i \in 1..Len(more) : more[i].kind = "event" =>
        more[i].number \in 1..(pub + 1) /\ \A k \in 1..Len(kept) : kept[k] < more[i].number
  <2> TAKE i \in 1..Len(more)
  <2> HAVE more[i].kind = "event"
  <2>1. CASE i \in 1..Len(box) /\ more[i] = box[i]
    <3>1. box[i].number \in 1..pub /\ \A k \in 1..Len(kept) : kept[k] < box[i].number
      BY <1>6, <2>1
    <3> QED
      BY <2>1, <3>1
  <2>2. CASE more[i] = m
    BY <2>2
  <2> QED
    BY <1>5, <2>1, <2>2
<1>8. \A i, j \in 1..Len(more) :
        i < j /\ more[i].kind = "event" /\ more[j].kind = "event" => more[i].number < more[j].number
  <2> TAKE i, j \in 1..Len(more)
  <2> HAVE i < j /\ more[i].kind = "event" /\ more[j].kind = "event"
  <2>1. j <= Len(box) + 1 /\ Len(box) \in Nat
    <3>1. j \in 1..Len(box) \/ j = Len(box) + 1
      BY <1>5
    <3> QED
      BY <1>2, <3>1
  <2>2. i # Len(box) + 1
    BY <2>1
  <2>3. i \in 1..Len(box) /\ more[i] = box[i]
    BY <1>5, <2>2
  <2>4. CASE j \in 1..Len(box) /\ more[j] = box[j]
    BY <2>3, <2>4 DEF Tailed
  <2>5. CASE more[j] = m
    BY <1>6, <2>3, <2>5
  <2> QED
    BY <1>5, <2>4, <2>5
<1>9. \A n \in 1..(pub + 1) : n \in 1..pub \/ n = pub + 1
  OBVIOUS
<1>10. \A n \in 1..(pub + 1) :
        \/ n \in out \cup Numbers(more) \cup Entries(kept)
        \/ Len(kept) >= MaxEvents /\ kept[MaxEvents] > n
  BY <1>4, <1>9 DEF Tailed, more
<1>11. Tailed(kept, more, out, pub + 1)
  BY <1>7, <1>8, <1>10 DEF Tailed
<1> QED
  BY <1>11 DEF more

LEMMA EventUnheard ==
    ASSUME NEW kept \in Seq(Nat), NEW box \in Box, NEW out, NEW pub \in Nat,
           Tailed(kept, box, out, pub)
    PROVE  Tailed(kept, box, out \cup {pub + 1}, pub + 1)
<1>1. \A n \in 1..(pub + 1) : n \in 1..pub \/ n = pub + 1
  OBVIOUS
<1>2. 1..pub \subseteq 1..(pub + 1)
  OBVIOUS
<1> QED
  BY <1>1, <1>2 DEF Tailed

\* The messages under way are lost, or the view starts anew from older events of
\* it, with what is missing then accounted for.
LEMMA LostTailed ==
    ASSUME NEW kept, NEW box \in Box, NEW out, NEW pub \in Nat, Tailed(kept, box, out, pub)
    PROVE  Tailed(kept, <<>>, out \cup Numbers(box), pub)
<1>1. Len(<<>>) = 0 /\ 1..0 = {}
  OBVIOUS
<1> QED
  BY <1>1 DEF Tailed

EndOf(less, kept) ==
    \E shift \in Nat : \A i \in 1..Len(less) : shift + i \in 1..Len(kept) /\ less[i] = kept[shift + i]

LEMMA DropTailed ==
    ASSUME NEW kept, NEW box \in Box, NEW out, NEW pub \in Nat, Tailed(kept, box, out, pub),
           NEW less \in Seq(Nat), EndOf(less, kept),
           NEW rest, rest = (1..pub) \ (Entries(less) \cup Numbers(box))
    PROVE  Tailed(less, box, rest, pub)
<1>0. PICK shift \in Nat : \A i \in 1..Len(less) :
        shift + i \in 1..Len(kept) /\ less[i] = kept[shift + i]
  BY DEF EndOf
<1>1. \A i, j \in 1..Len(less) : i < j => less[i] > less[j]
  <2>1. \A i, j \in 1..Len(less) : i < j => shift + i < shift + j
    OBVIOUS
  <2> QED
    BY <1>0, <2>1 DEF Tailed
<1> QED
  BY <1>0, <1>1 DEF Tailed

\* An event is received: it goes on top, and the event in place MAX_EVENTS is the
\* only one that may have to go.
OnTop(n, kept, after) ==
    /\ Len(after) >= 1 /\ after[1] = n
    /\ Len(after) = Len(kept) + 1 \/ (Len(after) = Len(kept) /\ Len(kept) >= MaxEvents)
    /\ \A i \in 1..Len(after) :
         i # 1 => after[i] = kept[IF Len(after) = Len(kept) /\ i > MaxEvents THEN i ELSE i - 1]

LEMMA EventTaken ==
    ASSUME NEW kept \in Seq(Nat), NEW box \in Box, NEW out, NEW pub \in Nat,
           box # <<>>, Head(box).kind = "event", Tailed(kept, box, out, pub),
           NEW after \in Seq(Nat), OnTop(Head(box).number, kept, after)
    PROVE  Tailed(after, Tail(box), out, pub)
<1> DEFINE m == Head(box)
           n == m.number
<1>0. /\ MaxEvents \in Nat \ {0} /\ Len(kept) \in Nat /\ Len(after) \in Nat
      /\ \A k \in 1..Len(kept) : kept[k] \in Nat
      /\ \A k \in 1..Len(after) : after[k] \in Nat
      /\ Len(after) >= 1
      /\ Len(after) = Len(kept) + 1 \/ (Len(after) = Len(kept) /\ Len(kept) >= MaxEvents)
  <2>1. MaxEvents \in Nat \ {0} /\ Len(kept) \in Nat /\ Len(after) \in Nat
    BY FeedAssumption
  <2>2. (\A k \in 1..Len(kept) : kept[k] \in Nat) /\ (\A k \in 1..Len(after) : after[k] \in Nat)
    OBVIOUS
  <2> QED
    BY <2>1, <2>2 DEF OnTop
<1>1. /\ Len(Tail(box)) = Len(box) - 1 /\ Len(box) \in Nat /\ m = box[1] /\ 1 \in 1..Len(box)
      /\ \A i \in 1..Len(Tail(box)) : Tail(box)[i] = box[i + 1] /\ i + 1 \in 1..Len(box) /\ 1 < i + 1
  BY DEF Box
<1>2. Entries(box) = Entries(Tail(box)) \cup {m}
  BY EntriesFacts DEF Box
<1>3. Numbers(box) = Numbers(Tail(box)) \cup {n}
  BY <1>2 DEF Numbers
<1>4. n \in 1..pub /\ \A k \in 1..Len(kept) : kept[k] < n
  BY <1>1 DEF Tailed
<1>5. \A i \in 1..Len(Tail(box)) : Tail(box)[i].kind = "event" =>
        /\ Tail(box)[i].number \in 1..pub /\ n < Tail(box)[i].number
        /\ \A k \in 1..Len(kept) : kept[k] < Tail(box)[i].number
  BY <1>1 DEF Tailed
<1>6. \A i, j \in 1..Len(Tail(box)) :
        i < j /\ Tail(box)[i].kind = "event" /\ Tail(box)[j].kind = "event"
          => Tail(box)[i].number < Tail(box)[j].number
  <2> TAKE i, j \in 1..Len(Tail(box))
  <2>1. /\ Tail(box)[i] = box[i + 1] /\ i + 1 \in 1..Len(box)
        /\ Tail(box)[j] = box[j + 1] /\ j + 1 \in 1..Len(box)
        /\ i < j => i + 1 < j + 1
    BY <1>1
  <2> QED
    BY <2>1 DEF Tailed
<1> HIDE DEF n, m
<1>7. after[1] = n
  BY DEF n, m, OnTop
<1> DEFINE Old(i) == IF Len(after) = Len(kept) /\ i > MaxEvents THEN i ELSE i - 1
<1>8. \A i \in 1..Len(after) : i # 1 => Old(i) \in 1..Len(kept) /\ after[i] = kept[Old(i)]
  <2>1. \A i \in 1..Len(after) : i # 1 => Old(i) \in 1..Len(kept)
    BY <1>0
  <2> QED
    BY <2>1 DEF OnTop
<1>9. \A i, j \in 1..Len(after) : i # 1 /\ i < j => j # 1 /\ Old(i) < Old(j)
  <2> TAKE i, j \in 1..Len(after)
  <2>1. i \in Nat /\ j \in Nat /\ 1 <= i /\ MaxEvents \in Nat
    BY <1>0
  <2> HIDE DEF Old
  <2>2. Old(i) \in {i, i - 1} /\ Old(j) \in {j, j - 1}
    BY DEF Old
  <2>3. i < j /\ Old(i) = i => Old(j) = j \/ Old(i) = i - 1
    BY <2>1 DEF Old
  <2> QED
    BY <2>1, <2>2, <2>3
<1> HIDE DEF Old
<1>10. \A i, j \in 1..Len(after) : i < j => after[i] > after[j]
  <2> TAKE i, j \in 1..Len(after)
  <2> HAVE i < j
  <2>1. CASE i = 1
    <3>1. kept[Old(j)] < n /\ after[j] = kept[Old(j)]
      BY <1>4, <1>8, <2>1
    <3>2. kept[Old(j)] \in Nat /\ n \in Nat
      BY <1>0, <1>4, <1>8, <2>1
    <3> QED
      BY <1>7, <2>1, <3>1, <3>2
  <2>2. CASE i # 1
    BY <1>8, <1>9, <2>2 DEF Tailed
  <2> QED
    BY <2>1, <2>2
<1>11. \A i \in 1..Len(Tail(box)) : Tail(box)[i].kind = "event" =>
         Tail(box)[i].number \in 1..pub /\ \A k \in 1..Len(after) : after[k] < Tail(box)[i].number
  BY <1>5, <1>7, <1>8
<1>12. n \in Entries(after)
  <2>1. 1 \in DOMAIN after
    BY <1>0
  <2> QED
    BY <1>7, <2>1 DEF Entries
<1>13. \A k \in 1..Len(kept) : kept[k] \in Entries(after) \/ (Len(after) = Len(kept) /\ k = MaxEvents)
  <2> TAKE k \in 1..Len(kept)
  <2> SUFFICES ASSUME ~(Len(after) = Len(kept) /\ k = MaxEvents) PROVE kept[k] \in Entries(after)
    OBVIOUS
  <2> DEFINE i == IF Len(after) = Len(kept) /\ k > MaxEvents THEN k ELSE k + 1
  <2>1. i \in 1..Len(after) /\ i # 1 /\ Old(i) = k
    BY <1>0 DEF Old
  <2>2. after[i] = kept[k] /\ i \in DOMAIN after
    BY <1>8, <2>1
  <2> QED
    BY <2>2 DEF Entries
\* What stands in place MAX_EVENTS is newer than what stood there.
<1>14. Len(kept) >= MaxEvents => Len(after) >= MaxEvents /\ after[MaxEvents] > kept[MaxEvents]
  <2> SUFFICES ASSUME Len(kept) >= MaxEvents
               PROVE  Len(after) >= MaxEvents /\ after[MaxEvents] > kept[MaxEvents]
    OBVIOUS
  <2>1. Len(after) >= MaxEvents /\ MaxEvents \in 1..Len(after) /\ MaxEvents \in 1..Len(kept)
    BY <1>0
  <2>2. CASE MaxEvents = 1
    BY <1>4, <1>7, <2>1, <2>2
  <2>3. CASE MaxEvents # 1
    <3>1. Old(MaxEvents) = MaxEvents - 1 /\ MaxEvents - 1 < MaxEvents
      BY <1>0 DEF Old
    <3> QED
      BY <1>8, <2>1, <2>3, <3>1 DEF Tailed
  <2> QED
    BY <2>1, <2>2, <2>3
<1>15. \A i \in 1..pub :
         \/ i \in out \cup Numbers(Tail(box)) \cup Entries(after)
         \/ Len(after) >= MaxEvents /\ after[MaxEvents] > i
  <2> TAKE i \in 1..pub
  <2>1. \/ i \in out \cup Numbers(Tail(box)) \/ i = n \/ i \in Entries(kept)
        \/ Len(kept) >= MaxEvents /\ kept[MaxEvents] > i
    BY <1>3 DEF Tailed
  <2>2. CASE i \in Entries(kept)
    <3>1. PICK k \in 1..Len(kept) : kept[k] = i
      BY <2>2 DEF Entries
    <3> QED
      BY <1>0, <1>13, <1>14, <3>1
  <2>3. CASE Len(kept) >= MaxEvents /\ kept[MaxEvents] > i
    <3>1. MaxEvents \in 1..Len(kept) /\ MaxEvents \in 1..Len(after)
      BY <1>0, <1>14, <2>3
    <3>2. kept[MaxEvents] \in Nat /\ after[MaxEvents] \in Nat
      BY <1>0, <3>1
    <3> QED
      BY <1>14, <2>3, <3>2
  <2> QED
    BY <1>12, <2>1, <2>2, <2>3
<1> QED
  BY <1>6, <1>10, <1>11, <1>15 DEF Tailed
LEMMA ConcatFacts ==
    ASSUME NEW s \in Seq(Nat), NEW t \in Seq(Nat)
    PROVE  /\ s \o t \in Seq(Nat) /\ Len(s) \in Nat /\ Len(t) \in Nat
           /\ Len(s \o t) = Len(s) + Len(t)
           /\ \A i \in 1..Len(s) : (s \o t)[i] = s[i]
           /\ \A i \in 1..Len(t) : Len(s) + i \in 1..Len(s \o t) /\ (s \o t)[Len(s) + i] = t[i]
           /\ \A k \in 1..Len(s \o t) :
                \/ k \in 1..Len(s) /\ (s \o t)[k] = s[k]
                \/ k - Len(s) \in 1..Len(t) /\ (s \o t)[k] = t[k - Len(s)]
<1>1. /\ s \o t \in Seq(Nat) /\ Len(s) \in Nat /\ Len(t) \in Nat
      /\ Len(s \o t) = Len(s) + Len(t)
  OBVIOUS
<1>2. \A k \in 1..(Len(s) + Len(t)) :
        (s \o t)[k] = IF k <= Len(s) THEN s[k] ELSE t[k - Len(s)]
  OBVIOUS
<1>3. \A i \in 1..Len(t) : Len(s) + i \in 1..(Len(s) + Len(t)) /\ ~(Len(s) + i <= Len(s)) /\ (Len(s) + i) - Len(s) = i
  BY <1>1
<1>4. \A k \in 1..(Len(s) + Len(t)) : IF k <= Len(s) THEN k \in 1..Len(s) ELSE k - Len(s) \in 1..Len(t)
  BY <1>1
<1>5. \A i \in 1..Len(s) : i \in 1..(Len(s) + Len(t)) /\ i <= Len(s)
  BY <1>1
<1> QED
  BY <1>1, <1>2, <1>3, <1>4, <1>5

\* What a browser keeps, on the screen or back.
LEMMA KeptFacts ==
    ASSUME FeedTypes, NEW b \in Browsers
    PROVE  /\ buffer[b] \o events[b] \in Seq(Nat)
           /\ \A k \in 1..Len(buffer[b] \o events[b]) : (buffer[b] \o events[b])[k] \in 1..published
           /\ inbox[b] \in Box /\ published \in Nat
           /\ buffer[b] \in Seq(Nat) /\ events[b] \in Seq(Nat)
           /\ Len(buffer[b]) <= MaxEvents /\ Len(events[b]) <= MaxEvents
           /\ Numbers(inbox[b]) = InTransit(b)
<1>1. /\ buffer[b] \in Seq(Nat) /\ events[b] \in Seq(Nat)
      /\ \A i \in 1..Len(events[b]) : events[b][i] \in 1..published
      /\ \A i \in 1..Len(buffer[b]) : buffer[b][i] \in 1..published
      /\ Len(buffer[b]) <= MaxEvents /\ Len(events[b]) <= MaxEvents
      /\ inbox[b] \in Box /\ published \in Nat
  BY DEF FeedTypes, Pipes, Panes, Box
<1>2. /\ buffer[b] \o events[b] \in Seq(Nat)
      /\ \A k \in 1..Len(buffer[b] \o events[b]) :
           \/ k \in 1..Len(buffer[b]) /\ (buffer[b] \o events[b])[k] = buffer[b][k]
           \/ /\ k - Len(buffer[b]) \in 1..Len(events[b])
              /\ (buffer[b] \o events[b])[k] = events[b][k - Len(buffer[b])]
  BY <1>1, ConcatFacts
<1>3. Numbers(inbox[b]) = InTransit(b)
  BY DEF Numbers, InTransit
<1> QED
  BY <1>1, <1>2, <1>3

LEMMA TailStays ==
    ASSUME TailInv, UNCHANGED <<events, buffer, inbox, unheard, published>>
    PROVE  TailInv'
  BY DEF TailInv

LEMMA PublishNewsTail ==
    ASSUME FeedTypes, TailInv, NEW m \in News, PublishNews(m), UNCHANGED screenVars
    PROVE  TailInv'
<1> SUFFICES ASSUME NEW b \in Browsers
             PROVE  Tailed((buffer[b] \o events[b])', inbox'[b], unheard'[b], published')
  BY DEF TailInv
<1>1. UNCHANGED <<events, buffer, unheard, published>> /\ Broadcast(m) /\ Pipes /\ m \in News \cup Numbered
  BY DEF PublishNews, screenVars, FeedTypes
<1>2. inbox'[b] = inbox[b] \/ inbox'[b] = Append(inbox[b], m)
  BY <1>1, BroadcastFacts
<1> DEFINE kept == buffer[b] \o events[b]
<1>3. /\ kept \in Seq(Nat) /\ inbox[b] \in Box /\ published \in Nat
      /\ Tailed(kept, inbox[b], unheard[b], published)
  BY KeptFacts DEF TailInv
<1>4. (buffer[b] \o events[b])' = kept
  BY <1>1
<1> HIDE DEF kept
<1>5. Tailed(kept, Append(inbox[b], m), unheard[b], published)
  BY <1>3, NewsTailed
<1> QED
  BY <1>1, <1>2, <1>3, <1>4, <1>5

LEMMA PublishEventsTail ==
    ASSUME FeedTypes, TailInv, PublishEvents, UNCHANGED <<socket, screenVars>>
    PROVE  TailInv'
<1> SUFFICES ASSUME NEW b \in Browsers
             PROVE  Tailed((buffer[b] \o events[b])', inbox'[b], unheard'[b], published')
  BY DEF TailInv
<1> DEFINE kept == buffer[b] \o events[b]
           m == [kind |-> "event", number |-> published + 1]
<1>1. UNCHANGED <<events, buffer>> /\ Broadcast(m) /\ Pipes /\ published' = published + 1
  BY DEF PublishEvents, screenVars, FeedTypes
<1>2. /\ kept \in Seq(Nat) /\ inbox[b] \in Box /\ published \in Nat
      /\ Tailed(kept, inbox[b], unheard[b], published)
      /\ \A k \in 1..Len(kept) : kept[k] \in 1..published
  BY KeptFacts DEF TailInv
<1>3. (buffer[b] \o events[b])' = kept
  BY <1>1
<1> HIDE DEF kept
<1>4. m \in Numbered /\ m.number = published + 1
  BY <1>2 DEF Numbered
<1> HIDE DEF m
<1>5. \/ socket[b] # "live" /\ inbox'[b] = inbox[b]
      \/ socket[b] = "live" /\ inbox'[b] = Append(inbox[b], m)
  BY <1>1, <1>4, BroadcastFacts
<1>6. unheard'[b] = unheard[b] \cup IF socket[b] # "live" THEN {published + 1} ELSE {}
  BY <1>1 DEF PublishEvents, Deaf
<1>7. Tailed(kept, Append(inbox[b], m), unheard[b], published + 1)
  BY <1>2, <1>4, EventTailed
<1>8. Tailed(kept, inbox[b], unheard[b] \cup {published + 1}, published + 1)
  BY <1>2, EventUnheard
<1>9. unheard'[b] = IF socket[b] # "live" THEN unheard[b] \cup {published + 1} ELSE unheard[b]
  BY <1>6
<1> QED
  BY <1>1, <1>3, <1>5, <1>7, <1>8, <1>9

LEMMA DisconnectTail ==
    ASSUME FeedTypes, TailInv, NEW b \in Browsers, Disconnect(b)
    PROVE  TailInv'
<1>1. /\ UNCHANGED <<events, buffer, published>>
      /\ inbox' = [inbox EXCEPT ![b] = <<>>]
      /\ unheard' = [unheard EXCEPT ![b] = @ \cup InTransit(b)]
  BY DEF Disconnect, screenVars
<1>2. DOMAIN inbox = Browsers /\ DOMAIN unheard = Browsers
  BY DEF FeedTypes, Pipes
<1> SUFFICES ASSUME NEW c \in Browsers
             PROVE  Tailed(buffer[c] \o events[c], inbox'[c], unheard'[c], published)
  BY <1>1 DEF TailInv
<1>3. CASE c = b
  <2> DEFINE kept == buffer[b] \o events[b]
  <2>1. /\ inbox[b] \in Box /\ published \in Nat /\ Numbers(inbox[b]) = InTransit(b)
        /\ Tailed(kept, inbox[b], unheard[b], published)
    BY KeptFacts DEF TailInv
  <2>2. inbox'[b] = <<>> /\ unheard'[b] = unheard[b] \cup Numbers(inbox[b])
    BY <1>1, <1>2, <2>1
  <2> HIDE DEF kept
  <2>3. Tailed(kept, <<>>, unheard[b] \cup Numbers(inbox[b]), published)
    BY <2>1, LostTailed
  <2> QED
    BY <1>3, <2>2, <2>3 DEF kept
<1>4. CASE c # b
  BY <1>1, <1>2, <1>4 DEF TailInv
<1> QED
  BY <1>3, <1>4

LEMMA DropTail ==
    ASSUME FeedTypes, TailInv, NEW b \in Browsers, NEW kept, kept = events[b] \/ kept = <<>>,
           Drop(b, kept)
    PROVE  TailInv'
<1>1. /\ UNCHANGED <<inbox, published>>
      /\ events' = [events EXCEPT ![b] = kept] /\ buffer' = [buffer EXCEPT ![b] = <<>>]
      /\ unheard' = [unheard EXCEPT ![b] = (1..published) \ (Entries(kept) \cup InTransit(b))]
  BY DEF Drop
<1>2. DOMAIN events = Browsers /\ DOMAIN buffer = Browsers /\ DOMAIN unheard = Browsers
  BY DEF FeedTypes, Pipes, Panes
<1> SUFFICES ASSUME NEW c \in Browsers
             PROVE  Tailed(buffer'[c] \o events'[c], inbox[c], unheard'[c], published)
  BY <1>1 DEF TailInv
<1>3. CASE c = b
  <2> DEFINE all == buffer[b] \o events[b]
  <2>1. /\ inbox[b] \in Box /\ published \in Nat /\ Numbers(inbox[b]) = InTransit(b)
        /\ buffer[b] \in Seq(Nat) /\ events[b] \in Seq(Nat)
        /\ Tailed(all, inbox[b], unheard[b], published)
    BY KeptFacts DEF TailInv
  <2>2. kept \in Seq(Nat)
    <3>1. <<>> \in Seq(Nat)
      OBVIOUS
    <3> QED
      BY <2>1, <3>1
  <2>3. <<>> \o kept = kept
    BY <2>2
  <2>4. PICK shift \in Nat : shift = Len(buffer[b])
    BY <2>1
  <2>5. \A i \in 1..Len(kept) : shift + i \in 1..Len(all) /\ kept[i] = all[shift + i]
    <3>1. \A i \in 1..Len(events[b]) : shift + i \in 1..Len(all) /\ events[b][i] = all[shift + i]
      BY <2>1, <2>4, ConcatFacts
    <3>2. Len(<<>>) = 0 /\ 1..0 = {}
      OBVIOUS
    <3> HIDE DEF all
    <3>3. CASE kept = events[b]
      BY <3>1, <3>3
    <3>4. CASE kept = <<>>
      BY <3>2, <3>4
    <3> QED
      BY <3>3, <3>4
  <2> HIDE DEF all
  <2>6. Tailed(kept, inbox[b], (1..published) \ (Entries(kept) \cup Numbers(inbox[b])), published)
    <3>1. inbox[b] \in Box /\ published \in Nat /\ Tailed(all, inbox[b], unheard[b], published)
      BY <2>1
    <3>2. EndOf(kept, all)
      BY <2>5 DEF EndOf
    <3> DEFINE rest == (1..published) \ (Entries(kept) \cup Numbers(inbox[b]))
    <3>3. rest = (1..published) \ (Entries(kept) \cup Numbers(inbox[b]))
      OBVIOUS
    <3> HIDE DEF rest
    <3>4. Tailed(kept, inbox[b], rest, published)
      BY <2>2, <3>1, <3>2, <3>3, DropTailed
    <3> QED
      BY <3>4 DEF rest
  <2>7. /\ buffer'[b] = <<>> /\ events'[b] = kept
        /\ unheard'[b] = (1..published) \ (Entries(kept) \cup Numbers(inbox[b]))
    BY <1>1, <1>2, <2>1
  <2> QED
    BY <1>3, <2>3, <2>6, <2>7
<1>4. CASE c # b
  BY <1>1, <1>2, <1>4 DEF TailInv
<1> QED
  BY <1>3, <1>4
LEMMA NewestOnTop ==
    ASSUME NEW list \in Seq(Nat), Len(list) <= MaxEvents, NEW rest \in Seq(Nat), NEW n \in Nat
    PROVE  /\ Newest(<<n>> \o list) \o rest \in Seq(Nat)
           /\ OnTop(n, list \o rest, Newest(<<n>> \o list) \o rest)
<1> DEFINE top == Newest(<<n>> \o list)
           kept == list \o rest
           after == top \o rest
<1>1. /\ top \in Seq(Nat) /\ Len(top) \in 1..MaxEvents
      /\ Len(top) = IF Len(list) + 1 > MaxEvents THEN MaxEvents ELSE Len(list) + 1
      /\ \A i \in 1..Len(top) : top[i] = IF i = 1 THEN n ELSE list[i - 1]
  BY NewestFacts
<1> HIDE DEF top
<1>2. /\ kept \in Seq(Nat) /\ Len(list) \in Nat /\ Len(rest) \in Nat
      /\ Len(kept) = Len(list) + Len(rest)
      /\ \A i \in 1..Len(list) : kept[i] = list[i]
      /\ \A i \in 1..Len(rest) : kept[Len(list) + i] = rest[i]
  BY ConcatFacts
<1>3. /\ after \in Seq(Nat) /\ Len(top) \in Nat /\ Len(after) = Len(top) + Len(rest)
      /\ \A i \in 1..Len(top) : after[i] = top[i]
      /\ \A k \in 1..Len(after) : \/ k \in 1..Len(top) /\ after[k] = top[k]
                                  \/ k - Len(top) \in 1..Len(rest) /\ after[k] = rest[k - Len(top)]
  BY <1>1, ConcatFacts
<1> HIDE DEF kept, after
<1>4. MaxEvents \in Nat \ {0}
  BY FeedAssumption
<1>9. /\ Len(list) \in Nat /\ Len(rest) \in Nat /\ Len(top) \in Nat /\ Len(top) >= 1
      /\ Len(kept) = Len(list) + Len(rest) /\ Len(after) = Len(top) + Len(rest)
      /\ Len(top) = Len(list) + 1 \/ (Len(top) = MaxEvents /\ Len(list) = MaxEvents)
  <2>1. Len(list) \in Nat /\ Len(top) \in 1..MaxEvents
    BY <1>1, <1>2
  <2>2. Len(top) = Len(list) + 1 \/ (Len(top) = MaxEvents /\ Len(list) = MaxEvents)
    <3>1. Len(top) = IF Len(list) + 1 > MaxEvents THEN MaxEvents ELSE Len(list) + 1
      BY <1>1
    <3> QED
      BY <1>4, <2>1, <3>1
  <2> QED
    BY <1>2, <1>3, <2>1, <2>2
<1>5. Len(after) >= 1 /\ after[1] = n
  <2>1. Len(after) >= 1 /\ 1 \in 1..Len(top)
    BY <1>9
  <2>2. top[1] = n
    BY <1>1, <2>1
  <2> QED
    BY <1>3, <2>1, <2>2
<1>6. Len(after) = Len(kept) + 1 \/ (Len(after) = Len(kept) /\ Len(kept) >= MaxEvents)
  BY <1>9, <1>4
<1>7. ASSUME NEW i \in 1..Len(after), i # 1
      PROVE  after[i] = kept[IF Len(after) = Len(kept) /\ i > MaxEvents THEN i ELSE i - 1]
  <2>1. CASE i \in 1..Len(top)
    <3>1. i - 1 \in 1..Len(list) /\ ~(i > MaxEvents)
      BY <1>1, <1>2, <1>4, <1>7, <2>1
    <3>2. after[i] = list[i - 1]
      BY <1>1, <1>3, <1>7, <2>1
    <3> QED
      BY <1>2, <3>1, <3>2
  <2>2. CASE i - Len(top) \in 1..Len(rest) /\ after[i] = rest[i - Len(top)]
    <3>1. after[i] = kept[Len(list) + (i - Len(top))]
      BY <1>2, <2>2
    <3>2. CASE Len(top) = Len(list) + 1
      <4>1. Len(after) = Len(kept) + 1 /\ Len(list) + (i - Len(top)) = i - 1
        BY <1>9, <3>2
      <4> QED
        BY <1>2, <3>1, <4>1
    <3>3. CASE Len(top) = MaxEvents /\ Len(list) = MaxEvents
      <4>1. Len(after) = Len(kept) /\ Len(list) + (i - Len(top)) = i /\ i > MaxEvents
        BY <1>9, <1>4, <2>2, <3>3
      <4> QED
        BY <3>1, <4>1
    <3> QED
      BY <1>9, <3>2, <3>3
  <2> QED
    BY <1>3, <2>1, <2>2
<1>8. OnTop(n, kept, after)
  BY <1>5, <1>6, <1>7 DEF OnTop
<1> QED
  BY <1>3, <1>8 DEF kept, after, top

LEMMA ReceiveTail == ASSUME FeedTypes, TailInv, NEW b \in Browsers, Receive(b) PROVE TailInv'
<1> DEFINE m == Head(inbox[b])
           kept == buffer[b] \o events[b]
<1>1. /\ UNCHANGED <<paused, published, unheard>> /\ inbox[b] # <<>>
      /\ inbox' = [inbox EXCEPT ![b] = Tail(@)]
      /\ m.kind = "alert" => UNCHANGED <<events, buffer>>
  BY DEF Receive
<1>2. /\ inbox[b] \in Box /\ published \in Nat /\ kept \in Seq(Nat)
      /\ buffer[b] \in Seq(Nat) /\ events[b] \in Seq(Nat)
      /\ Len(buffer[b]) <= MaxEvents /\ Len(events[b]) <= MaxEvents
      /\ Tailed(kept, inbox[b], unheard[b], published)
  BY KeptFacts DEF TailInv
<1>3. /\ DOMAIN events = Browsers /\ DOMAIN buffer = Browsers /\ DOMAIN inbox = Browsers
      /\ ~paused[b] => buffer[b] = <<>>
  BY DEF FeedTypes, Pipes, Panes
<1>4. m \in News \cup Numbered /\ m \in Entries(inbox[b]) /\ inbox'[b] = Tail(inbox[b])
  BY <1>1, <1>2, <1>3, EntriesFacts DEF Box
<1>5. \A c \in Browsers : c # b => buffer'[c] = buffer[c] /\ events'[c] = events[c] /\ inbox'[c] = inbox[c]
  <2>1. ASSUME NEW c \in Browsers, c # b PROVE buffer'[c] = buffer[c] /\ events'[c] = events[c]
    <3>1. CASE UNCHANGED <<events, buffer>>
      BY <3>1
    <3>2. CASE /\ buffer' = [buffer EXCEPT ![b] = Newest(<<m.number>> \o @)]
               /\ UNCHANGED events
      BY <2>1, <3>2
    <3>3. CASE /\ events' = [events EXCEPT ![b] = Newest(<<m.number>> \o @)]
               /\ UNCHANGED buffer
      BY <2>1, <3>3
    <3> QED
      BY <3>1, <3>2, <3>3 DEF Receive
  <2> QED
    BY <1>1, <2>1
<1>6. Tailed(buffer'[b] \o events'[b], Tail(inbox[b]), unheard[b], published)
  <2>1. CASE m.kind # "event"
    <3>1. m.kind = "alert"
      BY <1>4, <2>1 DEF News, Numbered
    <3>2. buffer'[b] \o events'[b] = kept
      BY <1>1, <3>1
    <3> HIDE DEF kept
    <3> QED
      BY <1>1, <1>2, <2>1, <3>2, NewsTaken
  <2>2. ASSUME m.kind = "event",
               NEW after \in Seq(Nat), OnTop(m.number, kept, after)
        PROVE  Tailed(after, Tail(inbox[b]), unheard[b], published)
    <3> HIDE DEF kept
    <3> QED
      BY <1>1, <1>2, <2>2, EventTaken
  <2>3. m.kind = "event" => m.number \in Nat
    BY <1>4 DEF News, Numbered
  <2>4. CASE m.kind = "event" /\ paused[b]
    <3>1. buffer' = [buffer EXCEPT ![b] = Newest(<<m.number>> \o @)] /\ events' = events
      BY <2>4 DEF Receive
    <3>2. buffer'[b] \o events'[b] = Newest(<<m.number>> \o buffer[b]) \o events[b]
      BY <1>3, <3>1
    <3>3. /\ Newest(<<m.number>> \o buffer[b]) \o events[b] \in Seq(Nat)
          /\ OnTop(m.number, kept, Newest(<<m.number>> \o buffer[b]) \o events[b])
      BY <1>2, <2>3, <2>4, NewestOnTop
    <3> QED
      BY <2>2, <2>4, <3>2, <3>3
  <2>5. CASE m.kind = "event" /\ ~paused[b]
    <3>1. events' = [events EXCEPT ![b] = Newest(<<m.number>> \o @)] /\ buffer' = buffer
      BY <2>5 DEF Receive
    <3>2. <<>> \in Seq(Nat) /\ (\A s \in Seq(Nat) : s \o <<>> = s /\ <<>> \o s = s)
      OBVIOUS
    <3>3. /\ Newest(<<m.number>> \o events[b]) \o <<>> \in Seq(Nat)
          /\ OnTop(m.number, events[b] \o <<>>, Newest(<<m.number>> \o events[b]) \o <<>>)
      BY <1>2, <2>3, <2>5, <3>2, NewestOnTop
    <3>4. Newest(<<m.number>> \o events[b]) \in Seq(Nat)
      BY <1>2, <2>3, <2>5, NewestFacts
    <3>5. buffer[b] = <<>> /\ kept = events[b]
      BY <1>2, <1>3, <2>5, <3>2
    <3> DEFINE after == Newest(<<m.number>> \o events[b])
    <3>6. buffer'[b] \o events'[b] = after
      BY <1>3, <3>1, <3>2, <3>4, <3>5
    <3>7. OnTop(m.number, kept, after)
      <4> HIDE DEF kept, after
      <4>1. after \o <<>> = after /\ events[b] \o <<>> = events[b]
        BY <1>2, <3>2, <3>4 DEF after
      <4> QED
        BY <3>3, <3>5, <4>1 DEF after
    <3> QED
      BY <2>2, <2>5, <3>4, <3>6, <3>7
  <2> QED
    BY <2>1, <2>4, <2>5
<1> SUFFICES ASSUME NEW c \in Browsers
             PROVE  Tailed(buffer'[c] \o events'[c], inbox'[c], unheard[c], published)
  BY <1>1 DEF TailInv
<1>7. CASE c = b
  BY <1>4, <1>6, <1>7
<1>8. CASE c # b
  BY <1>5, <1>8 DEF TailInv
<1> QED
  BY <1>7, <1>8

LEMMA TailStep == FeedTypes /\ TailInv /\ [FeedNext]_allVars => TailInv'
<1> SUFFICES ASSUME FeedTypes, TailInv, [FeedNext]_allVars PROVE TailInv'
  OBVIOUS
<1>1. ASSUME NEW w \in Workers,
             \/ FeedLookup(w) \/ FeedApply(w) \/ FeedCommit(w) \/ FeedRollback(w)
             \/ QuietBatch(w) \/ PublishFails(w)
      PROVE  TailInv'
  <2>1. UNCHANGED <<events, buffer, inbox, unheard, published>>
    BY <1>1 DEF FeedLookup, FeedApply, FeedCommit, FeedRollback, QuietBatch, PublishFails, screenVars
  <2> QED
    BY <2>1, TailStays
<1>2. ASSUME NEW w \in Workers, Publish(w) PROVE TailInv'
  <2>1. UNCHANGED <<socket, screenVars>> /\ Head(sending[w]) \in News \cup Batch
    BY <1>2 DEF Publish, FeedTypes, Pipes
  <2>2. CASE Head(sending[w]).kind = "alert"
    <3>1. Head(sending[w]) \in News /\ PublishNews(Head(sending[w]))
      BY <1>2, <2>1, <2>2 DEF Publish, Batch
    <3> QED
      BY <2>1, <3>1, PublishNewsTail
  <2>3. CASE Head(sending[w]).kind # "alert"
    BY <1>2, <2>1, <2>3, PublishEventsTail DEF Publish
  <2> QED
    BY <2>2, <2>3
<1>3. ASSUME NEW x \in Analysts,
             FeedPatchRead(x) \/ FeedPatchSame(x) \/ FeedPatchWrite(x) \/ FeedPatchRefused(x) \/ PublishMoveFails(x)
      PROVE  TailInv'
  <2>1. UNCHANGED <<events, buffer, inbox, unheard, published>>
    BY <1>3 DEF FeedPatchRead, FeedPatchSame, FeedPatchWrite, FeedPatchRefused, PublishMoveFails, feedVars, screenVars
  <2> QED
    BY <2>1, TailStays
<1>4. ASSUME NEW x \in Analysts, PublishMove(x) PROVE TailInv'
  <2>1. telling[x] \in News /\ PublishNews(telling[x]) /\ UNCHANGED screenVars
    BY <1>4 DEF PublishMove, FeedTypes, Pipes
  <2> QED
    BY <2>1, PublishNewsTail
<1>5. ASSUME NEW b \in Browsers, Connect(b) \/ Subscribe(b) \/ Pause(b) PROVE TailInv'
  <2>1. UNCHANGED <<events, buffer, inbox, unheard, published>>
    BY <1>5 DEF Connect, Subscribe, Pause, screenVars
  <2> QED
    BY <2>1, TailStays
<1>6. ASSUME NEW b \in Browsers, Resume(b) \/ ClearEvents(b) PROVE TailInv'
  BY <1>6, DropTail DEF Resume, ClearEvents
<1>7. CASE UNCHANGED allVars
  <2>1. UNCHANGED <<events, buffer, inbox, unheard, published>>
    BY <1>7 DEF allVars, feedVars, screenVars
  <2> QED
    BY <2>1, TailStays
<1> QED
  BY <1>1, <1>2, <1>3, <1>4, <1>5, <1>6, <1>7, DisconnectTail, ReceiveTail DEF FeedNext

LEMMA TailMeaning == FeedTypes /\ TailInv => LiveTail
<1> SUFFICES ASSUME FeedTypes, TailInv, NEW b \in Browsers
             PROVE  LET kept == buffer[b] \o events[b] IN
                    /\ \A i, j \in DOMAIN kept : i < j => kept[i] > kept[j]
                    /\ \A n \in (1..published) \ (unheard[b] \cup InTransit(b) \cup Entries(kept)) :
                         Len(kept) >= MaxEvents /\ kept[MaxEvents] > n
  BY DEF LiveTail
<1> DEFINE kept == buffer[b] \o events[b]
<1>1. /\ kept \in Seq(Nat) /\ Numbers(inbox[b]) = InTransit(b)
      /\ Tailed(kept, inbox[b], unheard[b], published)
  BY KeptFacts DEF TailInv
<1> HIDE DEF kept
<1>2. DOMAIN kept = 1..Len(kept)
  BY <1>1
<1>3. \A i, j \in DOMAIN kept : i < j => kept[i] > kept[j]
  BY <1>1, <1>2 DEF Tailed
<1>4. \A n \in (1..published) \ (unheard[b] \cup InTransit(b) \cup Entries(kept)) :
        Len(kept) >= MaxEvents /\ kept[MaxEvents] > n
  BY <1>1 DEF Tailed
<1> QED
  BY <1>3, <1>4 DEF kept

(***************************************************************************)
(* The live view is the tail of the stream, whatever is paused, cut off,   *)
(* or published meanwhile (RealtimeProvider.tsx:57-68, 107-113).           *)
(***************************************************************************)
THEOREM LiveTailHolds == FeedSpec => []LiveTail
<1>1. FeedInit => TailInv
  <2> SUFFICES ASSUME FeedInit, NEW b \in Browsers
               PROVE  Tailed(buffer[b] \o events[b], inbox[b], unheard[b], published)
    BY DEF TailInv
  <2>1. buffer[b] \o events[b] = <<>> /\ inbox[b] = <<>> /\ published = 0
    BY DEF FeedInit
  <2>2. Len(<<>>) = 0 /\ 1..0 = {}
    OBVIOUS
  <2> QED
    BY <2>1, <2>2 DEF Tailed
<1>2. FeedTypes /\ TailInv /\ [FeedNext]_allVars => TailInv'
  BY TailStep
<1>3. FeedTypes /\ TailInv => LiveTail
  BY TailMeaning
<1>4. FeedInit => FeedTypes
  BY InitFeedTypes
<1>5. IInv /\ FeedTypes /\ [FeedNext]_allVars => FeedTypes'
  BY FeedTypesStep
<1> QED
  BY <1>1, <1>2, <1>3, <1>4, <1>5, FeedInvariance, PTL DEF FeedSpec
-----------------------------------------------------------------------------
(***************************************************************************)
(* One worker: no message is ahead of the table.                           *)
(***************************************************************************)
LEMMA CountsHold ==
    ASSUME \A v, w \in Workers : v = w
    PROVE  FeedSpec => []CountsInv
  BY FeedImplementsTriage, CountsInvHolds, PTL

(***************************************************************************)
(* What a message says is backed by a table and the audit log, and stays   *)
(* so while counts and log only grow.  Every message said after a commit   *)
(* is backed by the committed rows, every one of an open transaction by    *)
(* what its worker sees.                                                   *)
(***************************************************************************)
BackedBy(m, t, log) ==
    /\ m.alert \in DOMAIN t
    /\ m.count <= t[m.alert].count
    /\ m.status = "open" \/ \E i \in MovesIn(log, m.alert) : log[i].to = m.status

Said == {m \in News :
            \/ \E b \in Browsers : m \in Entries(shown[b]) \cup Entries(inbox[b])
            \/ \E w \in Workers : m \in Entries(sending[w])
            \/ \E x \in Analysts : telling[x] = m /\ telling[x] # NoPatch}

BackedInv ==
    /\ \A m \in Said : BackedBy(m, rows, audit)
    /\ \A w \in Workers : \A m \in Entries(outbox[w]) : BackedBy(m, View(w), audit)

Keeps(log, longer) == \A i \in 1..Len(log) : i \in 1..Len(longer) /\ longer[i] = log[i]

LEMMA BackedMore ==
    ASSUME NEW t, NEW u, NEW log, NEW longer, NEW m \in News,
           IsTable(t), IsTable(u), Grows(t, u), Keeps(log, longer), BackedBy(m, t, log)
    PROVE  BackedBy(m, u, longer)
<1>1. m.alert \in DOMAIN t /\ m.alert \in DOMAIN u /\ t[m.alert].count <= u[m.alert].count
  BY DEF BackedBy, Grows
<1>2. m.count \in Nat /\ t[m.alert].count \in Nat /\ u[m.alert].count \in Nat
  BY <1>1 DEF News, IsTable, Row
<1>3. m.count <= u[m.alert].count
  BY <1>1, <1>2 DEF BackedBy
<1>4. \A i \in MovesIn(log, m.alert) : i \in MovesIn(longer, m.alert) /\ longer[i] = log[i]
  BY DEF MovesIn, Keeps
<1> QED
  BY <1>1, <1>3, <1>4 DEF BackedBy

LEMMA AuditKept == ASSUME IInv, [Next]_vars PROVE Keeps(audit, audit')
<1>1. ASSUME NEW x \in Analysts, PatchWrite(x) PROVE Keeps(audit, audit')
  <2>1. audit' = Append(audit, MoveOf(x)) /\ MoveOf(x) \in Move
    BY <1>1 DEF PatchWrite, IInv, TypeOK, Request, Row, MoveOf, Move
  <2>2. audit \in Seq(Move)
    BY DEF IInv, TypeOK
  <2>3. /\ Len(audit') = Len(audit) + 1 /\ Len(audit) \in Nat
        /\ \A i \in 1..Len(audit) : audit'[i] = audit[i]
    BY <2>1, <2>2
  <2> QED
    BY <2>3 DEF Keeps
<1>2. CASE UNCHANGED audit
  BY <1>2 DEF Keeps
<1>3. ASSUME NEW w \in Workers, Lookup(w) \/ Insert(w) \/ Fold(w) \/ Commit(w) \/ Rollback(w)
      PROVE  UNCHANGED audit
  BY <1>3 DEF Lookup, Insert, Fold, Flush, Commit, Rollback, EndTransaction
<1>4. ASSUME NEW x \in Analysts, PatchRead(x) \/ PatchRefused(x) PROVE UNCHANGED audit
  BY <1>4 DEF PatchRead, PatchRefused
<1>5. UNCHANGED vars => UNCHANGED audit
  BY DEF vars
<1> QED
  BY <1>1, <1>2, <1>3, <1>4, <1>5 DEF Next

\* Only a commit and a request's write say anything new.
LEMMA SaidByWorker ==
    ASSUME FeedTypes, NEW w \in Workers,
           FeedLookup(w) \/ FeedApply(w) \/ FeedCommit(w) \/ FeedRollback(w) \/ QuietBatch(w)
    PROVE  Said' \subseteq Said \cup IF FeedCommit(w) THEN Entries(outbox[w]) ELSE {}
<1> DEFINE e == [kind |-> "events"]
<1>1. UNCHANGED <<telling, inbox, shown>>
  BY DEF FeedLookup, FeedApply, FeedCommit, FeedRollback, QuietBatch, screenVars
<1>2. sending \in [Workers -> Seq(News \cup Batch)] /\ outbox[w] \in Seq(News)
  BY DEF FeedTypes, Pipes
<1>3. e \notin News
  BY DEF News
<1>4. \A v \in Workers : v # w => sending'[v] = sending[v]
  <2>1. sending' = sending \/ \E s : sending' = [sending EXCEPT ![w] = s]
    BY DEF FeedLookup, FeedApply, FeedCommit, FeedRollback, QuietBatch
  <2> QED
    BY <1>2, <2>1
<1>5. Entries(sending'[w]) \subseteq Entries(sending[w]) \cup {e} \cup
         IF FeedCommit(w) THEN Entries(outbox[w]) ELSE {}
  <2>1. CASE FeedCommit(w)
    <3>1. sending'[w] = <<e>> \o outbox[w]
      BY <1>2, <2>1 DEF FeedCommit
    <3> HIDE DEF e
    <3>2. Entries(<<e>> \o outbox[w]) = Entries(outbox[w]) \cup {e}
      BY <1>2, EntriesFacts
    <3> QED
      BY <2>1, <3>1, <3>2
  <2>2. CASE QuietBatch(w)
    <3>1. sending'[w] = <<e>>
      BY <1>2, <2>2 DEF QuietBatch
    <3> HIDE DEF e
    <3>2. Entries(<<e>>) = {e}
      BY DEF Entries
    <3> QED
      BY <3>1, <3>2
  <2>3. CASE FeedLookup(w) \/ FeedApply(w) \/ FeedRollback(w)
    BY <2>3 DEF FeedLookup, FeedApply, FeedRollback
  <2> QED
    BY <2>1, <2>2, <2>3
<1> HIDE DEF e
<1> QED
  BY <1>1, <1>3, <1>4, <1>5 DEF Said

LEMMA SaidByPublisher ==
    ASSUME FeedTypes, NEW w \in Workers, Publish(w) \/ PublishFails(w)
    PROVE  Said' \subseteq Said
<1>1. UNCHANGED <<telling, shown>> /\ sending[w] # <<>>
  BY DEF Publish, PublishFails, screenVars
<1>2. /\ sending \in [Workers -> Seq(News \cup Batch)] /\ Pipes
      /\ Head(sending[w]) \in Entries(sending[w]) /\ Head(sending[w]) \in News \cup Batch
      /\ Entries(Tail(sending[w])) \subseteq Entries(sending[w])
  BY <1>1, EntriesFacts DEF FeedTypes, Pipes
<1>3. \A v \in Workers : Entries(sending'[v]) \subseteq Entries(sending[v])
  <2>1. Entries(<<>>) = {}
    BY DEF Entries
  <2> QED
    BY <1>2, <2>1 DEF Publish, PublishFails
<1>4. \A b \in Browsers : \A m \in Entries(inbox'[b]) :
        m \in Entries(inbox[b]) \/ m = Head(sending[w]) \/ m \notin News
  <2>1. CASE PublishFails(w)
    BY <2>1 DEF PublishFails
  <2>2. CASE Publish(w) /\ Head(sending[w]).kind = "alert"
    <3>1. Broadcast(Head(sending[w])) /\ Head(sending[w]) \in News \cup Numbered
      BY <1>2, <2>2 DEF Publish, PublishNews, Batch
    <3>2. \A b \in Browsers :
            \/ inbox'[b] = inbox[b]
            \/ Entries(inbox'[b]) = Entries(inbox[b]) \cup {Head(sending[w])}
      BY <1>2, <3>1, BroadcastFacts
    <3> QED
      BY <3>2
  <2>3. CASE Publish(w) /\ Head(sending[w]).kind # "alert"
    <3> DEFINE e == [kind |-> "event", number |-> published + 1]
    <3>1. Broadcast(e)
      BY <2>3 DEF Publish, PublishEvents
    <3>2. e \in Numbered /\ e \notin News
      BY <1>2 DEF Pipes, Numbered, News
    <3> HIDE DEF e
    <3>3. \A b \in Browsers :
            inbox'[b] = inbox[b] \/ Entries(inbox'[b]) = Entries(inbox[b]) \cup {e}
      BY <1>2, <3>1, <3>2, BroadcastFacts
    <3> QED
      BY <3>2, <3>3
  <2> QED
    BY <2>1, <2>2, <2>3
<1> QED
  BY <1>1, <1>2, <1>3, <1>4 DEF Said

LEMMA SaidByRequest ==
    ASSUME FeedTypes, NEW x \in Analysts,
           \/ FeedPatchRead(x) \/ FeedPatchSame(x) \/ FeedPatchWrite(x) \/ FeedPatchRefused(x)
           \/ PublishMove(x) \/ PublishMoveFails(x)
    PROVE  \/ Said' \subseteq Said
           \/ /\ FeedPatchWrite(x)
              /\ Said' \subseteq Said \cup {Told(patch[x].alert, patch[x].to, patch[x].read.count)}
           \/ /\ FeedPatchSame(x)
              /\ \E a \in DOMAIN rows : Said' \subseteq Said \cup {Told(a, rows[a].status, rows[a].count)}
<1> DEFINE new == Told(patch[x].alert, patch[x].to, patch[x].read.count)
           Saved(a) == Told(a, rows[a].status, rows[a].count)
<1>1. UNCHANGED <<sending, shown>>
  BY DEF FeedPatchRead, FeedPatchSame, FeedPatchWrite, FeedPatchRefused, PublishMove, PublishMoveFails,
         feedVars, screenVars
<1>2. telling \in [Analysts -> News \cup {NoPatch}] /\ Pipes
  BY DEF FeedTypes, Pipes
<1>3. \/ \A y \in Analysts : telling'[y] = telling[y] \/ telling'[y] = NoPatch
      \/ FeedPatchWrite(x) /\ \A y \in Analysts : telling'[y] = telling[y] \/ telling'[y] = new
      \/ /\ FeedPatchSame(x)
         /\ \E a \in DOMAIN rows : \A y \in Analysts : telling'[y] = telling[y] \/ telling'[y] = Saved(a)
  BY <1>2 DEF FeedPatchRead, FeedPatchSame, FeedPatchWrite, FeedPatchRefused, PublishMove, PublishMoveFails, feedVars
<1>4. \A b \in Browsers : \A m \in Entries(inbox'[b]) :
        m \in Entries(inbox[b]) \/ (telling[x] # NoPatch /\ m = telling[x])
  <2>1. CASE PublishMove(x)
    <3>1. Broadcast(telling[x]) /\ telling[x] \in News \cup Numbered /\ telling[x] # NoPatch
      BY <1>2, <2>1 DEF PublishMove, PublishNews
    <3>2. \A b \in Browsers :
            inbox'[b] = inbox[b] \/ Entries(inbox'[b]) = Entries(inbox[b]) \cup {telling[x]}
      BY <1>2, <3>1, BroadcastFacts
    <3> QED
      BY <3>1, <3>2
  <2>2. CASE FeedPatchRead(x) \/ FeedPatchSame(x) \/ FeedPatchWrite(x) \/ FeedPatchRefused(x) \/ PublishMoveFails(x)
    BY <2>2 DEF FeedPatchRead, FeedPatchSame, FeedPatchWrite, FeedPatchRefused, PublishMoveFails, feedVars
  <2> QED
    BY <2>1, <2>2
<1> HIDE DEF new, Saved
<1>5. \/ Said' \subseteq Said
      \/ FeedPatchWrite(x) /\ Said' \subseteq Said \cup {new}
      \/ FeedPatchSame(x) /\ \E a \in DOMAIN rows : Said' \subseteq Said \cup {Saved(a)}
  BY <1>1, <1>3, <1>4 DEF Said
<1> QED
  BY <1>5 DEF new, Saved

LEMMA SaidByBrowser ==
    ASSUME FeedTypes, NEW b \in Browsers,
           \/ Connect(b) \/ Subscribe(b) \/ Receive(b) \/ Disconnect(b)
           \/ Pause(b) \/ Resume(b) \/ ClearEvents(b)
    PROVE  Said' \subseteq Said
<1>1. UNCHANGED <<sending, telling>>
  BY DEF Connect, Subscribe, Receive, Disconnect, Pause, Resume, ClearEvents, Drop
<1>2. inbox \in [Browsers -> Seq(News \cup Numbered)] /\ shown \in [Browsers -> Seq(News)]
  BY DEF FeedTypes, Pipes, Panes
<1>3. CASE Receive(b)
  <2> DEFINE m == Head(inbox[b])
  <2>1. m \in Entries(inbox[b]) /\ m \in News \cup Numbered /\ Entries(Tail(inbox[b])) \subseteq Entries(inbox[b])
    BY <1>2, <1>3, EntriesFacts DEF Receive
  <2>2. \A c \in Browsers : Entries(inbox'[c]) \subseteq Entries(inbox[c])
    BY <1>2, <1>3, <2>1 DEF Receive
  <2>3. \A c \in Browsers : \A n \in Entries(shown'[c]) : n \in Entries(shown[c]) \/ (c = b /\ n = m)
    <3>1. CASE m.kind = "alert"
      <4>1. m \in News
        BY <2>1, <3>1 DEF Numbered
      <4>2. shown' = [shown EXCEPT ![b] = Listed(m, @)]
        BY <1>3, <3>1 DEF Receive
      <4>3. Entries(Listed(m, shown[b])) \subseteq {n \in Entries(shown[b]) : n.alert # m.alert} \cup {m}
        BY <1>2, <4>1, ListedFacts
      <4> HIDE DEF m
      <4> QED
        BY <1>2, <4>2, <4>3
    <3>2. CASE m.kind # "alert"
      BY <1>3, <3>2 DEF Receive
    <3> QED
      BY <3>1, <3>2
  <2> HIDE DEF m
  <2> QED
    BY <1>1, <2>1, <2>2, <2>3 DEF Said
<1>4. CASE \/ Connect(b) \/ Subscribe(b) \/ Disconnect(b) \/ Pause(b) \/ Resume(b) \/ ClearEvents(b)
  <2>1. shown' = shown
    BY <1>4 DEF Connect, Subscribe, Disconnect, Pause, Resume, ClearEvents, Drop, screenVars
  <2>2. \A c \in Browsers : inbox'[c] = inbox[c] \/ inbox'[c] = <<>>
    BY <1>2, <1>4 DEF Connect, Subscribe, Disconnect, Pause, Resume, ClearEvents, Drop
  <2>3. Entries(<<>>) = {}
    BY DEF Entries
  <2> QED
    BY <1>1, <2>1, <2>2, <2>3 DEF Said
<1> QED
  BY <1>3, <1>4

\* What is said next is said already, or backed by the tables as they are then.
LEMMA SaidStep ==
    ASSUME IInv, FeedTypes, [FeedNext]_allVars
    PROVE  \/ Said' \subseteq Said
           \/ \E w \in Workers : FeedCommit(w) /\ Said' \subseteq Said \cup Entries(outbox[w])
           \/ \E x \in Analysts :
                /\ FeedPatchWrite(x)
                /\ Said' \subseteq Said \cup {Told(patch[x].alert, patch[x].to, patch[x].read.count)}
           \/ \E x \in Analysts :
                /\ FeedPatchSame(x)
                /\ \E a \in DOMAIN rows : Said' \subseteq Said \cup {Told(a, rows[a].status, rows[a].count)}
<1>1. ASSUME NEW w \in Workers,
             FeedLookup(w) \/ FeedApply(w) \/ FeedCommit(w) \/ FeedRollback(w) \/ QuietBatch(w)
      PROVE  Said' \subseteq Said \/ (FeedCommit(w) /\ Said' \subseteq Said \cup Entries(outbox[w]))
  BY <1>1, SaidByWorker
<1>2. ASSUME NEW x \in Analysts,
             \/ FeedPatchRead(x) \/ FeedPatchSame(x) \/ FeedPatchWrite(x) \/ FeedPatchRefused(x)
             \/ PublishMove(x) \/ PublishMoveFails(x)
      PROVE  \/ Said' \subseteq Said
             \/ /\ FeedPatchWrite(x)
                /\ Said' \subseteq Said \cup {Told(patch[x].alert, patch[x].to, patch[x].read.count)}
             \/ /\ FeedPatchSame(x)
                /\ \E a \in DOMAIN rows : Said' \subseteq Said \cup {Told(a, rows[a].status, rows[a].count)}
  BY <1>2, SaidByRequest
<1>3. UNCHANGED allVars => UNCHANGED <<shown, inbox, sending, telling>>
  BY DEF allVars, feedVars, screenVars
<1>4. UNCHANGED allVars => Said' \subseteq Said
  BY <1>3 DEF Said
<1> QED
  BY <1>1, <1>2, <1>4, SaidByPublisher, SaidByBrowser DEF FeedNext

LEMMA SaidBacked ==
    ASSUME \A v, w \in Workers : v = w, IInv, FeedTypes, CountsInv, BackedInv, [FeedNext]_allVars
    PROVE  \A m \in Said' : BackedBy(m, rows', audit')
<1>1. [Next]_vars /\ IInv'
  BY FeedStepTriage, NextIInv
<1>2. Grows(rows, rows') /\ Keeps(audit, audit') /\ IsTable(rows) /\ IsTable(rows')
  <2>1. IsTable(rows) /\ IsTable(rows)'
    BY <1>1 DEF IInv, TypeOK
  <2>2. IsTable(rows)' <=> IsTable(rows')
    BY DEF IsTable
  <2> QED
    BY <1>1, <2>1, <2>2, CountsStep, AuditKept
<1>3. ASSUME NEW m \in Said PROVE BackedBy(m, rows', audit')
  <2>1. m \in News /\ BackedBy(m, rows, audit)
    BY DEF Said, BackedInv
  <2> QED
    BY <1>2, <2>1, BackedMore
<1>4. ASSUME NEW w \in Workers, FeedCommit(w), NEW m \in Entries(outbox[w])
      PROVE  BackedBy(m, rows', audit')
  <2>1. rows' = View(w) /\ audit' = audit
    BY <1>4 DEF FeedCommit, Commit, EndTransaction
  <2> QED
    BY <2>1 DEF BackedInv
<1>5. ASSUME NEW x \in Analysts, FeedPatchWrite(x)
      PROVE  BackedBy(Told(patch[x].alert, patch[x].to, patch[x].read.count), rows', audit')
  <2> DEFINE m == Told(patch[x].alert, patch[x].to, patch[x].read.count)
  <2>1. PICK a \in DOMAIN rows :
          /\ a = patch[x].alert /\ patch[x] # NoPatch
          /\ rows[a] \in Row /\ DOMAIN rows' = DOMAIN rows
          /\ audit'[Len(audit) + 1] = MoveOf(x)
          /\ MovesIn(audit', a) = MovesIn(audit, a) \cup {Len(audit) + 1}
          /\ rows'[a] = [rows[a] EXCEPT !.status = patch[x].to,
                                        !.history = Noted(patch[x].read.history)]
    BY <1>5, WriteFacts DEF FeedPatchWrite
  <2>2. patch[x].read.count <= rows[a].count /\ rows'[a].count = rows[a].count
    BY <2>1 DEF CountsInv, Row
  <2>3. m.alert = a /\ m.status = patch[x].to /\ m.count = patch[x].read.count
    BY <2>1 DEF Told
  <2>4. MoveOf(x).to = patch[x].to
    BY DEF MoveOf
  <2> HIDE DEF m
  <2>5. BackedBy(m, rows', audit')
    BY <2>1, <2>2, <2>3, <2>4 DEF BackedBy
  <2> QED
    BY <2>5 DEF m
<1>6. ASSUME NEW x \in Analysts, FeedPatchSame(x), NEW a \in DOMAIN rows
      PROVE  BackedBy(Told(a, rows[a].status, rows[a].count), rows', audit')
  <2> DEFINE m == Told(a, rows[a].status, rows[a].count)
  <2>1. UNCHANGED <<rows, audit>> /\ a \in Alerts /\ rows[a] \in Row
    BY <1>2, <1>6 DEF FeedPatchSame, vars, IsTable
  <2>2. rows[a].status = "open" \/ \E i \in MovesIn(audit, a) : audit[i].to = rows[a].status
    BY MovesInFacts DEF IInv, AuditExplainsStatus
  <2>3. m.alert = a /\ m.status = rows[a].status /\ m.count = rows[a].count /\ rows[a].count \in Nat
    BY <2>1 DEF Told, Row
  <2> HIDE DEF m
  <2>4. BackedBy(m, rows', audit')
    BY <2>1, <2>2, <2>3 DEF BackedBy
  <2> QED
    BY <2>4 DEF m
<1> QED
  BY <1>3, <1>4, <1>5, <1>6, SaidStep

\* What an open transaction has taken down for later.
LEMMA OutboxBacked ==
    ASSUME \A v, w \in Workers : v = w, IInv, FeedTypes, CountsInv, BackedInv, [FeedNext]_allVars,
           NEW w \in Workers, NEW m \in Entries(outbox'[w])
    PROVE  BackedBy(m, View(w)', audit')
<1>0. outbox \in [Workers -> Seq(News)] /\ TypeOK
  BY DEF FeedTypes, Pipes, IInv
<1>1. [Next]_vars /\ IInv'
  BY FeedStepTriage, NextIInv
<1>2. Keeps(audit, audit') /\ IsTable(View(w)) /\ IsTable(View(w)')
  BY <1>1, ViewTyped, NextViewTyped, AuditKept DEF IInv
<1>3. ASSUME NEW n \in Entries(outbox[w]), Grows(View(w), View(w)')
      PROVE  BackedBy(n, View(w)', audit')
  <2>1. n \in News /\ BackedBy(n, View(w), audit)
    BY <1>0, EntriesFacts DEF BackedInv
  <2> QED
    BY <1>2, <1>3, <2>1, BackedMore
<1>4. CASE FeedApply(w)
  <2>1. PICK a \in Alerts, row \in Row :
          /\ Flush(w, a, row) /\ Snapshot(w) = Told(a, row.status, row.count)
          /\ a \in DOMAIN draft'[w] /\ draft'[w][a] = row
    BY <1>4, SnapshotFacts DEF FeedApply
  <2>2. Entries(outbox'[w]) = Entries(outbox[w]) \cup {Told(a, row.status, row.count)}
    BY <1>0, <1>4, <2>1, EntriesFacts DEF FeedApply
  <2>3. Grows(View(w), View(w)')
    BY <1>4, FlushesCounts DEF FeedApply
  <2> DEFINE n == Told(a, row.status, row.count)
  <2>4. a \in DOMAIN View(w)' /\ View(w)'[a] = row
    BY <1>0, <2>1 DEF View
  <2>5. row.status = "open" \/ \E i \in MovesIn(audit', a) : audit'[i].to = row.status
    <3>1. IF a \in DOMAIN rows' THEN row.status = rows'[a].status ELSE row.status = "open"
      BY <1>1, <2>1 DEF IInv, DraftsKeepStatus
    <3>2. a \in DOMAIN rows' =>
            \/ rows'[a].status = "open"
            \/ \E i \in MovesIn(audit', a) : audit'[i].to = rows'[a].status
      <4>1. AuditExplainsStatus'
        BY <1>1 DEF IInv
      <4> QED
        BY <4>1, MovesInFacts DEF AuditExplainsStatus
    <3> QED
      BY <3>1, <3>2
  <2>6. row.count \in Nat /\ n.alert = a /\ n.count = row.count /\ n.status = row.status
    BY DEF Row, Told
  <2> HIDE DEF n
  <2>7. BackedBy(n, View(w)', audit')
    BY <2>4, <2>5, <2>6 DEF BackedBy
  <2> QED
    BY <1>3, <2>2, <2>3, <2>7 DEF n
<1>5. CASE FeedCommit(w) \/ FeedRollback(w)
  <2>1. outbox'[w] = <<>>
    BY <1>0, <1>5 DEF FeedCommit, FeedRollback
  <2> QED
    BY <2>1 DEF Entries
<1>6. CASE /\ ~(FeedApply(w) \/ FeedCommit(w) \/ FeedRollback(w))
           /\ ~UNCHANGED <<rows, draft>>
  <2>1. PICK x \in Analysts : FeedPatchWrite(x)
    <3>1. ASSUME NEW v \in Workers,
                 FeedLookup(v) \/ QuietBatch(v) \/ Publish(v) \/ PublishFails(v)
          PROVE  UNCHANGED <<rows, draft>>
      BY <3>1 DEF FeedLookup, Lookup, QuietBatch, Publish, PublishFails, vars, workerVars
    <3>2. ASSUME NEW x \in Analysts,
                 \/ FeedPatchRead(x) \/ FeedPatchSame(x) \/ FeedPatchRefused(x)
                 \/ PublishMove(x) \/ PublishMoveFails(x)
          PROVE  UNCHANGED <<rows, draft>>
      BY <3>2 DEF FeedPatchRead, FeedPatchSame, PatchRead, FeedPatchRefused, PatchRefused, PublishMove,
                  PublishMoveFails, vars, workerVars
    <3>3. ASSUME NEW b \in Browsers,
                 \/ Connect(b) \/ Subscribe(b) \/ Receive(b) \/ Disconnect(b)
                 \/ Pause(b) \/ Resume(b) \/ ClearEvents(b)
          PROVE  UNCHANGED <<rows, draft>>
      BY <3>3 DEF Connect, Subscribe, Receive, Disconnect, Pause, Resume, ClearEvents, Drop,
                  vars, workerVars
    <3>4. UNCHANGED allVars => UNCHANGED <<rows, draft>>
      BY DEF allVars, vars, workerVars
    <3>5. \A v \in Workers : v = w
      OBVIOUS
    <3> QED
      BY <1>6, <3>1, <3>2, <3>3, <3>4, <3>5 DEF FeedNext
  <2>2. outbox' = outbox /\ Grows(View(w), View(w)')
    BY <2>1, WriteCounts DEF FeedPatchWrite
  <2> QED
    BY <1>3, <2>2
<1>7. CASE /\ ~(FeedApply(w) \/ FeedCommit(w) \/ FeedRollback(w))
           /\ UNCHANGED <<rows, draft>>
  <2>1. View(w)' = View(w)
    BY <1>7 DEF View
  <2>2. Grows(View(w), View(w)')
    BY <1>2, <2>1, GrowsFacts
  <2>3. outbox' = outbox
    <3>1. ASSUME NEW v \in Workers,
                 FeedLookup(v) \/ QuietBatch(v) \/ Publish(v) \/ PublishFails(v)
          PROVE  UNCHANGED outbox
      BY <3>1 DEF FeedLookup, QuietBatch, Publish, PublishFails
    <3>2. ASSUME NEW x \in Analysts,
                 \/ FeedPatchRead(x) \/ FeedPatchSame(x) \/ FeedPatchWrite(x) \/ FeedPatchRefused(x)
                 \/ PublishMove(x) \/ PublishMoveFails(x)
          PROVE  UNCHANGED outbox
      BY <3>2 DEF FeedPatchRead, FeedPatchSame, FeedPatchWrite, FeedPatchRefused, PublishMove, PublishMoveFails,
                  feedVars
    <3>3. ASSUME NEW b \in Browsers,
                 \/ Connect(b) \/ Subscribe(b) \/ Receive(b) \/ Disconnect(b)
                 \/ Pause(b) \/ Resume(b) \/ ClearEvents(b)
          PROVE  UNCHANGED outbox
      BY <3>3 DEF Connect, Subscribe, Receive, Disconnect, Pause, Resume, ClearEvents, Drop
    <3>4. UNCHANGED allVars => UNCHANGED outbox
      BY DEF allVars, feedVars
    <3>5. \A v \in Workers : v = w
      OBVIOUS
    <3> QED
      BY <1>7, <3>1, <3>2, <3>3, <3>4, <3>5 DEF FeedNext
  <2> QED
    BY <1>3, <2>2, <2>3
<1> QED
  BY <1>4, <1>5, <1>6, <1>7

(***************************************************************************)
(* With one worker no screen is ahead of the table: payloads are taken     *)
(* before the commit, but published only after it                          *)
(* (streaming/pipeline.py:114-143), and counts and audit log only grow.    *)
(***************************************************************************)
THEOREM ShownIsCommittedHolds ==
    ASSUME \A v, w \in Workers : v = w
    PROVE  FeedSpec => []ShownIsCommitted
<1>1. FeedInit => BackedInv
  <2>1. Entries(<<>>) = {}
    BY DEF Entries
  <2> QED
    BY <2>1 DEF FeedInit, BackedInv, Said
<1>2. IInv /\ FeedTypes /\ CountsInv /\ BackedInv /\ [FeedNext]_allVars => BackedInv'
  <2> SUFFICES ASSUME IInv, FeedTypes, CountsInv, BackedInv, [FeedNext]_allVars PROVE BackedInv'
    OBVIOUS
  <2> QED
    BY SaidBacked, OutboxBacked DEF BackedInv
<1>3. FeedTypes /\ BackedInv => ShownIsCommitted
  <2> SUFFICES ASSUME FeedTypes, BackedInv, NEW b \in Browsers, NEW m \in Entries(shown[b])
               PROVE  /\ m.alert \in DOMAIN rows /\ m.count <= rows[m.alert].count
                      /\ m.status = "open" \/ \E i \in Moves(m.alert) : audit[i].to = m.status
    BY DEF ShownIsCommitted
  <2>1. m \in News
    BY EntriesFacts DEF FeedTypes, Panes
  <2>2. m \in Said
    BY <2>1 DEF Said
  <2> QED
    BY <2>2, MovesInFacts DEF BackedInv, BackedBy
<1>4. FeedInit => FeedTypes
  BY InitFeedTypes
<1>5. IInv /\ FeedTypes /\ [FeedNext]_allVars => FeedTypes'
  BY FeedTypesStep
<1> QED
  BY <1>1, <1>2, <1>3, <1>4, <1>5, FeedInvariance, CountsHold, PTL DEF FeedSpec
-----------------------------------------------------------------------------
(***************************************************************************)
(* One worker: the news of an alert that no browser has a reason to miss   *)
(* is followed from the row to the screen.  The last message of the alert, *)
(* wherever it is, says what the table says.                               *)
(***************************************************************************)
Silent(n, a) == n.kind = "alert" => n.alert # a

\* m is the last that the list has to say of its alert.
Latest(list, m) ==
    \E i \in 1..Len(list) : list[i] = m /\ \A j \in 1..Len(list) : j > i => Silent(list[j], m.alert)

LEMMA AboutMeaning ==
    ASSUME NEW list, NEW a
    PROVE  a \in About(list) <=> \E n \in Entries(list) : ~Silent(n, a)
  BY DEF About, Silent

LEMMA EmptyAbout == About(<<>>) = {}
  BY DEF About, Entries

LEMMA LatestAppend ==
    ASSUME NEW S, NEW s \in Seq(S), NEW x
    PROVE  /\ Latest(Append(s, x), x)
           /\ \A m : Silent(x, m.alert) /\ Latest(s, m) => Latest(Append(s, x), m)
<1>1. /\ Len(Append(s, x)) = Len(s) + 1 /\ Len(s) \in Nat
      /\ \A i \in 1..Len(s) : Append(s, x)[i] = s[i]
      /\ Append(s, x)[Len(s) + 1] = x
  <2>1. s \in Seq(S \cup {x}) /\ x \in S \cup {x}
    OBVIOUS
  <2> QED
    BY <2>1
<1>2. Latest(Append(s, x), x)
  <2>1. Len(s) + 1 \in 1..(Len(s) + 1) /\ \A j \in 1..(Len(s) + 1) : ~(j > Len(s) + 1)
    BY <1>1
  <2> QED
    BY <1>1, <2>1 DEF Latest
<1>3. ASSUME NEW m, Silent(x, m.alert), Latest(s, m) PROVE Latest(Append(s, x), m)
  <2>1. PICK i \in 1..Len(s) :
          s[i] = m /\ \A j \in 1..Len(s) : j > i => Silent(s[j], m.alert)
    BY <1>3 DEF Latest
  <2>2. i \in 1..(Len(s) + 1) /\ Append(s, x)[i] = m
    BY <1>1, <2>1
  <2>3. \A j \in 1..(Len(s) + 1) : j \in 1..Len(s) \/ j = Len(s) + 1
    BY <1>1
  <2>4. ASSUME NEW j \in 1..(Len(s) + 1), j > i PROVE Silent(Append(s, x)[j], m.alert)
    BY <1>1, <1>3, <2>1, <2>3, <2>4
  <2> QED
    BY <1>1, <2>2, <2>4 DEF Latest
<1> QED
  BY <1>2, <1>3

\* The head is taken: it was the last word, or that is still to come.
LEMMA LatestTail ==
    ASSUME NEW S, NEW s \in Seq(S), s # <<>>, NEW m, Latest(s, m)
    PROVE  IF m.alert \in About(Tail(s)) THEN Latest(Tail(s), m) ELSE Head(s) = m \/ m.kind # "alert"
<1>1. /\ Len(s) \in Nat \ {0} /\ Head(s) = s[1] /\ Len(Tail(s)) = Len(s) - 1
      /\ \A i \in 1..(Len(s) - 1) : Tail(s)[i] = s[i + 1]
      /\ DOMAIN Tail(s) = 1..(Len(s) - 1)
  OBVIOUS
<1>2. PICK i \in 1..Len(s) : s[i] = m /\ \A j \in 1..Len(s) : j > i => Silent(s[j], m.alert)
  BY DEF Latest
<1>3. CASE i = 1
  <2>1. \A j \in 1..(Len(s) - 1) : Silent(Tail(s)[j], m.alert)
    BY <1>1, <1>2, <1>3
  <2>2. \A n \in Entries(Tail(s)) : Silent(n, m.alert)
    BY <1>1, <2>1 DEF Entries
  <2>3. m.alert \notin About(Tail(s))
    BY <2>2, AboutMeaning
  <2> QED
    BY <1>1, <1>2, <1>3, <2>3
<1>4. CASE i # 1
  <2>1. i - 1 \in 1..(Len(s) - 1) /\ Tail(s)[i - 1] = m
    BY <1>1, <1>2, <1>4
  <2>2. \A j \in 1..(Len(s) - 1) : j > i - 1 => j + 1 \in 1..Len(s) /\ j + 1 > i
    BY <1>1
  <2>3. \A j \in 1..(Len(s) - 1) : j > i - 1 => Silent(Tail(s)[j], m.alert)
    BY <1>1, <1>2, <2>2
  <2>4. Latest(Tail(s), m)
    BY <1>1, <2>1, <2>3 DEF Latest
  <2>5. m \in Entries(Tail(s))
    BY <1>1, <2>1 DEF Entries
  <2>6. m.kind = "alert" => m.alert \in About(Tail(s))
    BY <2>5 DEF About
  <2> QED
    BY <2>4, <2>6
<1> QED
  BY <1>3, <1>4

LEMMA LatestCons ==
    ASSUME NEW S, NEW s \in Seq(S), NEW x, NEW m, Latest(s, m)
    PROVE  Latest(<<x>> \o s, m)
<1>1. /\ Len(s) \in Nat /\ Len(<<x>> \o s) = Len(s) + 1
      /\ \A i \in 1..Len(s) : (<<x>> \o s)[i + 1] = s[i]
  <2>1. s \in Seq(S \cup {x}) /\ <<x>> \in Seq(S \cup {x}) /\ Len(<<x>>) = 1
    OBVIOUS
  <2> QED
    BY <2>1
<1>2. PICK i \in 1..Len(s) : s[i] = m /\ \A j \in 1..Len(s) : j > i => Silent(s[j], m.alert)
  BY DEF Latest
<1>3. i + 1 \in 1..(Len(s) + 1) /\ (<<x>> \o s)[i + 1] = m
  BY <1>1, <1>2
<1>4. ASSUME NEW j \in 1..(Len(s) + 1), j > i + 1 PROVE Silent((<<x>> \o s)[j], m.alert)
  <2>1. j - 1 \in 1..Len(s) /\ j - 1 > i /\ (j - 1) + 1 = j
    BY <1>1, <1>4
  <2>2. (<<x>> \o s)[j] = s[j - 1]
    BY <1>1, <2>1
  <2> QED
    BY <1>2, <2>1, <2>2
<1> QED
  BY <1>1, <1>3, <1>4 DEF Latest

\* Whom a longer or a shorter list is about.
LEMMA AboutLists ==
    ASSUME NEW S, NEW s \in Seq(S), NEW x, NEW a
    PROVE  /\ a \in About(Append(s, x)) <=> a \in About(s) \/ ~Silent(x, a)
           /\ a \in About(<<x>> \o s) <=> a \in About(s) \/ ~Silent(x, a)
<1>1. Entries(Append(s, x)) = Entries(s) \cup {x} /\ Entries(<<x>> \o s) = Entries(s) \cup {x}
  BY EntriesFacts
<1> QED
  BY <1>1, AboutMeaning

LEMMA AboutTail ==
    ASSUME NEW S, NEW s \in Seq(S), s # <<>>, NEW a
    PROVE  a \in About(s) <=> a \in About(Tail(s)) \/ ~Silent(Head(s), a)
<1>1. Entries(s) = Entries(Tail(s)) \cup {Head(s)}
  BY EntriesFacts
<1> QED
  BY <1>1, AboutMeaning

\* No alert is twice in the list.
Once(list) == \A i, j \in 1..Len(list) : i < j => list[i].alert # list[j].alert

LEMMA WithoutOnce ==
    ASSUME NEW list \in Seq(News), NEW a, Once(list)
    PROVE  /\ Once(Without(a, list))
           /\ Len(Without(a, list)) = IF a \in About(list) THEN Len(list) - 1 ELSE Len(list)
<1> DEFINE N == Len(list)
           Gone(n) == \E j \in 1..n : list[j].alert = a
<1>0. N \in Nat /\ (\A i \in 1..N : list[i] \in News) /\ DOMAIN list = 1..N
  OBVIOUS
<1>1. PICK kept :
        /\ Without(a, list) = kept[N]
        /\ \A i \in 0..N :
             kept[i] = IF i = 0 THEN <<>>
                       ELSE IF list[i].alert = a THEN kept[i - 1] ELSE Append(kept[i - 1], list[i])
  BY WithoutUnfolds
<1> DEFINE Holds(n) ==
             /\ kept[n] \in Seq(News) /\ Once(kept[n])
             /\ \A m \in Entries(kept[n]) : \E j \in 1..n : m = list[j]
             /\ Len(kept[n]) = IF Gone(n) THEN n - 1 ELSE n
           T == {n \in Nat : n <= N => Holds(n)}
<1>2. Holds(0)
  <2>1. kept[0] = <<>>
    BY <1>0, <1>1
  <2> QED
    BY <2>1 DEF Entries, Once
<1>3. ASSUME NEW n \in Nat, n + 1 <= N, Holds(n) PROVE Holds(n + 1)
  <2>1. n + 1 \in 0..N /\ n + 1 \in 1..N /\ n + 1 # 0 /\ (n + 1) - 1 = n
        /\ \A j \in 1..n : j \in 1..N /\ j \in 1..(n + 1) /\ j < n + 1
    BY <1>0, <1>3
  <2> DEFINE e == list[n + 1]
  <2>2. kept[n + 1] = IF e.alert = a THEN kept[n] ELSE Append(kept[n], e)
    BY <1>1, <2>1
  <2>3. e \in News /\ \A j \in 1..n : list[j].alert # e.alert
    BY <1>0, <2>1 DEF Once
  <2>4. \A j \in 1..(n + 1) : j \in 1..n \/ j = n + 1
    BY <1>3
  <2>5. Gone(n + 1) <=> Gone(n) \/ e.alert = a
    BY <2>1, <2>4
  <2>6. \A m \in Entries(kept[n]) : m.alert # e.alert
    BY <1>3, <2>3
  <2>7. CASE e.alert = a
    <3>1. ~Gone(n)
      BY <2>3, <2>7
    <3>2. Len(kept[n + 1]) = IF Gone(n + 1) THEN n ELSE n + 1
      BY <1>3, <2>2, <2>5, <2>7, <3>1
    <3> HIDE DEF e
    <3> QED
      BY <1>3, <2>1, <2>2, <2>7, <3>2
  <2>8. CASE e.alert # a
    <3> DEFINE k == kept[n]
    <3>0. k \in Seq(News) /\ Once(k) /\ e \in News
      BY <1>3, <2>3
    <3> HIDE DEF e
    <3>1. /\ Append(k, e) \in Seq(News) /\ Len(Append(k, e)) = Len(k) + 1 /\ Len(k) \in Nat
          /\ \A i \in 1..Len(k) : Append(k, e)[i] = k[i] /\ k[i] \in Entries(k)
          /\ Append(k, e)[Len(k) + 1] = e
      <4> HIDE DEF k
      <4> QED
        BY <3>0 DEF Entries
    <3>2. Once(Append(k, e))
      <4> HIDE DEF k
      <4>1. ASSUME NEW i \in 1..(Len(k) + 1), NEW j \in 1..(Len(k) + 1), i < j
            PROVE  Append(k, e)[i].alert # Append(k, e)[j].alert
        <5>1. i \in 1..Len(k) /\ (j \in 1..Len(k) \/ j = Len(k) + 1)
          BY <3>1, <4>1
        <5> QED
          BY <2>6, <3>0, <3>1, <4>1, <5>1 DEF Once, k
      <4> QED
        BY <3>1, <4>1 DEF Once
    <3>3. Entries(Append(k, e)) = Entries(k) \cup {e}
      BY <3>0, EntriesFacts
    <3>4. \A m \in Entries(Append(k, e)) : \E j \in 1..(n + 1) : m = list[j]
      BY <1>3, <2>1, <3>3 DEF e
    <3>5. Len(kept[n + 1]) = IF Gone(n + 1) THEN n ELSE n + 1
      BY <1>3, <2>2, <2>5, <2>8, <3>1
    <3> HIDE DEF Gone
    <3> QED
      BY <2>1, <2>2, <2>8, <3>1, <3>2, <3>4, <3>5
  <2> QED
    BY <2>7, <2>8
<1> HIDE DEF Holds
<1>4. T \in SUBSET Nat /\ 0 \in T /\ \A n \in T : n + 1 \in T
  BY <1>0, <1>2, <1>3
<1>5. Holds(N)
  <2>1. T = Nat
    <3> HIDE DEF T
    <3> QED
      BY <1>4, InductionOnSet
  <2> QED
    BY <1>0, <2>1
<1>6. Gone(N) <=> a \in About(list)
  <2>1. \A j \in 1..N : list[j].kind = "alert" /\ list[j] \in Entries(list)
    BY <1>0 DEF News, Entries
  <2>2. \A m \in Entries(list) : \E j \in 1..N : m = list[j]
    BY <1>0 DEF Entries
  <2> QED
    BY <2>1, <2>2 DEF About
<1> QED
  BY <1>1, <1>5, <1>6 DEF Holds

\* The alert of the message goes to the top; every other one stays, or is pushed
\* out of a full list.
LEMMA ListedOnceFacts ==
    ASSUME NEW m \in News, NEW list \in Seq(News), Once(list), Len(list) <= MaxAlerts
    PROVE  LET after == Listed(m, list)
           IN  /\ Once(after) /\ m \in Entries(after)
               /\ Len(list) = MaxAlerts => Len(after) = MaxAlerts
               /\ \A n \in Entries(list) : n.alert # m.alert =>
                    \/ n \in Entries(after)
                    \/ Len(after) = MaxAlerts /\ n.alert \notin About(after)
               /\ About(after) \subseteq About(list) \cup {m.alert}
<1> DEFINE rest == Without(m.alert, list)
           whole == <<m>> \o rest
           after == First(whole, MaxAlerts)
<1>1. rest \in Seq(News) /\ Entries(rest) = {n \in Entries(list) : n.alert # m.alert}
  BY WithoutFacts
<1>2. /\ Once(rest)
      /\ Len(rest) = IF m.alert \in About(list) THEN Len(list) - 1 ELSE Len(list)
  BY WithoutOnce
<1> HIDE DEF rest
<1>3. /\ whole \in Seq(News) /\ Len(rest) \in Nat /\ Len(whole) = Len(rest) + 1 /\ whole[1] = m
      /\ \A i \in 1..Len(rest) : whole[i + 1] = rest[i] /\ rest[i] \in Entries(rest)
      /\ DOMAIN whole = 1..Len(whole)
  BY <1>1 DEF Entries
<1> HIDE DEF whole
<1>4. Once(whole)
  <2>1. ASSUME NEW i \in 1..(Len(rest) + 1), NEW j \in 1..(Len(rest) + 1), i < j
        PROVE  whole[i].alert # whole[j].alert
    <3>1. j - 1 \in 1..Len(rest) /\ whole[j] = rest[j - 1] /\ rest[j - 1] \in Entries(rest)
      <4>1. j - 1 \in 1..Len(rest) /\ (j - 1) + 1 = j
        BY <1>3, <2>1
      <4> QED
        BY <1>3, <4>1
    <3>2. CASE i = 1
      BY <1>1, <1>3, <3>1, <3>2
    <3>3. CASE i # 1
      <4>1. i - 1 \in 1..Len(rest) /\ (i - 1) + 1 = i /\ i - 1 < j - 1
        BY <1>3, <2>1, <3>3
      <4>2. whole[i] = rest[i - 1]
        BY <1>3, <4>1
      <4> QED
        BY <1>2, <3>1, <4>1, <4>2 DEF Once
    <3> QED
      BY <3>2, <3>3
  <2> QED
    BY <1>3, <2>1 DEF Once
<1>5. MaxAlerts \in Nat \ {0}
  BY FeedAssumption
<1>6. /\ after \in Seq(News) /\ Len(after) <= MaxAlerts
      /\ Len(after) = IF Len(whole) > MaxAlerts THEN MaxAlerts ELSE Len(whole)
      /\ \A i \in DOMAIN after : i \in DOMAIN whole /\ after[i] = whole[i]
      /\ DOMAIN after = 1..Len(after)
  <2>1. DOMAIN after = 1..Len(after)
    BY <1>3, <1>5, FirstFacts
  <2> QED
    BY <1>3, <1>5, <2>1, FirstFacts
<1> HIDE DEF after
<1>7. Once(after)
  <2>1. ASSUME NEW i \in 1..Len(after), NEW j \in 1..Len(after), i < j
        PROVE  after[i].alert # after[j].alert
    <3>1. i \in DOMAIN after /\ j \in DOMAIN after /\ DOMAIN whole = 1..Len(whole)
      BY <1>3, <1>6, <2>1
    <3>2. /\ i \in 1..Len(whole) /\ after[i] = whole[i]
          /\ j \in 1..Len(whole) /\ after[j] = whole[j]
      BY <1>6, <3>1
    <3> QED
      BY <1>4, <2>1, <3>2 DEF Once
  <2> QED
    BY <2>1 DEF Once
<1>8. Len(list) \in Nat /\ (Len(list) = MaxAlerts => Len(after) = MaxAlerts)
  BY <1>2, <1>3, <1>5, <1>6
<1>9. ASSUME NEW n \in Entries(list), n.alert # m.alert
      PROVE  \/ n \in Entries(after)
             \/ Len(after) = MaxAlerts /\ n.alert \notin About(after)
  <2>1. PICK i \in 1..Len(rest) : rest[i] = n
    <3>1. n \in Entries(rest)
      BY <1>1, <1>9
    <3> QED
      BY <1>1, <3>1 DEF Entries
  <2>2. whole[i + 1] = n /\ i + 1 \in 1..Len(whole)
    BY <1>3, <2>1
  <2>3. CASE i + 1 \in 1..Len(after)
    BY <1>6, <2>2, <2>3 DEF Entries
  <2>4. CASE i + 1 \notin 1..Len(after)
    <3>1. Len(after) = MaxAlerts /\ Len(after) < i + 1
      BY <1>3, <1>5, <1>6, <2>2, <2>4
    <3>2. ASSUME NEW j \in 1..Len(after) PROVE after[j].alert # n.alert
      <4>1. j \in DOMAIN after /\ DOMAIN whole = 1..Len(whole)
        BY <1>3, <1>6, <3>2
      <4>2. j \in 1..Len(whole) /\ after[j] = whole[j]
        BY <1>6, <4>1
      <4>3. j < i + 1
        BY <1>3, <1>5, <2>1, <3>1, <3>2
      <4> QED
        BY <1>4, <2>2, <4>2, <4>3 DEF Once
    <3>3. n.alert \notin About(after)
      BY <1>6, <3>2 DEF About, Entries
    <3> QED
      BY <3>1, <3>3
  <2> QED
    BY <2>3, <2>4
<1>10. after = Listed(m, list)
  BY DEF after, whole, rest, Listed
<1>11. /\ m \in Entries(Listed(m, list))
       /\ Entries(Listed(m, list)) \subseteq {n \in Entries(list) : n.alert # m.alert} \cup {m}
  BY ListedFacts
<1>12. About(after) \subseteq About(list) \cup {m.alert}
  BY <1>10, <1>11 DEF About
<1> QED
  BY <1>7, <1>8, <1>9, <1>10, <1>11, <1>12
-----------------------------------------------------------------------------
Current(a) == Told(a, rows[a].status, rows[a].count)
Telling(tl, x, a) == tl[x] # NoPatch /\ tl[x].alert = a

\* m is what the last message of its alert says: every sender that has any to send
\* ends with it, or it is on its way to the browser, or on its screen, from which
\* only other alerts push it.
Arrives(m, sd, tl, box, list) ==
    /\ \A w \in Workers : m.alert \in About(sd[w]) => Latest(sd[w], m)
    /\ \A x \in Analysts : Telling(tl, x, m.alert) => tl[x] = m
    /\ \/ \E w \in Workers : m.alert \in About(sd[w])
       \/ \E x \in Analysts : Telling(tl, x, m.alert)
       \/ m.alert \in About(box) /\ Latest(box, m)
       \/ /\ m.alert \notin About(box)
          /\ m \in Entries(list) \/ (Len(list) = MaxAlerts /\ m.alert \notin About(list))

\* What an open transaction has taken down is what it has written.
NotesInv ==
    \A w \in Workers :
        /\ About(outbox[w]) = DOMAIN draft[w]
        /\ \A a \in DOMAIN draft[w] :
             Latest(outbox[w], Told(a, draft[w][a].status, draft[w][a].count))

\* A batch begins when the one before is published, a request when the analyst's
\* last one is.
TurnsInv ==
    /\ \A w \in Workers : pc[w] = "apply" \/ DOMAIN draft[w] # {} => sending[w] = <<>>
    /\ \A x \in Analysts : patch[x] # NoPatch => telling[x] = NoPatch

ListsInv == \A b \in Browsers : Once(shown[b])

NewsInv ==
    \A b \in Browsers : \A a \in DOMAIN rows \ untold[b] :
        Arrives(Current(a), sending, telling, inbox[b], shown[b])

LEMMA CurrentFacts ==
    ASSUME IInv, NEW a \in DOMAIN rows
    PROVE  Current(a) \in News /\ Current(a).alert = a /\ Current(a).kind = "alert"
<1>1. a \in Alerts /\ rows[a] \in Row
  BY DEF IInv, TypeOK, IsTable
<1> QED
  BY <1>1 DEF Current, Told, News, Row

LEMMA NotesStep ==
    ASSUME IInv, FeedTypes, NotesInv, [FeedNext]_allVars
    PROVE  NotesInv'
<1>1. outbox \in [Workers -> Seq(News)] /\ TypeOK
  BY DEF FeedTypes, Pipes, IInv
<1>2. ASSUME UNCHANGED <<outbox, draft>> PROVE NotesInv'
  BY <1>2 DEF NotesInv
<1>3. ASSUME NEW w \in Workers, FeedApply(w) PROVE NotesInv'
  <2>1. PICK a \in Alerts, row \in Row :
          Flush(w, a, row) /\ Snapshot(w) = Told(a, row.status, row.count)
    BY <1>3, SnapshotFacts DEF FeedApply
  <2> DEFINE n == Told(a, row.status, row.count)
  <2>2. /\ DOMAIN draft'[w] = DOMAIN draft[w] \cup {a} /\ draft'[w][a] = row
        /\ \A c \in DOMAIN draft[w] \ {a} : draft'[w][c] = draft[w][c]
        /\ \A v \in Workers \ {w} : draft'[v] = draft[v]
    BY <1>1, <2>1 DEF Flush, TypeOK
  <2>3. n.kind = "alert" /\ n.alert = a
    BY DEF Told
  <2> HIDE DEF n
  <2>4. /\ outbox'[w] = Append(outbox[w], n)
        /\ \A v \in Workers \ {w} : outbox'[v] = outbox[v]
    BY <1>1, <1>3, <2>1 DEF FeedApply, n
  <2>5. About(outbox'[w]) = DOMAIN draft'[w]
    <3>0. outbox[w] \in Seq(News)
      BY <1>1
    <3>1. \A c : c \in About(Append(outbox[w], n)) <=> c \in About(outbox[w]) \/ ~Silent(n, c)
      BY <3>0, AboutLists
    <3>2. \A c : Silent(n, c) <=> c # a
      BY <2>3 DEF Silent
    <3> QED
      BY <2>2, <2>4, <3>1, <3>2 DEF NotesInv
  <2>6. Latest(outbox'[w], n)
    BY <1>1, <2>4, LatestAppend
  <2>7. ASSUME NEW c \in DOMAIN draft[w] \ {a}
        PROVE  Latest(outbox'[w], Told(c, draft[w][c].status, draft[w][c].count))
    <3> DEFINE m == Told(c, draft[w][c].status, draft[w][c].count)
    <3>1. m.alert = c /\ Latest(outbox[w], m)
      BY DEF Told, NotesInv
    <3> HIDE DEF m
    <3>2. Silent(n, m.alert)
      BY <2>3, <2>7, <3>1 DEF Silent
    <3>3. Latest(Append(outbox[w], n), m)
      BY <1>1, <3>1, <3>2, LatestAppend
    <3> QED
      BY <2>4, <3>3 DEF m
  <2>8. \A c \in DOMAIN draft'[w] :
          Latest(outbox'[w], Told(c, draft'[w][c].status, draft'[w][c].count))
    BY <2>2, <2>6, <2>7 DEF n
  <2> QED
    BY <2>2, <2>4, <2>5, <2>8 DEF NotesInv
<1>4. ASSUME NEW w \in Workers, FeedCommit(w) \/ FeedRollback(w) PROVE NotesInv'
  <2>1. outbox' = [outbox EXCEPT ![w] = <<>>] /\ draft' = [draft EXCEPT ![w] = EmptyTable]
    BY <1>4 DEF FeedCommit, FeedRollback, Commit, Rollback, EndTransaction
  <2>2. /\ outbox'[w] = <<>> /\ DOMAIN draft'[w] = {}
        /\ \A v \in Workers \ {w} : outbox'[v] = outbox[v] /\ draft'[v] = draft[v]
    BY <1>1, <2>1 DEF TypeOK, EmptyTable
  <2> QED
    BY <2>2, EmptyAbout DEF NotesInv
<1>5. ASSUME NEW w \in Workers, FeedLookup(w) \/ QuietBatch(w) \/ Publish(w) \/ PublishFails(w)
      PROVE  UNCHANGED <<outbox, draft>>
  BY <1>5 DEF FeedLookup, Lookup, QuietBatch, Publish, PublishFails, vars, workerVars
<1>6. ASSUME NEW x \in Analysts,
             \/ FeedPatchRead(x) \/ FeedPatchSame(x) \/ FeedPatchWrite(x) \/ FeedPatchRefused(x)
             \/ PublishMove(x) \/ PublishMoveFails(x)
      PROVE  UNCHANGED <<outbox, draft>>
  BY <1>6 DEF FeedPatchRead, FeedPatchSame, PatchRead, FeedPatchWrite, PatchWrite, FeedPatchRefused, PatchRefused,
              PublishMove, PublishMoveFails, vars, workerVars, feedVars
<1>7. ASSUME NEW b \in Browsers,
             \/ Connect(b) \/ Subscribe(b) \/ Receive(b) \/ Disconnect(b)
             \/ Pause(b) \/ Resume(b) \/ ClearEvents(b)
      PROVE  UNCHANGED <<outbox, draft>>
  BY <1>7 DEF Connect, Subscribe, Receive, Disconnect, Pause, Resume, ClearEvents, Drop,
              vars, workerVars
<1>8. UNCHANGED allVars => UNCHANGED <<outbox, draft>>
  BY DEF allVars, vars, workerVars, feedVars
<1> QED
  BY <1>2, <1>3, <1>4, <1>5, <1>6, <1>7, <1>8 DEF FeedNext

LEMMA TurnsStep ==
    ASSUME IInv, FeedTypes, TurnsInv, [FeedNext]_allVars
    PROVE  TurnsInv'
<1>1. /\ sending \in [Workers -> Seq(News \cup Batch)]
      /\ telling \in [Analysts -> News \cup {NoPatch}]
      /\ DOMAIN draft = Workers /\ pc \in [Workers -> {"next", "apply"}]
      /\ patch \in [Analysts -> Request \cup {NoPatch}]
  BY DEF FeedTypes, Pipes, IInv, TypeOK
<1>2. ASSUME UNCHANGED <<pc, draft, sending, patch, telling>> PROVE TurnsInv'
  BY <1>2 DEF TurnsInv
<1>3. ASSUME NEW w \in Workers, FeedLookup(w) \/ FeedApply(w) PROVE TurnsInv'
  <2>1. sending[w] = <<>>
    BY <1>3 DEF FeedLookup, FeedApply, Insert, Fold, TurnsInv
  <2>2. UNCHANGED <<sending, patch, telling>>
    BY <1>3 DEF FeedLookup, Lookup, FeedApply, Insert, Fold, Flush
  <2>3. \A v \in Workers \ {w} : pc'[v] = pc[v] /\ draft'[v] = draft[v]
    BY <1>1, <1>3 DEF FeedLookup, Lookup, FeedApply, Insert, Fold, Flush
  <2> QED
    BY <2>1, <2>2, <2>3 DEF TurnsInv
<1>4. ASSUME NEW w \in Workers, FeedCommit(w) \/ FeedRollback(w) PROVE TurnsInv'
  <2>1. /\ pc'[w] = "next" /\ DOMAIN draft'[w] = {}
        /\ \A v \in Workers \ {w} : pc'[v] = pc[v] /\ draft'[v] = draft[v]
        /\ UNCHANGED patch
    BY <1>1, <1>4 DEF FeedCommit, FeedRollback, Commit, Rollback, EndTransaction, EmptyTable
  <2>2. (\A v \in Workers \ {w} : sending'[v] = sending[v]) /\ UNCHANGED telling
    BY <1>1, <1>4 DEF FeedCommit, FeedRollback
  <2> QED
    BY <2>1, <2>2 DEF TurnsInv
<1>5. ASSUME NEW w \in Workers, QuietBatch(w) \/ Publish(w) \/ PublishFails(w) PROVE TurnsInv'
  <2>1. UNCHANGED <<pc, draft, patch, telling>> /\ \A v \in Workers \ {w} : sending'[v] = sending[v]
    BY <1>1, <1>5 DEF QuietBatch, Publish, PublishFails, vars, workerVars
  <2>2. pc[w] # "apply" /\ DOMAIN draft[w] = {}
    BY <1>5 DEF QuietBatch, Publish, PublishFails, TurnsInv
  <2> QED
    BY <2>1, <2>2 DEF TurnsInv
<1>6. ASSUME NEW x \in Analysts,
             \/ FeedPatchRead(x) \/ FeedPatchSame(x) \/ FeedPatchWrite(x) \/ FeedPatchRefused(x)
             \/ PublishMove(x) \/ PublishMoveFails(x)
      PROVE  TurnsInv'
  <2>1. UNCHANGED <<pc, draft, sending>>
    BY <1>6 DEF FeedPatchRead, FeedPatchSame, PatchRead, FeedPatchWrite, PatchWrite, FeedPatchRefused, PatchRefused,
                PublishMove, PublishMoveFails, vars, workerVars, feedVars
  <2>2. \A y \in Analysts \ {x} : patch'[y] = patch[y] /\ telling'[y] = telling[y]
    BY <1>1, <1>6 DEF FeedPatchRead, FeedPatchSame, PatchRead, FeedPatchWrite, PatchWrite, FeedPatchRefused,
                      PatchRefused, PublishMove, PublishMoveFails, vars, feedVars
  <2>3. patch'[x] = NoPatch \/ telling'[x] = NoPatch
    BY <1>1, <1>6 DEF FeedPatchRead, FeedPatchSame, PatchRead, FeedPatchWrite, PatchWrite, FeedPatchRefused,
                      PatchRefused, PublishMove, PublishMoveFails, vars
  <2> QED
    BY <2>1, <2>2, <2>3 DEF TurnsInv
<1>7. ASSUME NEW b \in Browsers,
             \/ Connect(b) \/ Subscribe(b) \/ Receive(b) \/ Disconnect(b)
             \/ Pause(b) \/ Resume(b) \/ ClearEvents(b)
      PROVE  UNCHANGED <<pc, draft, sending, patch, telling>>
  BY <1>7 DEF Connect, Subscribe, Receive, Disconnect, Pause, Resume, ClearEvents, Drop,
              vars, workerVars
<1>8. UNCHANGED allVars => UNCHANGED <<pc, draft, sending, patch, telling>>
  BY DEF allVars, vars, workerVars, feedVars
<1> QED
  BY <1>2, <1>3, <1>4, <1>5, <1>6, <1>7, <1>8 DEF FeedNext

LEMMA ListsStep ==
    ASSUME FeedTypes, ListsInv, [FeedNext]_allVars
    PROVE  ListsInv'
<1>1. /\ shown \in [Browsers -> Seq(News)] /\ inbox \in [Browsers -> Seq(News \cup Numbered)]
      /\ \A b \in Browsers : Len(shown[b]) <= MaxAlerts
  BY DEF FeedTypes, Panes, Pipes
<1>2. ASSUME NEW b \in Browsers, Receive(b) PROVE ListsInv'
  <2> DEFINE m == Head(inbox[b])
  <2>1. m \in News \cup Numbered
    BY <1>1, <1>2 DEF Receive
  <2>2. CASE m.kind = "alert"
    <3>1. m \in News
      BY <2>1, <2>2 DEF Numbered
    <3>2. shown' = [shown EXCEPT ![b] = Listed(m, @)]
      BY <1>2, <2>2 DEF Receive
    <3>3. Once(Listed(m, shown[b]))
      BY <1>1, <3>1, ListedOnceFacts DEF ListsInv
    <3> HIDE DEF m
    <3> QED
      BY <1>1, <3>2, <3>3 DEF ListsInv
  <2>3. CASE m.kind # "alert"
    BY <1>2, <2>3 DEF Receive, ListsInv
  <2> QED
    BY <2>2, <2>3
<1>3. ASSUME UNCHANGED shown PROVE ListsInv'
  BY <1>3 DEF ListsInv
<1>4. ASSUME NEW w \in Workers,
             \/ FeedLookup(w) \/ FeedApply(w) \/ FeedCommit(w) \/ FeedRollback(w)
             \/ QuietBatch(w) \/ Publish(w) \/ PublishFails(w)
      PROVE  UNCHANGED shown
  BY <1>4 DEF FeedLookup, FeedApply, FeedCommit, FeedRollback, QuietBatch, Publish, PublishFails,
              screenVars
<1>5. ASSUME NEW x \in Analysts,
             \/ FeedPatchRead(x) \/ FeedPatchSame(x) \/ FeedPatchWrite(x) \/ FeedPatchRefused(x)
             \/ PublishMove(x) \/ PublishMoveFails(x)
      PROVE  UNCHANGED shown
  BY <1>5 DEF FeedPatchRead, FeedPatchSame, FeedPatchWrite, FeedPatchRefused, PublishMove, PublishMoveFails,
              feedVars, screenVars
<1>6. ASSUME NEW b \in Browsers,
             Connect(b) \/ Subscribe(b) \/ Disconnect(b) \/ Pause(b) \/ Resume(b) \/ ClearEvents(b)
      PROVE  UNCHANGED shown
  BY <1>6 DEF Connect, Subscribe, Disconnect, Pause, Resume, ClearEvents, Drop, screenVars
<1>7. UNCHANGED allVars => UNCHANGED shown
  BY DEF allVars, feedVars, screenVars
<1> QED
  BY <1>2, <1>3, <1>4, <1>5, <1>6, <1>7 DEF FeedNext
-----------------------------------------------------------------------------
\* A message about something else passes.
LEMMA OtherSent ==
    ASSUME NEW T, NEW sd \in [Workers -> Seq(T)], NEW w \in Workers, sd[w] # <<>>,
           NEW m, m.kind = "alert", Silent(Head(sd[w]), m.alert), NEW tl, NEW box, NEW list,
           Arrives(m, sd, tl, box, list)
    PROVE  Arrives(m, [sd EXCEPT ![w] = Tail(@)], tl, box, list)
<1> DEFINE less == [sd EXCEPT ![w] = Tail(@)]
<1>1. less[w] = Tail(sd[w]) /\ \A v \in Workers \ {w} : less[v] = sd[v]
  OBVIOUS
<1>2. m.alert \in About(sd[w]) <=> m.alert \in About(Tail(sd[w]))
  BY AboutTail
<1>3. m.alert \in About(sd[w]) => Latest(Tail(sd[w]), m)
  BY <1>2, LatestTail DEF Arrives
<1> HIDE DEF less
<1>4. \A v \in Workers : m.alert \in About(less[v]) <=> m.alert \in About(sd[v])
  BY <1>1, <1>2
<1>5. \A v \in Workers : m.alert \in About(sd[v]) => Latest(less[v], m)
  BY <1>1, <1>3 DEF Arrives
<1>6. Arrives(m, less, tl, box, list)
  BY <1>4, <1>5 DEF Arrives
<1> QED
  BY <1>6 DEF less

LEMMA OtherHeard ==
    ASSUME NEW T, NEW box \in Seq(T), NEW n, NEW m, Silent(n, m.alert),
           NEW sd, NEW tl, NEW list, Arrives(m, sd, tl, box, list)
    PROVE  Arrives(m, sd, tl, Append(box, n), list)
<1>1. m.alert \in About(Append(box, n)) <=> m.alert \in About(box)
  BY AboutLists DEF Silent
<1>2. Latest(box, m) => Latest(Append(box, n), m)
  BY LatestAppend
<1> QED
  BY <1>1, <1>2 DEF Arrives

\* A message about the alert arrives behind all there is, and is the last word on
\* it, or the last word is still to be sent.
LEMMA WorkerSent ==
    ASSUME NEW T, NEW sd \in [Workers -> Seq(T)], NEW w \in Workers, sd[w] # <<>>,
           \A v \in Workers : v = w,
           NEW m, m.kind = "alert", ~Silent(Head(sd[w]), m.alert), NEW tl,
           NEW U, NEW box \in Seq(U), NEW list, Arrives(m, sd, tl, box, list)
    PROVE  Arrives(m, [sd EXCEPT ![w] = Tail(@)], tl, Append(box, Head(sd[w])), list)
<1> DEFINE less == [sd EXCEPT ![w] = Tail(@)]
           more == Append(box, Head(sd[w]))
<1>1. less[w] = Tail(sd[w])
  OBVIOUS
<1>2. m.alert \in About(sd[w])
  BY AboutTail
<1>3. Latest(sd[w], m)
  BY <1>2 DEF Arrives
<1>4. IF m.alert \in About(Tail(sd[w])) THEN Latest(Tail(sd[w]), m) ELSE Head(sd[w]) = m
  BY <1>3, LatestTail
<1>5. Head(sd[w]) = m => m.alert \in About(more) /\ Latest(more, m)
  BY AboutLists, LatestAppend DEF Silent
<1> HIDE DEF less, more
<1>6. Arrives(m, less, tl, more, list)
  BY <1>1, <1>3, <1>4, <1>5 DEF Arrives
<1> QED
  BY <1>6 DEF less, more

LEMMA AnalystSent ==
    ASSUME NEW tl \in [Analysts -> News \cup {NoPatch}], NEW x \in Analysts, tl[x] # NoPatch,
           NEW m, tl[x].alert = m.alert, NEW sd,
           NEW U, NEW box \in Seq(U), NEW list, Arrives(m, sd, tl, box, list)
    PROVE  Arrives(m, sd, [tl EXCEPT ![x] = NoPatch], Append(box, tl[x]), list)
<1> DEFINE less == [tl EXCEPT ![x] = NoPatch]
           more == Append(box, tl[x])
<1>1. less[x] = NoPatch /\ \A y \in Analysts \ {x} : less[y] = tl[y]
  OBVIOUS
<1>2. Telling(tl, x, m.alert)
  BY DEF Telling
<1>3. tl[x] = m
  BY <1>2 DEF Arrives
<1>4. m.kind = "alert"
  BY <1>3 DEF News
<1>5. m.alert \in About(more) /\ Latest(more, m)
  BY <1>3, <1>4, AboutLists, LatestAppend DEF Silent
<1> HIDE DEF less, more
<1>6. \A y \in Analysts : Telling(less, y, m.alert) => Telling(tl, y, m.alert) /\ less[y] = tl[y]
  BY <1>1 DEF Telling
<1>7. Arrives(m, sd, less, more, list)
  BY <1>5, <1>6 DEF Arrives
<1> QED
  BY <1>7 DEF less, more

LEMMA OtherTold ==
    ASSUME NEW tl, NEW less, NEW m, NEW sd, NEW box, NEW list,
           \A y \in Analysts : \/ less[y] = tl[y]
                               \/ ~Telling(less, y, m.alert) /\ ~Telling(tl, y, m.alert),
           Arrives(m, sd, tl, box, list)
    PROVE  Arrives(m, sd, less, box, list)
<1>1. \A y \in Analysts : /\ Telling(less, y, m.alert) <=> Telling(tl, y, m.alert)
                          /\ Telling(less, y, m.alert) => less[y] = tl[y]
  BY DEF Telling
<1> QED
  BY <1>1 DEF Arrives

LEMMA OthersBatch ==
    ASSUME NEW sd, NEW next, NEW m, NEW tl, NEW box, NEW list,
           \A w \in Workers : \/ next[w] = sd[w]
                              \/ m.alert \notin About(next[w]) /\ m.alert \notin About(sd[w]),
           Arrives(m, sd, tl, box, list)
    PROVE  Arrives(m, next, tl, box, list)
  BY DEF Arrives

\* What the browser takes out of its inbox.
LEMMA LastNewsTaken ==
    ASSUME NEW m \in News, NEW box \in Seq(News \cup Numbered), box # <<>>,
           NEW list \in Seq(News), Once(list), Len(list) <= MaxAlerts,
           NEW after, after = IF Head(box).kind = "alert" THEN Listed(Head(box), list) ELSE list,
           NEW sd, NEW tl, Arrives(m, sd, tl, box, list)
    PROVE  Arrives(m, sd, tl, Tail(box), after)
<1> DEFINE n == Head(box)
<1>0. /\ m.kind = "alert" /\ (n.kind = "alert" => n \in News)
      /\ m.alert \in About(box) <=>
           m.alert \in About(Tail(box)) \/ (n.kind = "alert" /\ n.alert = m.alert)
  <2>1. n \in News \cup Numbered /\ m.kind = "alert"
    BY DEF News
  <2> QED
    BY <2>1, AboutTail DEF Numbered, Silent
<1>1. CASE \E w \in Workers : m.alert \in About(sd[w])
  BY <1>1 DEF Arrives
<1>2. CASE \E x \in Analysts : Telling(tl, x, m.alert)
  BY <1>2 DEF Arrives
<1>3. CASE m.alert \in About(box) /\ Latest(box, m)
  <2>1. IF m.alert \in About(Tail(box)) THEN Latest(Tail(box), m) ELSE n = m
    BY <1>0, <1>3, LatestTail
  <2>2. n = m => m \in Entries(after)
    BY <1>0, ListedOnceFacts
  <2> QED
    BY <2>1, <2>2 DEF Arrives
<1>4. CASE /\ m.alert \notin About(box)
           /\ m \in Entries(list) \/ (Len(list) = MaxAlerts /\ m.alert \notin About(list))
  <2>1. m.alert \notin About(Tail(box)) /\ (n.kind = "alert" => n.alert # m.alert)
    BY <1>0, <1>4
  <2>2. m \in Entries(after) \/ (Len(after) = MaxAlerts /\ m.alert \notin About(after))
    <3>1. CASE n.kind = "alert"
      <4>1. /\ Len(list) = MaxAlerts => Len(after) = MaxAlerts
            /\ \A k \in Entries(list) : k.alert # n.alert =>
                 \/ k \in Entries(after)
                 \/ Len(after) = MaxAlerts /\ k.alert \notin About(after)
            /\ About(after) \subseteq About(list) \cup {n.alert}
        BY <1>0, <3>1, ListedOnceFacts
      <4> QED
        BY <1>4, <2>1, <3>1, <4>1
    <3>2. CASE n.kind # "alert"
      BY <1>4, <3>2
    <3> QED
      BY <3>1, <3>2
  <2> QED
    BY <2>1, <2>2 DEF Arrives
<1> QED
  BY <1>1, <1>2, <1>3, <1>4 DEF Arrives
-----------------------------------------------------------------------------
(***************************************************************************)
(* The steps.                                                              *)
(***************************************************************************)
QuietInv == NotesInv /\ TurnsInv /\ ListsInv /\ NewsInv

NextNews(a) == Told(a, rows'[a].status, rows'[a].count)
ArrivesNext(a, b) == Arrives(NextNews(a), sending', telling', inbox'[b], shown'[b])

\* An alert whose row stays.
LEMMA SameRow ==
    ASSUME IInv, NewsInv, NEW b \in Browsers, NEW a \in DOMAIN rows,
           rows'[a] = rows[a], a \notin untold[b]
    PROVE  /\ NextNews(a) \in News /\ NextNews(a).alert = a /\ NextNews(a).kind = "alert"
           /\ Arrives(NextNews(a), sending, telling, inbox[b], shown[b])
<1>1. NextNews(a) = Current(a)
  BY DEF NextNews, Current
<1> QED
  BY <1>1, CurrentFacts DEF NewsInv

LEMMA QuietSteps ==
    ASSUME IInv, FeedTypes, QuietInv, UNCHANGED <<rows, telling, inbox, shown, untold>>,
           \A w \in Workers : \/ sending'[w] = sending[w]
                              \/ About(sending[w]) = {} /\ About(sending'[w]) = {},
           NEW b \in Browsers, NEW a \in DOMAIN rows' \ untold'[b]
    PROVE  ArrivesNext(a, b)
<1>1. Arrives(NextNews(a), sending, telling, inbox[b], shown[b])
  BY SameRow DEF QuietInv
<1>2. Arrives(NextNews(a), sending', telling, inbox[b], shown[b])
  BY <1>1, OthersBatch
<1> QED
  BY <1>2 DEF ArrivesNext

LEMMA CommitArrives ==
    ASSUME IInv, FeedTypes, QuietInv, NEW w \in Workers, \A v \in Workers : v = w, FeedCommit(w),
           NEW b \in Browsers, NEW a \in DOMAIN rows' \ untold'[b]
    PROVE  ArrivesNext(a, b)
<1> DEFINE e == [kind |-> "events"]
<1>1. /\ rows' = View(w) /\ UNCHANGED <<telling, inbox, shown>>
      /\ sending' = [sending EXCEPT ![w] = <<e>> \o outbox[w]]
  BY DEF FeedCommit, Commit, screenVars
<1>2. /\ outbox[w] \in Seq(News) /\ sending \in [Workers -> Seq(News \cup Batch)]
      /\ TypeOK /\ untold \in [Browsers -> SUBSET Alerts]
  BY DEF FeedTypes, Pipes, IInv
<1>3. sending'[w] = <<e>> \o outbox[w] /\ sending[w] = <<>>
  BY <1>1, <1>2 DEF FeedCommit, Commit, QuietInv, TurnsInv
<1>4. \A c : c \in About(sending'[w]) <=> c \in DOMAIN draft[w]
  <2>1. \A c : c \in About(sending'[w]) <=> c \in About(outbox[w]) \/ ~Silent(e, c)
    BY <1>2, <1>3, AboutLists
  <2>2. \A c : Silent(e, c)
    BY DEF Silent
  <2> QED
    BY <2>1, <2>2 DEF QuietInv, NotesInv
<1>5. a \notin untold[b] /\ ~(a \in DOMAIN draft[w] /\ \E x \in Analysts : Telling(telling, x, a))
  BY <1>2 DEF FeedCommit, Doubt, Telling
<1>6. CASE a \in DOMAIN draft[w]
  <2>1. NextNews(a) = Told(a, draft[w][a].status, draft[w][a].count)
    BY <1>1, <1>2, <1>6, ViewFacts DEF NextNews
  <2>2. Latest(outbox[w], NextNews(a)) /\ NextNews(a).alert = a
    BY <1>6, <2>1 DEF QuietInv, NotesInv, Told
  <2>3. Latest(sending'[w], NextNews(a))
    BY <1>2, <1>3, <2>2, LatestCons
  <2>4. a \in About(sending'[w]) /\ \A x \in Analysts : ~Telling(telling, x, a)
    BY <1>4, <1>5, <1>6
  <2> QED
    BY <1>1, <2>2, <2>3, <2>4 DEF ArrivesNext, Arrives
<1>7. CASE a \notin DOMAIN draft[w]
  <2>1. a \in DOMAIN rows /\ rows'[a] = rows[a]
    BY <1>1, <1>2, <1>7, ViewFacts
  <2>2. NextNews(a).alert = a /\ Arrives(NextNews(a), sending, telling, inbox[b], shown[b])
    BY <1>5, <2>1, SameRow DEF QuietInv
  <2>3. a \notin About(sending'[w]) /\ a \notin About(sending[w])
    BY <1>3, <1>4, <1>7, EmptyAbout
  <2>4. Arrives(NextNews(a), sending', telling, inbox[b], shown[b])
    BY <2>2, <2>3, OthersBatch
  <2> QED
    BY <1>1, <2>4 DEF ArrivesNext
<1> QED
  BY <1>6, <1>7

LEMMA PublishArrives ==
    ASSUME IInv, FeedTypes, QuietInv, NEW w \in Workers, \A v \in Workers : v = w,
           Publish(w) \/ PublishFails(w),
           NEW b \in Browsers, NEW a \in DOMAIN rows' \ untold'[b]
    PROVE  ArrivesNext(a, b)
<1>1. /\ UNCHANGED <<rows, telling, shown>> /\ sending[w] # <<>>
      /\ sending \in [Workers -> Seq(News \cup Batch)]
      /\ inbox[b] \in Seq(News \cup Numbered) /\ untold \in [Browsers -> SUBSET Alerts]
  BY DEF Publish, PublishFails, vars, screenVars, FeedTypes, Pipes
<1> DEFINE n == Head(sending[w])
           m == NextNews(a)
<1>2. a \notin untold[b]
  BY <1>1 DEF Publish, PublishFails, PublishNews, PublishEvents, Doubt
<1>3. m.kind = "alert" /\ m.alert = a /\ Arrives(m, sending, telling, inbox[b], shown[b])
  BY <1>1, <1>2, SameRow DEF QuietInv
<1> HIDE DEF m
<1>4. CASE Publish(w)
  <2>1. sending' = [sending EXCEPT ![w] = Tail(@)]
    BY <1>4 DEF Publish
  <2>2. CASE Silent(n, a)
    <3>1. Arrives(m, sending', telling, inbox[b], shown[b])
      BY <1>1, <1>3, <2>1, <2>2, OtherSent
    <3>2. \/ inbox'[b] = inbox[b]
          \/ \E k : Silent(k, a) /\ inbox'[b] = Append(inbox[b], k)
      <4>1. CASE n.kind = "alert"
        <5>1. inbox'[b] = inbox[b] \/ inbox'[b] = Append(inbox[b], n)
          BY <1>4, <4>1 DEF Publish, PublishNews, Broadcast
        <5> HIDE DEF n
        <5> QED
          BY <2>2, <5>1
      <4>2. CASE n.kind # "alert"
        <5> DEFINE k == [kind |-> "event", number |-> published']
        <5>1. inbox'[b] = inbox[b] \/ inbox'[b] = Append(inbox[b], k)
          BY <1>4, <4>2 DEF Publish, PublishEvents, Broadcast
        <5>2. Silent(k, a)
          BY DEF Silent
        <5> HIDE DEF k
        <5> QED
          BY <5>1, <5>2
      <4> QED
        BY <4>1, <4>2
    <3>3. Arrives(m, sending', telling, inbox'[b], shown[b])
      <4>1. ASSUME NEW k, Silent(k, m.alert)
            PROVE  Arrives(m, sending', telling, Append(inbox[b], k), shown[b])
        BY <1>1, <3>1, <4>1, OtherHeard
      <4> QED
        BY <1>3, <3>1, <3>2, <4>1
    <3> QED
      BY <1>1, <3>3 DEF ArrivesNext, m
  <2>3. CASE ~Silent(n, a)
    <3>1. PublishNews(n) /\ n.alert = a
      BY <1>4, <2>3 DEF Publish, Silent
    <3>2. b \notin Deaf
      BY <1>1, <3>1 DEF PublishNews
    <3>3. inbox'[b] = Append(inbox[b], n)
      BY <3>1, <3>2 DEF PublishNews, Broadcast
    <3>4. Arrives(m, [sending EXCEPT ![w] = Tail(@)], telling, Append(inbox[b], n), shown[b])
      BY <1>1, <1>3, <2>3, WorkerSent
    <3> QED
      BY <1>1, <2>1, <3>3, <3>4 DEF ArrivesNext, m
  <2> QED
    BY <2>2, <2>3
<1>5. CASE PublishFails(w)
  <2>1. a \notin About(sending[w]) /\ UNCHANGED inbox /\ sending'[w] = <<>>
    BY <1>1, <1>5 DEF PublishFails, Doubt
  <2>2. Arrives(m, sending', telling, inbox[b], shown[b])
    BY <1>3, <2>1, EmptyAbout, OthersBatch
  <2> QED
    BY <1>1, <2>1, <2>2 DEF ArrivesNext, m
<1> QED
  BY <1>4, <1>5

LEMMA WriteArrives ==
    ASSUME IInv, FeedTypes, QuietInv, NEW x \in Analysts, FeedPatchWrite(x),
           NEW b \in Browsers, NEW a \in DOMAIN rows' \ untold'[b]
    PROVE  ArrivesNext(a, b)
<1>1. PICK c \in DOMAIN rows :
        /\ c = patch[x].alert /\ patch[x] # NoPatch /\ rows[c] \in Row
        /\ DOMAIN rows' = DOMAIN rows /\ \A d \in DOMAIN rows : d # c => rows'[d] = rows[d]
        /\ rows'[c] = [rows[c] EXCEPT !.status = patch[x].to,
                                      !.history = Noted(patch[x].read.history)]
  BY WriteFacts DEF FeedPatchWrite
<1> DEFINE told == Told(c, patch[x].to, patch[x].read.count)
<1>2. /\ UNCHANGED <<sending, inbox, shown>> /\ telling \in [Analysts -> News \cup {NoPatch}]
      /\ telling' = [telling EXCEPT ![x] = told] /\ untold \in [Browsers -> SUBSET Alerts]
  BY <1>1 DEF FeedPatchWrite, screenVars, FeedTypes, Pipes
<1>3. /\ telling'[x] = told /\ told.alert = c /\ telling[x] = NoPatch
      /\ \A y \in Analysts \ {x} : telling'[y] = telling[y]
  BY <1>1, <1>2 DEF Told, QuietInv, TurnsInv
<1>4. a \notin untold[b] /\ a \in DOMAIN rows
  BY <1>1, <1>2 DEF FeedPatchWrite, Doubt
<1>5. CASE a = c
  <2>1. /\ patch[x].read.count = rows[a].count
        /\ \A w \in Workers : a \notin About(sending[w])
        /\ \A y \in Analysts : ~Telling(telling, y, a)
    BY <1>1, <1>2, <1>5 DEF FeedPatchWrite, Doubt, Telling
  <2>2. rows'[a].status = patch[x].to /\ rows'[a].count = rows[a].count
    BY <1>1, <1>5 DEF Row
  <2>3. NextNews(a) = told /\ NextNews(a).alert = a
    BY <1>3, <1>5, <2>1, <2>2 DEF NextNews
  <2>4. told # NoPatch => Telling(telling', x, a)
    BY <1>3, <1>5 DEF Telling
  <2>5. told # NoPatch
    <3>1. patch[x] \in Request /\ c \in Alerts
      BY <1>1 DEF IInv, TypeOK, IsTable
    <3>2. told \in News
      BY <3>1 DEF Request, Row, Told, News
    <3> QED
      BY <3>2, TellingAssumption
  <2>6. \A y \in Analysts \ {x} : ~Telling(telling', y, a)
    BY <1>3, <2>1 DEF Telling
  <2> HIDE DEF told
  <2> QED
    BY <1>2, <1>3, <2>1, <2>3, <2>4, <2>5, <2>6 DEF ArrivesNext, Arrives
<1>6. CASE a # c
  <2>1. NextNews(a).alert = a /\ Arrives(NextNews(a), sending, telling, inbox[b], shown[b])
    BY <1>1, <1>4, <1>6, SameRow DEF QuietInv
  <2>2. ~Telling(telling', x, a) /\ ~Telling(telling, x, a)
    BY <1>3, <1>6 DEF Telling
  <2> DEFINE m == NextNews(a)
  <2>3. \A y \in Analysts : \/ telling'[y] = telling[y]
                            \/ ~Telling(telling', y, m.alert) /\ ~Telling(telling, y, m.alert)
    BY <1>3, <2>1, <2>2
  <2>4. Arrives(m, sending, telling, inbox[b], shown[b])
    BY <2>1
  <2> HIDE DEF m
  <2>5. Arrives(m, sending, telling', inbox[b], shown[b])
    BY <2>3, <2>4, OtherTold
  <2> QED
    BY <1>2, <2>5 DEF ArrivesNext, m
<1> QED
  BY <1>5, <1>6

\* The row that is loaded and published again says what the last news says.
LEMMA SameArrives ==
    ASSUME IInv, FeedTypes, QuietInv, NEW x \in Analysts, FeedPatchSame(x),
           NEW b \in Browsers, NEW a \in DOMAIN rows' \ untold'[b]
    PROVE  ArrivesNext(a, b)
<1> DEFINE m == NextNews(a)
<1>1. /\ UNCHANGED <<rows, sending, inbox, shown, untold>> /\ telling[x] = NoPatch
      /\ DOMAIN telling = Analysts
  BY DEF FeedPatchSame, vars, screenVars, FeedTypes, Pipes
<1>2. PICK c \in DOMAIN rows : telling' = [telling EXCEPT ![x] = Current(c)]
  BY DEF FeedPatchSame, Current
<1>3. m = Current(a) /\ m.alert = a /\ Arrives(m, sending, telling, inbox[b], shown[b])
  BY <1>1, SameRow DEF QuietInv, NextNews, Current
<1>4. telling'[x] = Current(c) /\ Current(c).alert = c /\ \A y \in Analysts \ {x} : telling'[y] = telling[y]
  BY <1>1, <1>2, CurrentFacts
<1> HIDE DEF m
<1>5. \A y \in Analysts : \/ telling'[y] = telling[y]
                          \/ y = x /\ (Telling(telling', y, m.alert) => telling'[y] = m)
  <2>1. Telling(telling', x, m.alert) => c = a
    BY <1>3, <1>4 DEF Telling
  <2> QED
    BY <1>3, <1>4, <2>1
<1>6. \A y \in Analysts : Telling(telling', y, m.alert) => telling'[y] = m
  BY <1>3, <1>5 DEF Arrives, Telling
<1>7. ~Telling(telling, x, m.alert)
  BY <1>1 DEF Telling
<1>8. Arrives(m, sending, telling', inbox[b], shown[b])
  BY <1>3, <1>4, <1>6, <1>7 DEF Arrives, Telling
<1> QED
  BY <1>1, <1>8 DEF ArrivesNext, m

LEMMA MoveArrives ==
    ASSUME IInv, FeedTypes, QuietInv, NEW x \in Analysts, PublishMove(x) \/ PublishMoveFails(x),
           NEW b \in Browsers, NEW a \in DOMAIN rows' \ untold'[b]
    PROVE  ArrivesNext(a, b)
<1> DEFINE n == telling[x]
           m == NextNews(a)
<1>1. /\ UNCHANGED <<rows, sending, shown>> /\ n # NoPatch
      /\ telling' = [telling EXCEPT ![x] = NoPatch]
      /\ telling \in [Analysts -> News \cup {NoPatch}]
      /\ inbox[b] \in Seq(News \cup Numbered) /\ untold \in [Browsers -> SUBSET Alerts]
  BY DEF PublishMove, PublishMoveFails, vars, screenVars, FeedTypes, Pipes
<1>2. a \notin untold[b]
  BY <1>1 DEF PublishMove, PublishMoveFails, PublishNews, Doubt
<1>3. m.kind = "alert" /\ m.alert = a /\ Arrives(m, sending, telling, inbox[b], shown[b])
  BY <1>1, <1>2, SameRow DEF QuietInv
<1> HIDE DEF m
<1>4. CASE n.alert # a
  <2>1. \A y \in Analysts : \/ telling'[y] = telling[y]
                            \/ ~Telling(telling', y, m.alert) /\ ~Telling(telling, y, m.alert)
    BY <1>1, <1>3, <1>4 DEF Telling
  <2>2. Arrives(m, sending, telling', inbox[b], shown[b])
    BY <1>3, <2>1, OtherTold
  <2>3. inbox'[b] = inbox[b] \/ inbox'[b] = Append(inbox[b], n)
    BY DEF PublishMove, PublishMoveFails, PublishNews, Broadcast
  <2>4. Arrives(m, sending, telling', Append(inbox[b], n), shown[b])
    <3>1. Silent(n, m.alert)
      BY <1>3, <1>4 DEF Silent
    <3> HIDE DEF n
    <3> QED
      BY <1>1, <2>2, <3>1, OtherHeard
  <2>5. Arrives(m, sending, telling', inbox'[b], shown[b])
    BY <2>2, <2>3, <2>4
  <2> QED
    BY <1>1, <2>5 DEF ArrivesNext, m
<1>5. CASE n.alert = a
  <2>1. PublishMove(x)
    BY <1>1, <1>5 DEF PublishMoveFails, Doubt
  <2>2. b \notin Deaf
    BY <1>1, <1>5, <2>1 DEF PublishMove, PublishNews
  <2>3. inbox'[b] = Append(inbox[b], n)
    BY <2>1, <2>2 DEF PublishMove, PublishNews, Broadcast
  <2>4. Arrives(m, sending, [telling EXCEPT ![x] = NoPatch], Append(inbox[b], n), shown[b])
    BY <1>1, <1>3, <1>5, AnalystSent
  <2> QED
    BY <1>1, <2>3, <2>4 DEF ArrivesNext, m
<1> QED
  BY <1>4, <1>5

LEMMA BrowserArrives ==
    ASSUME IInv, FeedTypes, QuietInv, NEW c \in Browsers, Receive(c) \/ Disconnect(c),
           NEW b \in Browsers, NEW a \in DOMAIN rows' \ untold'[b]
    PROVE  ArrivesNext(a, b)
<1> DEFINE m == NextNews(a)
<1>1. /\ UNCHANGED <<rows, sending, telling>>
      /\ inbox \in [Browsers -> Seq(News \cup Numbered)] /\ shown \in [Browsers -> Seq(News)]
      /\ Len(shown[b]) <= MaxAlerts /\ Once(shown[b])
      /\ untold \in [Browsers -> SUBSET Alerts]
  BY DEF Receive, Disconnect, vars, FeedTypes, Pipes, Panes, QuietInv, ListsInv
<1>2. a \notin untold[b]
  <2>1. untold' = untold \/ untold' = [untold EXCEPT ![c] = @ \cup About(inbox[c])]
    BY DEF Receive, Disconnect
  <2>2. a \in untold[b] => a \in untold'[b]
    BY <1>1, <2>1
  <2> QED
    BY <2>2
<1>3. m \in News /\ m.alert = a /\ Arrives(m, sending, telling, inbox[b], shown[b])
  BY <1>1, <1>2, SameRow DEF QuietInv
<1> HIDE DEF m
<1>4. CASE b # c
  <2>1. inbox'[b] = inbox[b] /\ shown'[b] = shown[b]
    BY <1>1, <1>4 DEF Receive, Disconnect, screenVars
  <2> QED
    BY <1>1, <1>3, <2>1 DEF ArrivesNext, m
<1>5. CASE b = c /\ Receive(c)
  <2>1. inbox[b] # <<>> /\ inbox'[b] = Tail(inbox[b])
    BY <1>1, <1>5 DEF Receive
  <2>2. shown'[b] = IF Head(inbox[b]).kind = "alert" THEN Listed(Head(inbox[b]), shown[b])
                    ELSE shown[b]
    BY <1>1, <1>5 DEF Receive
  <2>3. Arrives(m, sending, telling, Tail(inbox[b]), shown'[b])
    BY <1>1, <1>3, <2>1, <2>2, LastNewsTaken
  <2> QED
    BY <1>1, <2>1, <2>3 DEF ArrivesNext, m
<1>6. CASE b = c /\ Disconnect(c)
  <2>1. a \notin About(inbox[b]) /\ inbox'[b] = <<>> /\ UNCHANGED shown
    BY <1>1, <1>6 DEF Disconnect, screenVars
  <2>2. Arrives(m, sending, telling, <<>>, shown[b])
    BY <1>3, <2>1, EmptyAbout DEF Arrives
  <2> QED
    BY <1>1, <2>1, <2>2 DEF ArrivesNext, m
<1> QED
  BY <1>4, <1>5, <1>6

LEMMA NewsStep ==
    ASSUME \A v, w \in Workers : v = w, IInv, FeedTypes, QuietInv, [FeedNext]_allVars
    PROVE  NewsInv'
<1> SUFFICES ASSUME NEW b \in Browsers, NEW a \in DOMAIN rows' \ untold'[b]
             PROVE  ArrivesNext(a, b)
  BY DEF NewsInv, ArrivesNext, NextNews, Current
<1>1. ASSUME NEW w \in Workers, FeedLookup(w) \/ FeedApply(w) \/ FeedRollback(w) \/ QuietBatch(w)
      PROVE  ArrivesNext(a, b)
  <2>1. UNCHANGED <<rows, telling, inbox, shown, untold>>
    BY <1>1 DEF FeedLookup, Lookup, FeedApply, Insert, Fold, Flush, FeedRollback, Rollback,
                QuietBatch, vars, screenVars
  <2>2. CASE QuietBatch(w)
    <3> DEFINE e == [kind |-> "events"]
    <3>1. sending[w] = <<>> /\ sending' = [sending EXCEPT ![w] = <<e>>]
      BY <2>2 DEF QuietBatch
    <3>2. About(<<e>>) = {}
      BY DEF About, Entries
    <3>3. DOMAIN sending = Workers
      BY DEF FeedTypes, Pipes
    <3> HIDE DEF e
    <3>4. sending'[w] = <<e>>
      BY <3>1, <3>3
    <3>5. About(sending[w]) = {} /\ About(sending'[w]) = {}
      BY <3>1, <3>2, <3>4, EmptyAbout
    <3> QED
      BY <2>1, <3>5, QuietSteps
  <2>3. CASE FeedLookup(w) \/ FeedApply(w) \/ FeedRollback(w)
    <3>1. UNCHANGED sending
      BY <2>3 DEF FeedLookup, FeedApply, FeedRollback
    <3> QED
      BY <2>1, <3>1, QuietSteps
  <2> QED
    BY <1>1, <2>2, <2>3
<1>2. ASSUME NEW x \in Analysts, FeedPatchRead(x) \/ FeedPatchRefused(x) PROVE ArrivesNext(a, b)
  <2>1. UNCHANGED <<rows, sending, telling, inbox, shown, untold>>
    BY <1>2 DEF FeedPatchRead, PatchRead, FeedPatchRefused, PatchRefused, feedVars, screenVars
  <2> QED
    BY <2>1, QuietSteps
<1>3. ASSUME NEW c \in Browsers, Connect(c) \/ Subscribe(c) \/ Pause(c) \/ Resume(c) \/ ClearEvents(c)
      PROVE  ArrivesNext(a, b)
  <2>1. UNCHANGED <<rows, sending, telling, inbox, shown, untold>>
    BY <1>3 DEF Connect, Subscribe, Pause, Resume, ClearEvents, Drop, vars, screenVars
  <2> QED
    BY <2>1, QuietSteps
<1>4. ASSUME UNCHANGED allVars PROVE ArrivesNext(a, b)
  <2>1. UNCHANGED <<rows, sending, telling, inbox, shown, untold>>
    BY <1>4 DEF allVars, vars, feedVars, screenVars
  <2> QED
    BY <2>1, QuietSteps
<1>5. ASSUME NEW w \in Workers, FeedCommit(w) \/ Publish(w) \/ PublishFails(w)
      PROVE  ArrivesNext(a, b)
  <2>1. \A v \in Workers : v = w
    OBVIOUS
  <2> QED
    BY <1>5, <2>1, CommitArrives, PublishArrives
<1>6. ASSUME NEW x \in Analysts,
             FeedPatchSame(x) \/ FeedPatchWrite(x) \/ PublishMove(x) \/ PublishMoveFails(x)
      PROVE  ArrivesNext(a, b)
  BY <1>6, SameArrives, WriteArrives, MoveArrives
<1>7. ASSUME NEW c \in Browsers, Receive(c) \/ Disconnect(c) PROVE ArrivesNext(a, b)
  BY <1>7, BrowserArrives
<1> QED
  BY <1>1, <1>2, <1>3, <1>4, <1>5, <1>6, <1>7 DEF FeedNext

(***************************************************************************)
(* With one worker, once no news of an alert is under way, every screen    *)
(* has it as the table does, unless the browser has a reason not to or     *)
(* MAX_ALERTS others pushed it out (api/routes/realtime.py:4,              *)
(* streaming/pipeline.py:138-143, RealtimeProvider.tsx), for any number of *)
(* analysts and browsers.                                                  *)
(***************************************************************************)
THEOREM QuietFeedIsCurrentHolds ==
    ASSUME \A v, w \in Workers : v = w
    PROVE  FeedSpec => []QuietFeedIsCurrent
<1>1. FeedInit => QuietInv
  <2> SUFFICES ASSUME FeedInit PROVE QuietInv
    OBVIOUS
  <2>1. DOMAIN rows = {} /\ \A w \in Workers : DOMAIN draft[w] = {}
    BY DEF FeedInit, Init, EmptyTable
  <2>2. NotesInv
    BY <2>1, EmptyAbout DEF FeedInit, NotesInv
  <2>3. TurnsInv
    BY DEF FeedInit, TurnsInv
  <2>4. ListsInv
    BY DEF FeedInit, ListsInv, Once
  <2>5. NewsInv
    BY <2>1 DEF NewsInv
  <2> QED
    BY <2>2, <2>3, <2>4, <2>5 DEF QuietInv
<1>2. IInv /\ FeedTypes /\ QuietInv /\ [FeedNext]_allVars => QuietInv'
  <2> SUFFICES ASSUME IInv, FeedTypes, QuietInv, [FeedNext]_allVars PROVE QuietInv'
    OBVIOUS
  <2> QED
    BY NotesStep, TurnsStep, ListsStep, NewsStep DEF QuietInv
<1>3. IInv /\ QuietInv => QuietFeedIsCurrent
  <2> SUFFICES ASSUME IInv, QuietInv, NEW b \in Browsers,
                      NEW a \in DOMAIN rows \ (untold[b] \cup OnItsWay(b))
               PROVE  \/ Current(a) \in Entries(shown[b])
                      \/ Len(shown[b]) = MaxAlerts /\ a \notin About(shown[b])
    BY DEF QuietFeedIsCurrent, Current
  <2>1. Arrives(Current(a), sending, telling, inbox[b], shown[b]) /\ Current(a).alert = a
    BY CurrentFacts DEF QuietInv, NewsInv
  <2>2. a \in DOMAIN rows /\ a \notin untold[b] /\ a \notin OnItsWay(b)
    OBVIOUS
  <2>3. a \notin About(inbox[b])
    BY <2>2 DEF OnItsWay
  <2>4. \A w \in Workers : a \notin About(sending[w])
    BY <2>2 DEF OnItsWay
  <2>5. \A x \in Analysts : ~Telling(telling, x, a)
    <3>1. a \notin {telling[x].alert : x \in {y \in Analysts : telling[y] # NoPatch}}
      BY <2>2 DEF OnItsWay
    <3>2. ASSUME NEW x \in Analysts, telling[x] # NoPatch, telling[x].alert = a PROVE FALSE
      BY <3>1, <3>2
    <3> QED
      BY <3>2 DEF Telling
  <2> QED
    BY <2>1, <2>3, <2>4, <2>5 DEF Arrives
<1>4. FeedInit => FeedTypes
  BY InitFeedTypes
<1>5. IInv /\ FeedTypes /\ [FeedNext]_allVars => FeedTypes'
  BY FeedTypesStep
<1> QED
  BY <1>1, <1>2, <1>3, <1>4, <1>5, FeedInvariance, PTL DEF FeedSpec
=============================================================================
