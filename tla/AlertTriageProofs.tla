------------------------- MODULE AlertTriageProofs -------------------------
(***************************************************************************)
(* Proofs about AlertTriage, for any number of workers, analysts, alerts   *)
(* and keys.  The audit log explains the status of an alert because nobody *)
(* but PatchWrite changes the status of a committed row: a worker's        *)
(* transaction carries the status of the committed row, and holds the      *)
(* row's lock while it does.                                               *)
(***************************************************************************)
EXTENDS AlertTriage, SequenceTheorems, FiniteSetTheorems, TLAPS

LEMMA ViewFacts ==
    ASSUME TypeOK, NEW w \in Workers
    PROVE  /\ IsTable(View(w))
           /\ DOMAIN View(w) = DOMAIN draft[w] \cup DOMAIN rows
           /\ \A a \in DOMAIN draft[w] : View(w)[a] = draft[w][a]
           /\ \A a \in DOMAIN rows : a \notin DOMAIN draft[w] => View(w)[a] = rows[a]
BY DEF TypeOK, IsTable, View

\* The audited moves of an alert are a matter of the audit log alone.
LEMMA AuditFrame ==
    ASSUME audit' = audit
    PROVE  \A a : Moves(a)' = Moves(a)
BY DEF Moves

LEMMA InitIInv == Init => IInv
<1> SUFFICES ASSUME Init PROVE IInv
  OBVIOUS
<1>1. TypeOK
  BY DEF Init, TypeOK, IsTable, EmptyTable
<1>2. DOMAIN rows = {} /\ Len(audit) = 0 /\ \A w \in Workers : DOMAIN draft[w] = {}
  BY DEF Init, EmptyTable
<1>3. OneWriterPerRow /\ DraftsKeepStatus /\ AuditExplainsStatus
  BY <1>2 DEF OneWriterPerRow, DraftsKeepStatus, AuditExplainsStatus
<1>4. InHandExist
  BY <1>2 DEF Init, InHandExist
<1> QED
  BY <1>1, <1>3, <1>4 DEF IInv

\* The lookup only takes a detection in hand.
LEMMA LookupIInv == ASSUME IInv, NEW w \in Workers, Lookup(w) PROVE IInv'
<1>1. /\ UNCHANGED <<rows, audit, draft, patch, refused, tally, counted>>
      /\ raised' = raised + 1 /\ pc' = [pc EXCEPT ![w] = "apply"]
  BY DEF Lookup
<1>2. TypeOK /\ IsTable(View(w)) /\ DOMAIN View(w) = DOMAIN draft[w] \cup DOMAIN rows
  BY ViewFacts DEF IInv
<1>3. PICK d \in Hand : /\ hand' = [hand EXCEPT ![w] = d]
                        /\ d.found # NoAlert => d.found \in DOMAIN View(w)
  <2>1. PICK k \in Keys, h \in Hints :
          \/ hand' = [hand EXCEPT ![w] = [key |-> k, hint |-> h, found |-> NoAlert]]
          \/ \E a \in Findable(View(w), k) :
              hand' = [hand EXCEPT ![w] = [key |-> k, hint |-> h, found |-> a, read |-> View(w)[a]]]
    BY DEF Lookup
  <2>2. CASE hand' = [hand EXCEPT ![w] = [key |-> k, hint |-> h, found |-> NoAlert]]
    <3> DEFINE d == [key |-> k, hint |-> h, found |-> NoAlert]
    <3>1. d \in Hand /\ d.found = NoAlert
      BY DEF Hand
    <3> QED
      BY <2>2, <3>1
  <2>3. ASSUME NEW a \in Findable(View(w), k),
               hand' = [hand EXCEPT ![w] = [key |-> k, hint |-> h, found |-> a, read |-> View(w)[a]]]
        PROVE  \E d \in Hand : /\ hand' = [hand EXCEPT ![w] = d]
                               /\ d.found # NoAlert => d.found \in DOMAIN View(w)
    <3>1. a \in DOMAIN View(w) /\ a \in Alerts /\ View(w)[a] \in Row
      BY <1>2 DEF Findable, IsTable
    <3> DEFINE d == [key |-> k, hint |-> h, found |-> a, read |-> View(w)[a]]
    <3>2. d \in Hand /\ d.found = a
      BY <3>1 DEF Hand
    <3> QED
      BY <2>3, <3>1, <3>2
  <2> QED
    BY <2>1, <2>2, <2>3
<1>4. TypeOK'
  BY <1>1, <1>2, <1>3 DEF TypeOK, IsTable
<1>5. OneWriterPerRow' /\ DraftsKeepStatus' /\ AuditExplainsStatus'
  BY <1>1, AuditFrame DEF IInv, OneWriterPerRow, DraftsKeepStatus, AuditExplainsStatus
<1>6. InHandExist'
  <2>1. \A v \in Workers : DOMAIN View(v)' = DOMAIN View(v)
    BY <1>1 DEF View
  <2>2. \A v \in Workers : v # w => (hand'[v] = hand[v] /\ pc'[v] = pc[v])
    BY <1>1, <1>2, <1>3 DEF TypeOK
  <2>3. hand'[w] = d
    BY <1>2, <1>3 DEF TypeOK
  <2> QED
    BY <1>1, <1>3, <2>1, <2>2, <2>3 DEF IInv, InHandExist
<1> QED
  BY <1>4, <1>5, <1>6 DEF IInv

\* A flush adds one row to the draft of w, which no other worker has written,
\* with the status the committed row has.
LEMMA FlushIInv ==
    ASSUME IInv, NEW w \in Workers, pc[w] = "apply", NEW a \in Alerts, NEW row \in Row,
           Flush(w, a, row),
           \A v \in Workers \ {w} : a \notin DOMAIN draft[v],
           row.status = IF a \in DOMAIN rows THEN rows[a].status ELSE "open"
    PROVE  IInv'
<1>1. /\ UNCHANGED <<rows, audit, patch, refused, raised, counted>>
      /\ tally' = [tally EXCEPT ![w][hand[w].key] = @ + 1]
      /\ pc' = [pc EXCEPT ![w] = "next"] /\ hand' = [hand EXCEPT ![w] = NoAlert]
  BY DEF Flush
<1>2. TypeOK
  BY DEF IInv
<1>3. /\ DOMAIN draft' = Workers
      /\ DOMAIN draft'[w] = DOMAIN draft[w] \cup {a} /\ draft'[w][a] = row
      /\ \A b \in DOMAIN draft[w] : b # a => draft'[w][b] = draft[w][b]
      /\ \A v \in Workers : v # w => draft'[v] = draft[v]
  BY <1>2 DEF Flush, TypeOK
<1>4. TypeOK'
  <2>1. \A v \in Workers : IsTable(draft'[v])
    BY <1>2, <1>3 DEF TypeOK, IsTable
  <2>2. hand[w].key \in Keys
    BY <1>2 DEF TypeOK, Hand
  <2>3. tally' \in [Workers -> [Keys -> Nat]]
    BY <1>1, <1>2, <2>2 DEF TypeOK
  <2>4. /\ pc' \in [Workers -> {"next", "apply"}] /\ hand' \in [Workers -> Hand \cup {NoAlert}]
        /\ \A v \in Workers : pc'[v] = "apply" => hand'[v] \in Hand
    BY <1>1, <1>2 DEF TypeOK
  <2> QED
    BY <1>1, <1>2, <1>3, <2>1, <2>3, <2>4 DEF TypeOK, IsTable
<1>5. OneWriterPerRow'
  BY <1>3 DEF IInv, OneWriterPerRow
<1>6. DraftsKeepStatus'
  BY <1>1, <1>3 DEF IInv, DraftsKeepStatus
<1>7. InHandExist'
  <2>1. \A v \in Workers : DOMAIN View(v) \subseteq DOMAIN View(v)'
    BY <1>1, <1>3 DEF View
  <2>2. \A v \in Workers : pc'[v] = "apply" => pc[v] = "apply" /\ hand'[v] = hand[v]
    BY <1>1, <1>2 DEF TypeOK
  <2> QED
    BY <1>1, <2>1, <2>2 DEF IInv, InHandExist
<1>8. AuditExplainsStatus'
  BY <1>1, AuditFrame DEF IInv, AuditExplainsStatus
<1> QED
  BY <1>4, <1>5, <1>6, <1>7, <1>8 DEF IInv

LEMMA InsertIInv == ASSUME IInv, NEW w \in Workers, Insert(w) PROVE IInv'
<1>1. PICK a \in Alerts \ Used :
        Flush(w, a, [key |-> hand[w].key, status |-> "open", count |-> hand[w].hint,
                     history |-> <<>>])
  BY DEF Insert
<1>2. TypeOK /\ pc[w] = "apply"
  BY DEF IInv, Insert
<1>3. hand[w].key \in Keys /\ hand[w].hint \in Nat \ {0}
  BY <1>2, AlertAssumption DEF TypeOK, Hand
<1>4. [key |-> hand[w].key, status |-> "open", count |-> hand[w].hint, history |-> <<>>] \in Row
  BY <1>3 DEF Row, Statuses, Active
<1>5. a \notin DOMAIN rows /\ \A v \in Workers : a \notin DOMAIN draft[v]
  BY DEF Used
<1> QED
  BY <1>1, <1>2, <1>4, <1>5, FlushIInv

\* A fold makes a row of the status of the current one.
LEMMA FoldedRow ==
    ASSUME NEW read \in Row, NEW current \in Row, NEW h \in Nat \ {0},
           NEW row \in Folded(read, current, h)
    PROVE  row \in Row /\ row.status = current.status
<1>1. PICK kept \in {read.history, current.history} :
        row = [current EXCEPT !.count = IF read.count + 1 < h THEN h ELSE read.count + 1,
                              !.history = kept]
  BY DEF Folded
<1>2. read.count + 1 \in Nat \ {0} /\ kept \in Seq(Nat \ {0})
  BY DEF Row
<1> QED
  BY <1>1, <1>2 DEF Row

LEMMA FoldIInv == ASSUME IInv, NEW w \in Workers, Fold(w) PROVE IInv'
<1> DEFINE a == hand[w].found
           current == View(w)[a]
<1>1. TypeOK /\ pc[w] = "apply" /\ a # NoAlert /\ \A v \in Workers \ {w} : a \notin DOMAIN draft[v]
  BY DEF IInv, Fold, LockedBy
<1>2. PICK row \in Folded(hand[w].read, current, hand[w].hint) : Flush(w, a, row)
  BY DEF Fold
<1>3. a \in Alerts /\ hand[w].read \in Row /\ hand[w].hint \in Nat \ {0}
  BY <1>1, AlertAssumption DEF TypeOK, Hand
<1>4. a \in DOMAIN View(w) /\ current \in Row
  BY <1>1, ViewFacts DEF IInv, InHandExist, IsTable
<1>5. row \in Row /\ row.status = current.status
  BY <1>2, <1>3, <1>4, FoldedRow
<1>6. current.status = IF a \in DOMAIN rows THEN rows[a].status ELSE "open"
  <2>1. CASE a \in DOMAIN draft[w]
    <3>1. current = draft[w][a]
      BY <2>1, <1>1, ViewFacts
    <3>2. draft[w][a].status = IF a \in DOMAIN rows THEN rows[a].status ELSE "open"
      BY <2>1 DEF IInv, DraftsKeepStatus
    <3> QED
      BY <3>1, <3>2
  <2>2. CASE a \notin DOMAIN draft[w]
    BY <2>2, <1>1, <1>4, ViewFacts
  <2> QED
    BY <2>1, <2>2
<1> QED
  BY <1>1, <1>2, <1>3, <1>5, <1>6, FlushIInv

\* The end of a transaction frees what only w had written.
LEMMA EndFacts ==
    ASSUME TypeOK, NEW w \in Workers, EndTransaction(w)
    PROVE  /\ UNCHANGED <<audit, patch, refused, raised>>
           /\ DOMAIN draft' = Workers /\ DOMAIN draft'[w] = {}
           /\ \A v \in Workers : v # w => draft'[v] = draft[v]
           /\ pc' \in [Workers -> {"next", "apply"}] /\ hand' \in [Workers -> Hand \cup {NoAlert}]
           /\ \A v \in Workers : pc'[v] = "apply" => (pc[v] = "apply" /\ hand'[v] = hand[v] /\ v # w)
           /\ tally' \in [Workers -> [Keys -> Nat]]
BY DEF EndTransaction, TypeOK, EmptyTable

LEMMA RollbackIInv == ASSUME IInv, NEW w \in Workers, Rollback(w) PROVE IInv'
<1>1. TypeOK /\ EndTransaction(w) /\ UNCHANGED <<rows, counted>>
  BY DEF IInv, Rollback
<1>2. TypeOK'
  <2>1. \A v \in Workers : IsTable(draft'[v])
    BY <1>1, EndFacts DEF TypeOK, IsTable
  <2>2. \A v \in Workers : pc'[v] = "apply" => hand'[v] \in Hand
    BY <1>1, EndFacts DEF TypeOK
  <2> QED
    BY <1>1, <2>1, <2>2, EndFacts DEF TypeOK, IsTable
<1>3. OneWriterPerRow' /\ DraftsKeepStatus'
  <2>1. OneWriterPerRow'
    BY <1>1, EndFacts DEF IInv, OneWriterPerRow
  <2>2. DraftsKeepStatus'
    BY <1>1, EndFacts DEF IInv, DraftsKeepStatus
  <2> QED
    BY <2>1, <2>2
<1>4. InHandExist'
  <2>1. \A v \in Workers : v # w => View(v)' = View(v)
    BY <1>1, EndFacts DEF View
  <2> QED
    BY <1>1, <2>1, EndFacts DEF IInv, InHandExist
<1>5. AuditExplainsStatus'
  BY <1>1, EndFacts, AuditFrame DEF IInv, AuditExplainsStatus
<1> QED
  BY <1>2, <1>3, <1>4, <1>5 DEF IInv

\* A commit publishes statuses the committed rows already had, and new alerts
\* that are open and have no moves.
LEMMA CommitIInv == ASSUME IInv, NEW w \in Workers, Commit(w) PROVE IInv'
<1>1. /\ TypeOK /\ EndTransaction(w) /\ rows' = View(w)
      /\ counted' = [k \in Keys |-> counted[k] + tally[w][k]]
  BY DEF IInv, Commit
<1>2. /\ DOMAIN rows' = DOMAIN draft[w] \cup DOMAIN rows
      /\ \A a \in DOMAIN rows : rows'[a].status = rows[a].status
      /\ \A a \in DOMAIN draft[w] : a \notin DOMAIN rows => rows'[a].status = "open"
  <2>1. DraftsKeepStatus
    BY DEF IInv
  <2>2. /\ DOMAIN rows' = DOMAIN draft[w] \cup DOMAIN rows
        /\ \A a \in DOMAIN draft[w] : rows'[a] = draft[w][a]
        /\ \A a \in DOMAIN rows : a \notin DOMAIN draft[w] => rows'[a] = rows[a]
    BY <1>1, ViewFacts
  <2> QED
    BY <2>1, <2>2 DEF DraftsKeepStatus
<1>3. TypeOK'
  <2>1. IsTable(rows')
    BY <1>1, ViewFacts
  <2>2. counted' \in [Keys -> Nat]
    BY <1>1 DEF TypeOK
  <2>3. \A v \in Workers : IsTable(draft'[v])
    BY <1>1, EndFacts DEF TypeOK, IsTable
  <2>4. \A v \in Workers : pc'[v] = "apply" => hand'[v] \in Hand
    BY <1>1, EndFacts DEF TypeOK
  <2>5. /\ UNCHANGED <<audit, patch, refused, raised>> /\ DOMAIN draft' = Workers
        /\ pc' \in [Workers -> {"next", "apply"}] /\ hand' \in [Workers -> Hand \cup {NoAlert}]
        /\ tally' \in [Workers -> [Keys -> Nat]]
    BY <1>1, EndFacts
  <2> QED
    BY <1>1, <2>1, <2>2, <2>3, <2>4, <2>5 DEF TypeOK
<1>4. OneWriterPerRow'
  BY <1>1, EndFacts DEF IInv, OneWriterPerRow
<1>5. DraftsKeepStatus'
  BY <1>1, <1>2, EndFacts DEF IInv, OneWriterPerRow, DraftsKeepStatus
<1>6. InHandExist'
  <2>1. \A v \in Workers : v # w => DOMAIN View(v) \subseteq DOMAIN View(v)'
    BY <1>1, <1>2, EndFacts DEF View
  <2>2. audit' = audit /\ patch' = patch /\ DOMAIN rows \subseteq DOMAIN rows'
    BY <1>1, <1>2, EndFacts
  <2>3. \A v \in Workers : pc'[v] = "apply" => pc[v] = "apply" /\ hand'[v] = hand[v] /\ v # w
    BY <1>1, EndFacts
  <2>4. \A v \in Workers :
          pc'[v] = "apply" /\ hand'[v].found # NoAlert => hand'[v].found \in DOMAIN View(v)'
    BY <2>1, <2>3 DEF IInv, InHandExist
  <2> QED
    BY <2>2, <2>4 DEF IInv, InHandExist
<1>7. AuditExplainsStatus'
  <2> SUFFICES ASSUME NEW a \in DOMAIN rows'
               PROVE  \/ Moves(a) = {} /\ rows'[a].status = "open"
                      \/ \E i \in Moves(a) : audit[i].to = rows'[a].status /\ \A j \in Moves(a) : j <= i
    BY <1>1, EndFacts, AuditFrame DEF AuditExplainsStatus
  <2>1. CASE a \in DOMAIN rows
    BY <2>1, <1>2 DEF IInv, AuditExplainsStatus
  <2>2. CASE a \notin DOMAIN rows
    BY <2>2, <1>2 DEF IInv, InHandExist, Moves
  <2> QED
    BY <2>1, <2>2
<1> QED
  BY <1>3, <1>4, <1>5, <1>6, <1>7 DEF IInv

\* An analyst's request only names a row that is there.
LEMMA PatchReadIInv == ASSUME IInv, NEW x \in Analysts, PatchRead(x) PROVE IInv'
<1>1. /\ UNCHANGED <<rows, audit, refused, draft, pc, hand, raised, tally, counted>>
      /\ TypeOK
  BY DEF PatchRead, workerVars, IInv
<1>2. PICK a \in DOMAIN rows, s \in Statuses :
        patch' = [patch EXCEPT ![x] = [alert |-> a, to |-> s, read |-> rows[a]]]
  BY DEF PatchRead
<1>3. a \in Alerts /\ rows[a] \in Row
  BY <1>1 DEF TypeOK, IsTable
<1>4. /\ patch' \in [Analysts -> Request \cup {NoPatch}] /\ patch'[x].alert = a
      /\ \A y \in Analysts : y # x => patch'[y] = patch[y]
  BY <1>1, <1>2, <1>3 DEF TypeOK, Request
<1>5. TypeOK' /\ InHandExist'
  <2>1. TypeOK'
    BY <1>1, <1>4 DEF TypeOK, IsTable
  <2>2. \A v \in Workers : View(v)' = View(v)
    BY <1>1 DEF View
  <2>3. InHandExist'
    BY <1>1, <1>4, <2>2 DEF IInv, InHandExist
  <2> QED
    BY <2>1, <2>3
<1>6. OneWriterPerRow' /\ DraftsKeepStatus' /\ AuditExplainsStatus'
  BY <1>1, AuditFrame DEF IInv, OneWriterPerRow, DraftsKeepStatus, AuditExplainsStatus
<1> QED
  BY <1>5, <1>6 DEF IInv

LEMMA PatchRefusedIInv == ASSUME IInv, NEW x \in Analysts, PatchRefused(x) PROVE IInv'
<1>1. /\ UNCHANGED <<rows, audit, draft, pc, hand, raised, tally, counted>>
      /\ patch[x] # NoPatch /\ refused' = refused \cup {MoveOf(x)}
      /\ patch' = [patch EXCEPT ![x] = NoPatch] /\ TypeOK
  BY DEF PatchRefused, workerVars, IInv
<1>2. /\ patch' \in [Analysts -> Request \cup {NoPatch}]
      /\ \A y \in Analysts : patch'[y] # NoPatch => patch'[y] = patch[y]
  BY <1>1 DEF TypeOK
<1>3. MoveOf(x) \in Move
  BY <1>1 DEF TypeOK, Request, Row, MoveOf, Move
<1>4. TypeOK'
  BY <1>1, <1>2, <1>3 DEF TypeOK, IsTable
<1>5. \A v \in Workers : View(v)' = View(v)
  BY <1>1 DEF View
<1>6. InHandExist'
  BY <1>1, <1>2, <1>5 DEF IInv, InHandExist
<1>7. OneWriterPerRow' /\ DraftsKeepStatus' /\ AuditExplainsStatus'
  BY <1>1, AuditFrame DEF IInv, OneWriterPerRow, DraftsKeepStatus, AuditExplainsStatus
<1> QED
  BY <1>4, <1>6, <1>7 DEF IInv

\* The history a request writes has positions of the audit log.
LEMMA NotedType ==
    ASSUME NEW h \in Seq(Nat \ {0}), audit \in Seq(Move)
    PROVE  Noted(h) \in Seq(Nat \ {0})
<1> DEFINE s == Append(h, Len(audit) + 1)
<1>1. s \in Seq(Nat \ {0}) /\ Len(s) \in Nat
  OBVIOUS
<1>2. CASE Len(s) > HistoryMax
  <2>1. Len(s) - HistoryMax + 1 \in 1..(Len(s) + 1)
    BY <1>1, <1>2, AlertAssumption
  <2>2. SubSeq(s, Len(s) - HistoryMax + 1, Len(s)) \in Seq(Nat \ {0})
    BY <1>1, <2>1, SubSeqProperties
  <2> QED
    BY <1>2, <2>2 DEF Noted, LastEntries
<1>3. CASE ~(Len(s) > HistoryMax)
  BY <1>1, <1>3 DEF Noted, LastEntries
<1> QED
  BY <1>2, <1>3

\* The move changes the status of a row nobody holds, and is the last audited.
LEMMA PatchWriteIInv == ASSUME IInv, NEW x \in Analysts, PatchWrite(x) PROVE IInv'
<1>0. PICK a : a = patch[x].alert
  OBVIOUS
<1>1. /\ UNCHANGED <<refused, draft, pc, hand, raised, tally, counted>>
      /\ patch[x] # NoPatch /\ audit' = Append(audit, MoveOf(x))
      /\ patch' = [patch EXCEPT ![x] = NoPatch] /\ TypeOK
      /\ \A v \in Workers : a \notin DOMAIN draft[v]
  BY <1>0 DEF PatchWrite, workerVars, IInv, Waits, LockedBy
<1>2. /\ patch' \in [Analysts -> Request \cup {NoPatch}]
      /\ \A y \in Analysts : patch'[y] # NoPatch => patch'[y] = patch[y]
  BY <1>1 DEF TypeOK
<1>3. patch[x] \in Request /\ MoveOf(x) \in Move /\ MoveOf(x).alert = a /\ MoveOf(x).to = patch[x].to
  BY <1>0, <1>1 DEF TypeOK, Request, Row, MoveOf, Move
<1>4. a \in DOMAIN rows /\ rows[a] \in Row
  BY <1>0, <1>1 DEF IInv, InHandExist, TypeOK, IsTable
<1>5. /\ DOMAIN rows' = DOMAIN rows
      /\ \A b \in DOMAIN rows : b # a => rows'[b] = rows[b]
      /\ rows'[a].status = patch[x].to /\ rows'[a] \in Row
  <2>1. rows' = [rows EXCEPT ![a].status = patch[x].to,
                             ![a].history = Noted(patch[x].read.history)]
    BY <1>0 DEF PatchWrite
  <2>2. Noted(patch[x].read.history) \in Seq(Nat \ {0})
    BY <1>1, <1>3, NotedType DEF TypeOK, Request, Row
  <2> QED
    BY <2>1, <2>2, <1>3, <1>4 DEF Request, Row
<1>6. TypeOK'
  <2>1. IsTable(rows')
    BY <1>1, <1>4, <1>5 DEF TypeOK, IsTable
  <2> QED
    BY <2>1, <1>1, <1>2, <1>3 DEF TypeOK, IsTable
<1>7. OneWriterPerRow' /\ DraftsKeepStatus'
  <2>1. OneWriterPerRow'
    BY <1>1 DEF IInv, OneWriterPerRow
  <2>2. DraftsKeepStatus'
    BY <1>1, <1>5 DEF IInv, DraftsKeepStatus
  <2> QED
    BY <2>1, <2>2
<1>8. /\ Len(audit') = Len(audit) + 1 /\ audit'[Len(audit) + 1] = MoveOf(x)
      /\ \A i \in 1..Len(audit) : audit'[i] = audit[i]
      /\ Len(audit) \in Nat
  BY <1>1, <1>3 DEF TypeOK
<1>9. InHandExist'
  <2>1. \A v \in Workers : DOMAIN View(v)' = DOMAIN View(v)
    BY <1>1, <1>5 DEF View
  <2>2. \A i \in 1..Len(audit') : audit'[i].alert \in DOMAIN rows
    BY <1>3, <1>4, <1>8 DEF IInv, InHandExist
  <2> QED
    BY <1>1, <1>2, <1>5, <2>1, <2>2 DEF IInv, InHandExist
<1>10. AuditExplainsStatus'
  <2>0. 1..Len(audit') = (1..Len(audit)) \cup {Len(audit) + 1}
    BY <1>8
  <2>1. Moves(a)' = Moves(a) \cup {Len(audit) + 1}
    BY <2>0, <1>3, <1>8 DEF Moves
  <2>2. \A b : b # a => Moves(b)' = Moves(b)
    BY <2>0, <1>3, <1>8 DEF Moves
  <2>3. \A b : Moves(b) \subseteq 1..Len(audit)
    BY DEF Moves
  <2> SUFFICES ASSUME NEW b \in DOMAIN rows
               PROVE  \/ Moves(b)' = {} /\ rows'[b].status = "open"
                      \/ \E i \in Moves(b)' : audit'[i].to = rows'[b].status
                                                /\ \A j \in Moves(b)' : j <= i
    BY <1>5 DEF AuditExplainsStatus
  <2>4. CASE b = a
    <3>1. \A j \in Moves(a)' : j <= Len(audit) + 1
      BY <2>1, <2>3, <1>8
    <3>2. audit'[Len(audit) + 1].to = rows'[a].status /\ Len(audit) + 1 \in Moves(a)'
      BY <2>1, <1>3, <1>5, <1>8
    <3> QED
      BY <2>4, <3>1, <3>2
  <2>5. CASE b # a
    <3>1. \/ Moves(b) = {} /\ rows[b].status = "open"
          \/ \E i \in Moves(b) : audit[i].to = rows[b].status /\ \A j \in Moves(b) : j <= i
      BY DEF IInv, AuditExplainsStatus
    <3>2. \A i \in Moves(b) : audit'[i] = audit[i]
      BY <2>3, <1>8
    <3> QED
      BY <2>2, <2>5, <3>1, <3>2, <1>5
  <2> QED
    BY <2>4, <2>5
<1> QED
  BY <1>6, <1>7, <1>9, <1>10 DEF IInv
-----------------------------------------------------------------------------
LEMMA NextIInv == IInv /\ [Next]_vars => IInv'
<1> SUFFICES ASSUME IInv, [Next]_vars PROVE IInv'
  OBVIOUS
<1>1. ASSUME NEW w \in Workers, Lookup(w) \/ Insert(w) \/ Fold(w) \/ Commit(w) \/ Rollback(w)
      PROVE  IInv'
  BY <1>1, LookupIInv, InsertIInv, FoldIInv, CommitIInv, RollbackIInv
<1>2. ASSUME NEW x \in Analysts, PatchRead(x) \/ PatchWrite(x) \/ PatchRefused(x)
      PROVE  IInv'
  BY <1>2, PatchReadIInv, PatchWriteIInv, PatchRefusedIInv
<1>3. CASE UNCHANGED vars
  <2>1. /\ UNCHANGED <<rows, audit, patch, refused, draft, pc, hand, raised, tally, counted>>
    BY <1>3 DEF vars, workerVars
  <2>2. TypeOK'
    BY <2>1 DEF IInv, TypeOK, IsTable
  <2>3. \A v \in Workers : View(v)' = View(v)
    BY <2>1 DEF View
  <2>4. InHandExist'
    BY <2>1, <2>3 DEF IInv, InHandExist
  <2>5. OneWriterPerRow' /\ DraftsKeepStatus' /\ AuditExplainsStatus'
    BY <2>1, AuditFrame DEF IInv, OneWriterPerRow, DraftsKeepStatus, AuditExplainsStatus
  <2> QED
    BY <2>2, <2>4, <2>5 DEF IInv
<1> QED
  BY <1>1, <1>2, <1>3 DEF Next

(***************************************************************************)
(* The inductive invariant of triage: one writer per row, whose draft      *)
(* carries the committed status, and an audit log that explains it.        *)
(***************************************************************************)
THEOREM Invariance == Spec => []IInv
  BY InitIInv, NextIInv, PTL DEF Spec

(***************************************************************************)
(* Every change of an alert's status is audited, and the last audited move *)
(* tells the status it has, whoever races with whom.                       *)
(***************************************************************************)
THEOREM AuditExplainsStatusHolds == Spec => []AuditExplainsStatus
<1>1. IInv => AuditExplainsStatus
  BY DEF IInv
<1> QED
  BY <1>1, Invariance, PTL
-----------------------------------------------------------------------------
(***************************************************************************)
(* status_history: every copy of an alert's row, be it committed, in a     *)
(* draft or in somebody's hand, lists audited moves of that alert, so it   *)
(* does not matter which of them a writer writes back.                     *)
(***************************************************************************)
Tells(h, moves) ==
    /\ Len(h) <= HistoryMax
    /\ \A i \in 1..Len(h) : h[i] \in moves
    /\ \A i, j \in 1..Len(h) : i < j => h[i] < h[j]

HistoryInv ==
    /\ \A a \in DOMAIN rows : Tells(rows[a].history, Moves(a))
    /\ \A w \in Workers : \A a \in DOMAIN draft[w] : Tells(draft[w][a].history, Moves(a))
    /\ \A x \in Analysts : patch[x] # NoPatch => Tells(patch[x].read.history, Moves(patch[x].alert))
    /\ \A w \in Workers : pc[w] = "apply" /\ hand[w].found # NoAlert =>
         Tells(hand[w].read.history, Moves(hand[w].found))

LEMMA TellsMore ==
    ASSUME NEW M, NEW N, M \subseteq N, NEW h, Tells(h, M)
    PROVE  Tells(h, N)
  BY DEF Tells

LEMMA ViewTells ==
    ASSUME TypeOK, HistoryInv, NEW w \in Workers, NEW a \in DOMAIN View(w)
    PROVE  Tells(View(w)[a].history, Moves(a))
  BY ViewFacts DEF HistoryInv

\* What a lookup takes in hand.
LEMMA LookupFacts ==
    ASSUME TypeOK, NEW w \in Workers, Lookup(w)
    PROVE  /\ UNCHANGED <<rows, audit, draft, patch, refused, tally, counted>>
           /\ \A v \in Workers : v # w => hand'[v] = hand[v] /\ pc'[v] = pc[v]
           /\ \/ hand'[w].found = NoAlert /\ Findable(View(w), hand'[w].key) = {}
              \/ /\ hand'[w].found \in Findable(View(w), hand'[w].key)
                 /\ hand'[w].read = View(w)[hand'[w].found]
<1>1. PICK k \in Keys, h \in Hints :
        \/ /\ Findable(View(w), k) = {}
           /\ hand' = [hand EXCEPT ![w] = [key |-> k, hint |-> h, found |-> NoAlert]]
        \/ \E a \in Findable(View(w), k) :
             hand' = [hand EXCEPT ![w] = [key |-> k, hint |-> h, found |-> a, read |-> View(w)[a]]]
  BY DEF Lookup
<1>2. /\ UNCHANGED <<rows, audit, draft, patch, refused, tally, counted>>
      /\ pc' = [pc EXCEPT ![w] = "apply"]
  BY DEF Lookup
<1> QED
  BY <1>1, <1>2 DEF TypeOK

\* What a flush adds to a draft.
LEMMA FlushFacts ==
    ASSUME TypeOK, NEW w \in Workers, NEW a, NEW row, Flush(w, a, row)
    PROVE  /\ UNCHANGED <<rows, audit, patch>>
           /\ DOMAIN draft'[w] = DOMAIN draft[w] \cup {a} /\ draft'[w][a] = row
           /\ \A b \in DOMAIN draft[w] : b # a => draft'[w][b] = draft[w][b]
           /\ \A v \in Workers : v # w => draft'[v] = draft[v] /\ hand'[v] = hand[v] /\ pc'[v] = pc[v]
           /\ pc'[w] = "next"
  BY DEF Flush, TypeOK

LEMMA FlushHistory ==
    ASSUME TypeOK, HistoryInv, NEW w \in Workers, NEW a, NEW row, Flush(w, a, row),
           Tells(row.history, Moves(a))
    PROVE  HistoryInv'
<1>1. /\ UNCHANGED <<rows, audit, patch>>
      /\ DOMAIN draft'[w] = DOMAIN draft[w] \cup {a} /\ draft'[w][a] = row
      /\ \A b \in DOMAIN draft[w] : b # a => draft'[w][b] = draft[w][b]
      /\ \A v \in Workers : v # w => draft'[v] = draft[v] /\ hand'[v] = hand[v] /\ pc'[v] = pc[v]
      /\ pc'[w] = "next"
  BY FlushFacts
<1>2. \A b : Moves(b)' = Moves(b)
  BY <1>1, AuditFrame
<1>3. \A v \in Workers : \A b \in DOMAIN draft'[v] : Tells(draft'[v][b].history, Moves(b))
  BY <1>1 DEF HistoryInv
<1>4. \A v \in Workers : pc'[v] = "apply" => pc[v] = "apply" /\ hand'[v] = hand[v]
  BY <1>1
<1> QED
  BY <1>1, <1>2, <1>3, <1>4 DEF HistoryInv

LEMMA InsertFoldHistory ==
    ASSUME IInv, HistoryInv, NEW w \in Workers, Insert(w) \/ Fold(w)
    PROVE  HistoryInv'
<1>1. TypeOK
  BY DEF IInv
<1>2. CASE Insert(w)
  <2>1. PICK a : Flush(w, a, [key |-> hand[w].key, status |-> "open", count |-> hand[w].hint,
                              history |-> <<>>])
    BY <1>2 DEF Insert
  <2>2. Tells(<<>>, Moves(a))
    BY AlertAssumption DEF Tells
  <2> QED
    BY <1>1, <2>1, <2>2, FlushHistory
<1>3. CASE Fold(w)
  <2> DEFINE a == hand[w].found
             current == View(w)[a]
  <2>1. pc[w] = "apply" /\ a # NoAlert
    BY <1>3 DEF Fold
  <2>2. PICK row \in Folded(hand[w].read, current, hand[w].hint) : Flush(w, a, row)
    BY <1>3 DEF Fold
  <2>3. a \in DOMAIN View(w) /\ current \in Row
    BY <1>1, <2>1, ViewFacts DEF IInv, InHandExist, IsTable
  <2>4. Tells(hand[w].read.history, Moves(a)) /\ Tells(current.history, Moves(a))
    BY <1>1, <2>1, <2>3, ViewTells DEF HistoryInv
  <2>5. row.history \in {hand[w].read.history, current.history}
    BY <2>2, <2>3 DEF Folded, Row
  <2>6. Tells(row.history, Moves(a))
    BY <2>4, <2>5
  <2> QED
    BY <1>1, <2>2, <2>6, FlushHistory
<1> QED
  BY <1>2, <1>3

LEMMA EndHistory ==
    ASSUME IInv, HistoryInv, NEW w \in Workers, Commit(w) \/ Rollback(w)
    PROVE  HistoryInv'
<1>1. TypeOK /\ EndTransaction(w) /\ rows' \in {rows, View(w)}
  BY DEF IInv, Commit, Rollback
<1>2. \A b : Moves(b)' = Moves(b)
  BY <1>1, EndFacts, AuditFrame
<1>3. \A a \in DOMAIN rows' : Tells(rows'[a].history, Moves(a))
  BY <1>1, ViewTells DEF HistoryInv
<1>4. \A v \in Workers : \A a \in DOMAIN draft'[v] : Tells(draft'[v][a].history, Moves(a))
  BY <1>1, EndFacts DEF HistoryInv
<1>5. \A v \in Workers : pc'[v] = "apply" => pc[v] = "apply" /\ hand'[v] = hand[v]
  BY <1>1, EndFacts
<1>6. patch' = patch
  BY <1>1, EndFacts
<1> QED
  BY <1>2, <1>3, <1>4, <1>5, <1>6 DEF HistoryInv

\* The positions of the audit log an alert has only become more, and a move that
\* is audited is the newest.
MovesIn(log, a) == {i \in 1..Len(log) : log[i].alert = a}

LEMMA MovesInFacts == \A a : Moves(a) = MovesIn(audit, a) /\ Moves(a)' = MovesIn(audit', a)
  BY DEF Moves, MovesIn

LEMMA WriteFacts ==
    ASSUME IInv, NEW x \in Analysts, PatchWrite(x)
    PROVE  \E a \in DOMAIN rows :
             /\ a = patch[x].alert /\ patch[x] # NoPatch /\ patch[x] \in Request
             /\ rows[a] \in Row /\ \A v \in Workers : a \notin DOMAIN draft[v]
             /\ UNCHANGED <<refused, draft, pc, hand, raised, tally, counted>>
             /\ patch' = [patch EXCEPT ![x] = NoPatch]
             /\ Len(audit) \in Nat /\ audit'[Len(audit) + 1] = MoveOf(x)
             /\ \A i \in 1..Len(audit) : audit'[i] = audit[i]
             /\ MovesIn(audit', a) = MovesIn(audit, a) \cup {Len(audit) + 1}
             /\ \A b : b # a => MovesIn(audit', b) = MovesIn(audit, b)
             /\ \A b : MovesIn(audit, b) \subseteq 1..Len(audit)
             /\ DOMAIN rows' = DOMAIN rows
             /\ \A b \in DOMAIN rows : b # a => rows'[b] = rows[b]
             /\ rows'[a] = [rows[a] EXCEPT !.status = patch[x].to,
                                           !.history = Noted(patch[x].read.history)]
<1>0. PICK a : a = patch[x].alert
  OBVIOUS
<1>1. /\ UNCHANGED <<refused, draft, pc, hand, raised, tally, counted>>
      /\ patch[x] # NoPatch /\ audit' = Append(audit, MoveOf(x))
      /\ patch' = [patch EXCEPT ![x] = NoPatch] /\ TypeOK
      /\ \A v \in Workers : a \notin DOMAIN draft[v]
  BY <1>0 DEF PatchWrite, workerVars, IInv, Waits, LockedBy
<1>2. patch[x] \in Request /\ MoveOf(x) \in Move /\ MoveOf(x).alert = a
  BY <1>0, <1>1 DEF TypeOK, Request, Row, MoveOf, Move
<1>3. a \in DOMAIN rows /\ rows[a] \in Row
  BY <1>0, <1>1 DEF IInv, InHandExist, TypeOK, IsTable
<1>4. /\ Len(audit) \in Nat /\ Len(audit') = Len(audit) + 1 /\ audit'[Len(audit) + 1] = MoveOf(x)
      /\ \A i \in 1..Len(audit) : audit'[i] = audit[i]
  BY <1>1, <1>2 DEF TypeOK
<1>5. 1..Len(audit') = (1..Len(audit)) \cup {Len(audit) + 1}
  BY <1>4
<1>6. /\ MovesIn(audit', a) = MovesIn(audit, a) \cup {Len(audit) + 1}
      /\ \A b : b # a => MovesIn(audit', b) = MovesIn(audit, b)
      /\ \A b : MovesIn(audit, b) \subseteq 1..Len(audit)
  BY <1>2, <1>4, <1>5 DEF MovesIn
<1>7. rows' = [rows EXCEPT ![a].status = patch[x].to,
                           ![a].history = Noted(patch[x].read.history)]
  BY <1>0 DEF PatchWrite
<1>8. /\ DOMAIN rows' = DOMAIN rows
      /\ \A b \in DOMAIN rows : b # a => rows'[b] = rows[b]
      /\ rows'[a] = [rows[a] EXCEPT !.status = patch[x].to,
                                    !.history = Noted(patch[x].read.history)]
  BY <1>3, <1>7
<1> QED
  BY <1>0, <1>1, <1>2, <1>3, <1>4, <1>6, <1>8

\* The history with a newer move at its end, cut to its last entries.
LEMMA NotedTells ==
    ASSUME NEW h \in Seq(Nat \ {0}), NEW M, Tells(h, M), M \subseteq 1..Len(audit),
           Len(audit) \in Nat
    PROVE  Tells(Noted(h), M \cup {Len(audit) + 1})
<1> DEFINE n == Len(audit) + 1
           s == Append(h, n)
           N == M \cup {n}
<1>1. /\ Len(h) \in Nat /\ Len(s) = Len(h) + 1 /\ s[Len(h) + 1] = n
      /\ \A i \in 1..Len(h) : s[i] = h[i]
      /\ s \in Seq(Nat)
  OBVIOUS
<1>2. ASSUME NEW i \in 1..Len(s) PROVE s[i] \in N /\ s[i] \in Nat
  <2>1. CASE i = Len(h) + 1
    BY <1>1, <2>1
  <2>2. CASE i \in 1..Len(h)
    <3>1. h[i] \in M
      BY <2>2 DEF Tells
    <3> QED
      BY <1>1, <2>2, <3>1
  <2> QED
    BY <1>1, <2>1, <2>2
<1>3. ASSUME NEW i \in 1..Len(s), NEW j \in 1..Len(s), i < j PROVE s[i] < s[j]
  <2>1. i \in 1..Len(h) /\ s[i] = h[i] /\ h[i] \in 1..Len(audit)
    BY <1>1, <1>3 DEF Tells
  <2>2. CASE j = Len(h) + 1
    BY <1>1, <2>1, <2>2
  <2>3. CASE j \in 1..Len(h)
    BY <1>1, <1>3, <2>1, <2>3 DEF Tells
  <2> QED
    BY <1>1, <2>2, <2>3
<1> HIDE DEF s, N
<1>4. CASE Len(s) > HistoryMax
  <2> DEFINE k == Len(s) - HistoryMax + 1
             t == SubSeq(s, k, Len(s))
  <2>1. k \in 1..Len(s) /\ Len(s) \in Nat /\ HistoryMax \in Nat \ {0} /\ k \in Nat
    BY <1>1, <1>4, AlertAssumption
  <2>2. Len(t) = HistoryMax /\ \A i \in 1..HistoryMax : t[i] = s[k + i - 1]
    BY <1>1, <2>1, SubSeqProperties
  <2>3. \A i \in 1..HistoryMax : k + i - 1 \in 1..Len(s)
    BY <2>1
  <2> HIDE DEF t
  <2>4. /\ Len(t) <= HistoryMax
        /\ \A i \in 1..Len(t) : t[i] \in N
    BY <1>2, <2>1, <2>2, <2>3
  <2>5. Tells(t, N)
    <3> SUFFICES ASSUME NEW i \in 1..Len(t), NEW j \in 1..Len(t), i < j PROVE t[i] < t[j]
      BY <2>4 DEF Tells
    <3>1. k + i - 1 \in 1..Len(s) /\ k + j - 1 \in 1..Len(s) /\ k + i - 1 < k + j - 1
      BY <2>1, <2>2, <2>3
    <3> QED
      BY <1>3, <2>2, <3>1
  <2> QED
    BY <1>4, <2>5 DEF Noted, LastEntries, s, t, k, N
<1>5. CASE ~(Len(s) > HistoryMax)
  <2>1. Len(s) <= HistoryMax
    BY <1>1, <1>5, AlertAssumption
  <2>2. Tells(s, N)
    BY <1>2, <1>3, <2>1 DEF Tells
  <2> QED
    BY <1>5, <2>2 DEF Noted, LastEntries, s, N
<1> QED
  BY <1>4, <1>5

LEMMA PatchWriteHistory ==
    ASSUME IInv, HistoryInv, NEW x \in Analysts, PatchWrite(x)
    PROVE  HistoryInv'
<1>1. PICK a \in DOMAIN rows :
        /\ a = patch[x].alert /\ patch[x] # NoPatch /\ patch[x] \in Request
        /\ rows[a] \in Row /\ \A v \in Workers : a \notin DOMAIN draft[v]
        /\ UNCHANGED <<refused, draft, pc, hand, raised, tally, counted>>
        /\ patch' = [patch EXCEPT ![x] = NoPatch]
        /\ Len(audit) \in Nat /\ audit'[Len(audit) + 1] = MoveOf(x)
        /\ \A i \in 1..Len(audit) : audit'[i] = audit[i]
        /\ MovesIn(audit', a) = MovesIn(audit, a) \cup {Len(audit) + 1}
        /\ \A b : b # a => MovesIn(audit', b) = MovesIn(audit, b)
        /\ \A b : MovesIn(audit, b) \subseteq 1..Len(audit)
        /\ DOMAIN rows' = DOMAIN rows
        /\ \A b \in DOMAIN rows : b # a => rows'[b] = rows[b]
        /\ rows'[a] = [rows[a] EXCEPT !.status = patch[x].to,
                                      !.history = Noted(patch[x].read.history)]
  BY WriteFacts
<1> DEFINE h == patch[x].read.history
<1>2. Tells(h, Moves(a)) /\ h \in Seq(Nat \ {0}) /\ Len(audit) \in Nat
  BY <1>1 DEF HistoryInv, Request, Row, IInv, TypeOK
<1>3. Tells(Noted(h), Moves(a)')
  BY <1>1, <1>2, NotedTells, MovesInFacts
<1>4. \A b : Moves(b) \subseteq Moves(b)'
  BY <1>1, MovesInFacts
<1>5. \A g, b : Tells(g, Moves(b)) => Tells(g, Moves(b)')
  BY <1>4, TellsMore
<1>6. \A b \in DOMAIN rows' : Tells(rows'[b].history, Moves(b)')
  <2> TAKE b \in DOMAIN rows'
  <2>1. rows'[a].history = Noted(h)
    BY <1>1 DEF Row
  <2>2. CASE b = a
    BY <1>3, <2>1, <2>2
  <2>3. CASE b # a
    <3>1. rows'[b] = rows[b] /\ b \in DOMAIN rows
      BY <1>1, <2>3
    <3> QED
      BY <1>5, <3>1 DEF HistoryInv
  <2> QED
    BY <2>2, <2>3
<1>7. \A y \in Analysts : patch'[y] # NoPatch => patch'[y] = patch[y]
  BY <1>1 DEF IInv, TypeOK
<1> QED
  BY <1>1, <1>5, <1>6, <1>7 DEF HistoryInv

LEMMA HistoryStep ==
    ASSUME IInv, HistoryInv, [Next]_vars
    PROVE  HistoryInv'
<1>0. TypeOK
  BY DEF IInv
<1>1. ASSUME NEW w \in Workers, Lookup(w) PROVE HistoryInv'
  <2>1. /\ UNCHANGED <<rows, audit, draft, patch>>
        /\ \A v \in Workers : v # w => hand'[v] = hand[v] /\ pc'[v] = pc[v]
        /\ \/ hand'[w].found = NoAlert
           \/ hand'[w].found \in DOMAIN View(w) /\ hand'[w].read = View(w)[hand'[w].found]
    BY <1>0, <1>1, LookupFacts DEF Findable
  <2>2. \A b : Moves(b)' = Moves(b)
    BY <2>1, AuditFrame
  <2>3. hand'[w].found # NoAlert => Tells(hand'[w].read.history, Moves(hand'[w].found))
    BY <1>0, <2>1, ViewTells
  <2> QED
    BY <2>1, <2>2, <2>3 DEF HistoryInv
<1>2. ASSUME NEW x \in Analysts, PatchRead(x) \/ PatchRefused(x) PROVE HistoryInv'
  <2>1. UNCHANGED <<rows, audit, draft, pc, hand>>
    BY <1>2 DEF PatchRead, PatchRefused, workerVars
  <2>2. \A b : Moves(b)' = Moves(b)
    BY <2>1, AuditFrame
  <2>3. ASSUME NEW y \in Analysts, patch'[y] # NoPatch
        PROVE  \/ patch'[y] = patch[y]
               \/ patch'[y].alert \in DOMAIN rows /\ patch'[y].read = rows[patch'[y].alert]
    BY <1>0, <1>2, <2>3 DEF PatchRead, PatchRefused, TypeOK
  <2> QED
    BY <2>1, <2>2, <2>3 DEF HistoryInv
<1>3. CASE UNCHANGED vars
  BY <1>3 DEF vars, workerVars, HistoryInv, Moves
<1> QED
  BY <1>1, <1>2, <1>3, InsertFoldHistory, EndHistory, PatchWriteHistory DEF Next

(***************************************************************************)
(* status_history lists audited moves of its own alert, each once and      *)
(* oldest first, whatever stale copies the writers write back              *)
(* (services/alerts.py:70-76, detection/correlation.py:93-95).             *)
(***************************************************************************)
THEOREM HistoryIsAuditedHolds == Spec => []HistoryIsAudited
<1>1. Init => HistoryInv
  BY DEF Init, HistoryInv, EmptyTable
<1>2. IInv /\ HistoryInv /\ [Next]_vars => HistoryInv'
  BY HistoryStep
<1>3. HistoryInv => HistoryIsAudited
  BY DEF HistoryInv, HistoryIsAudited, Tells
<1> QED
  BY <1>1, <1>2, <1>3, Invariance, PTL DEF Spec
-----------------------------------------------------------------------------
(***************************************************************************)
(* One analyst: the row a request has loaded is still as it was loaded, as *)
(* far as the workflow goes, when the request writes.                      *)
(***************************************************************************)
FreshRead ==
    \A x \in Analysts : patch[x] # NoPatch =>
        /\ rows[patch[x].alert].status = patch[x].read.status
        /\ patch[x].to \in AllowedTransitions[patch[x].read.status]

LEMMA ViewStatus ==
    ASSUME IInv, NEW w \in Workers, NEW a \in DOMAIN rows
    PROVE  a \in DOMAIN View(w) /\ View(w)[a].status = rows[a].status
<1>1. TypeOK
  BY DEF IInv
<1>2. CASE a \in DOMAIN draft[w]
  BY <1>1, <1>2, ViewFacts DEF IInv, DraftsKeepStatus
<1>3. CASE a \notin DOMAIN draft[w]
  BY <1>1, <1>3, ViewFacts
<1> QED
  BY <1>2, <1>3

LEMMA FreshReadStep ==
    ASSUME \A x, y \in Analysts : x = y, IInv, FreshRead, [Next]_vars
    PROVE  FreshRead'
<1>0. TypeOK /\ \A x \in Analysts : patch[x] # NoPatch => patch[x].alert \in DOMAIN rows
  BY DEF IInv, InHandExist
<1>1. ASSUME NEW w \in Workers, Lookup(w) \/ Insert(w) \/ Fold(w) PROVE FreshRead'
  <2>1. UNCHANGED <<rows, patch>>
    BY <1>1 DEF Lookup, Insert, Fold, Flush
  <2> QED
    BY <2>1 DEF FreshRead
<1>2. ASSUME NEW w \in Workers, Commit(w) \/ Rollback(w) PROVE FreshRead'
  <2>1. EndTransaction(w) /\ rows' \in {rows, View(w)}
    BY <1>2 DEF Commit, Rollback
  <2>2. \A a \in DOMAIN rows : rows'[a].status = rows[a].status
    BY <2>1, ViewStatus
  <2>3. patch' = patch
    BY <2>1 DEF EndTransaction
  <2> QED
    BY <1>0, <2>2, <2>3 DEF FreshRead
<1>3. ASSUME NEW x \in Analysts, PatchRead(x) PROVE FreshRead'
  <2>1. rows' = rows /\ \A y \in Analysts : y = x
    BY <1>3 DEF PatchRead
  <2>2. PICK a \in DOMAIN rows, s \in Statuses :
          /\ s \in AllowedTransitions[rows[a].status]
          /\ patch' = [patch EXCEPT ![x] = [alert |-> a, to |-> s, read |-> rows[a]]]
    BY <1>3 DEF PatchRead
  <2>3. patch'[x].alert = a /\ patch'[x].to = s /\ patch'[x].read = rows[a]
    BY <1>0, <2>2 DEF TypeOK
  <2> QED
    BY <2>1, <2>2, <2>3 DEF FreshRead
<1>4. ASSUME NEW x \in Analysts, PatchWrite(x) \/ PatchRefused(x) PROVE FreshRead'
  <2>1. patch' = [patch EXCEPT ![x] = NoPatch] /\ \A y \in Analysts : y = x
    BY <1>4 DEF PatchWrite, PatchRefused
  <2> QED
    BY <1>0, <2>1 DEF FreshRead, TypeOK
<1>5. CASE UNCHANGED vars
  BY <1>5 DEF vars, FreshRead
<1> QED
  BY <1>1, <1>2, <1>3, <1>4, <1>5 DEF Next

LEMMA FreshReadHolds ==
    ASSUME \A x, y \in Analysts : x = y
    PROVE  Spec => []FreshRead
<1>1. Init => FreshRead
  BY DEF Init, FreshRead
<1>2. IInv /\ FreshRead /\ [Next]_vars => FreshRead'
  BY FreshReadStep
<1> QED
  BY <1>1, <1>2, Invariance, PTL DEF Spec

\* Only a request changes the status of a committed alert.
LEMMA StatusSteps ==
    ASSUME IInv, [Next]_vars, NEW a \in DOMAIN rows
    PROVE  \/ rows'[a].status = rows[a].status
           \/ \E x \in Analysts : /\ patch[x] # NoPatch /\ patch[x].alert = a
                                  /\ rows'[a].status = patch[x].to
<1>0. TypeOK
  BY DEF IInv
<1>1. ASSUME NEW w \in Workers, Commit(w) \/ Rollback(w) PROVE rows'[a].status = rows[a].status
  <2>1. rows' \in {rows, View(w)}
    BY <1>1 DEF Commit, Rollback
  <2> QED
    BY <2>1, ViewStatus
<1>2. ASSUME NEW x \in Analysts, PatchWrite(x)
      PROVE  \/ rows'[a].status = rows[a].status
             \/ patch[x] # NoPatch /\ patch[x].alert = a /\ rows'[a].status = patch[x].to
  <2>1. PICK c \in DOMAIN rows :
          /\ c = patch[x].alert /\ patch[x] # NoPatch /\ rows[c] \in Row
          /\ \A b \in DOMAIN rows : b # c => rows'[b] = rows[b]
          /\ rows'[c] = [rows[c] EXCEPT !.status = patch[x].to,
                                        !.history = Noted(patch[x].read.history)]
    BY <1>2, WriteFacts
  <2>2. rows'[c].status = patch[x].to
    BY <2>1 DEF Row
  <2> QED
    BY <2>1, <2>2
<1>3. CASE \/ \E w \in Workers : Lookup(w) \/ Insert(w) \/ Fold(w)
           \/ \E x \in Analysts : PatchRead(x) \/ PatchRefused(x)
           \/ UNCHANGED vars
  BY <1>3 DEF Lookup, Insert, Fold, Flush, PatchRead, PatchRefused, vars
<1> QED
  BY <1>1, <1>2, <1>3 DEF Next

(***************************************************************************)
(* With one analyst, no step moves an alert between statuses the workflow  *)
(* does not connect (services/alerts.py:62-68): the worker's commits keep  *)
(* the status the request was checked against.                             *)
(***************************************************************************)
THEOREM OnlyAllowedTransitionsHolds ==
    ASSUME \A x, y \in Analysts : x = y
    PROVE  Spec => OnlyAllowedTransitions
<1>1. IInv /\ FreshRead /\ [Next]_vars
        => [\A a \in DOMAIN rows :
              \/ rows'[a].status = rows[a].status
              \/ rows'[a].status \in AllowedTransitions[rows[a].status]]_rows
  BY StatusSteps DEF FreshRead
<1> QED
  BY <1>1, Invariance, FreshReadHolds, PTL DEF Spec, OnlyAllowedTransitions

(***************************************************************************)
(* One worker and one analyst: what the worker sees has no two active      *)
(* alerts of a key unless one was reopened, and no active alert of the key *)
(* it found none of but reopened ones.                                     *)
(***************************************************************************)
ReopenedIn(log, a) ==
    \E i \in 1..Len(log) : log[i].alert = a /\ log[i].from \notin Active /\ log[i].to = "open"

TwoMeanReopened(t, log) ==
    \A k \in Keys : \A a, b \in Findable(t, k) :
        a # b => ReopenedIn(log, a) \/ ReopenedIn(log, b)

ReopenInv ==
    /\ TwoMeanReopened(rows, audit)
    /\ \A w \in Workers :
        /\ \A a \in DOMAIN draft[w] : a \in DOMAIN rows => draft[w][a].key = rows[a].key
        /\ TwoMeanReopened(View(w), audit)
        /\ pc[w] = "apply" /\ hand[w].found = NoAlert =>
             \A b \in Findable(View(w), hand[w].key) : ReopenedIn(audit, b)

LEMMA TwoMeanStep ==
    ASSUME NEW t, NEW u, NEW L, NEW M, TwoMeanReopened(t, L),
           \A a : ReopenedIn(L, a) => ReopenedIn(M, a),
           \A k \in Keys : \A b \in Findable(u, k) : b \in Findable(t, k) \/ ReopenedIn(M, b)
    PROVE  TwoMeanReopened(u, M)
  BY DEF TwoMeanReopened

\* A reopened alert stays one.
LEMMA ReopenedStays ==
    ASSUME NEW log \in Seq(Move), NEW m \in Move, NEW a, ReopenedIn(log, a)
    PROVE  ReopenedIn(Append(log, m), a)
<1>1. PICK i \in 1..Len(log) : log[i].alert = a /\ log[i].from \notin Active /\ log[i].to = "open"
  BY DEF ReopenedIn
<1>2. i \in 1..Len(Append(log, m)) /\ Append(log, m)[i] = log[i]
  OBVIOUS
<1> QED
  BY <1>1, <1>2 DEF ReopenedIn

\* What the only worker sees does not change, nor what it has in hand.
LEMMA ReopenSame ==
    ASSUME ReopenInv, UNCHANGED <<rows, audit, draft, pc, hand>>
    PROVE  ReopenInv'
<1>1. \A w \in Workers : View(w)' = View(w)
  BY DEF View
<1> QED
  BY <1>1 DEF ReopenInv

LEMMA LookupReopen ==
    ASSUME IInv, ReopenInv, NEW w \in Workers, Lookup(w)
    PROVE  ReopenInv'
<1>1. /\ UNCHANGED <<rows, audit, draft>>
      /\ \A v \in Workers : v # w => hand'[v] = hand[v] /\ pc'[v] = pc[v]
      /\ \/ Findable(View(w), hand'[w].key) = {}
         \/ hand'[w].found \in DOMAIN View(w)
  BY LookupFacts DEF IInv, Findable
<1>2. \A v \in Workers : View(v)' = View(v)
  BY <1>1 DEF View
<1>3. NoAlert \notin DOMAIN View(w)
  BY ViewFacts, AlertAssumption DEF IInv, IsTable
<1> QED
  BY <1>1, <1>2, <1>3 DEF ReopenInv

\* A flush of a row shows in the view of its worker.
LEMMA FlushView ==
    ASSUME IInv, NEW w \in Workers, NEW a, NEW row, Flush(w, a, row)
    PROVE  /\ DOMAIN View(w)' = DOMAIN View(w) \cup {a} /\ View(w)'[a] = row
           /\ \A b \in DOMAIN View(w) : b # a => View(w)'[b] = View(w)[b]
<1>1. /\ UNCHANGED <<rows, audit, patch>>
      /\ DOMAIN draft'[w] = DOMAIN draft[w] \cup {a} /\ draft'[w][a] = row
      /\ \A b \in DOMAIN draft[w] : b # a => draft'[w][b] = draft[w][b]
  BY FlushFacts DEF IInv
<1> QED
  BY <1>1 DEF View

LEMMA InsertReopen ==
    ASSUME \A v, u \in Workers : v = u, IInv, ReopenInv, NEW w \in Workers, Insert(w)
    PROVE  ReopenInv'
<1> DEFINE k == hand[w].key
<1>1. pc[w] = "apply" /\ hand[w].found = NoAlert
  BY DEF Insert
<1>0. PICK a \in Alerts \ Used :
        Flush(w, a, [key |-> k, status |-> "open", count |-> hand[w].hint, history |-> <<>>])
  BY DEF Insert
<1>2. PICK row : Flush(w, a, row) /\ row = [key |-> k, status |-> "open", count |-> hand[w].hint,
                                            history |-> <<>>]
  BY <1>0
<1>3. a \notin DOMAIN View(w) /\ a \notin DOMAIN rows
  BY DEF Used, View
<1>4. /\ DOMAIN View(w)' = DOMAIN View(w) \cup {a} /\ View(w)'[a] = row
      /\ \A b \in DOMAIN View(w) : b # a => View(w)'[b] = View(w)[b]
  <2>1. Flush(w, a, row)
    BY <1>2
  <2> QED
    BY <2>1, FlushView
<1>5. /\ UNCHANGED <<rows, audit>> /\ pc'[w] = "next"
      /\ DOMAIN draft'[w] = DOMAIN draft[w] \cup {a}
      /\ \A b \in DOMAIN draft[w] : b # a => draft'[w][b] = draft[w][b]
  BY <1>2, FlushFacts DEF IInv
<1>6. TwoMeanReopened(View(w)', audit)
  <2> SUFFICES ASSUME NEW l \in Keys, NEW b \in Findable(View(w)', l),
                      NEW c \in Findable(View(w)', l), b # c
               PROVE  ReopenedIn(audit, b) \/ ReopenedIn(audit, c)
    BY DEF TwoMeanReopened
  <2>1. \A d \in Findable(View(w)', l) :
          \/ d = a /\ l = k
          \/ d # a /\ d \in Findable(View(w), l)
    BY <1>2, <1>4 DEF Findable
  <2>2. CASE b # a /\ c # a
    BY <2>1, <2>2 DEF ReopenInv, TwoMeanReopened
  <2>3. CASE b = a \/ c = a
    BY <1>1, <2>1, <2>3 DEF ReopenInv
  <2> QED
    BY <2>2, <2>3
<1>7. \A d \in DOMAIN draft'[w] : d \in DOMAIN rows => draft'[w][d].key = rows[d].key
  BY <1>3, <1>5 DEF ReopenInv
<1> QED
  BY <1>5, <1>6, <1>7 DEF ReopenInv

LEMMA FoldReopen ==
    ASSUME \A v, u \in Workers : v = u, IInv, ReopenInv, NEW w \in Workers, Fold(w)
    PROVE  ReopenInv'
<1> DEFINE a == hand[w].found
           current == View(w)[a]
<1>1. TypeOK /\ pc[w] = "apply" /\ a # NoAlert
  BY DEF IInv, Fold
<1>2. PICK row \in Folded(hand[w].read, current, hand[w].hint) : Flush(w, a, row)
  BY DEF Fold
<1>3. a \in DOMAIN View(w) /\ current \in Row
  BY <1>1, ViewFacts DEF IInv, InHandExist, IsTable
<1>4. row.key = current.key /\ row.status = current.status
  BY <1>2, <1>3 DEF Folded, Row
<1>5. a \in DOMAIN rows => current.key = rows[a].key
  <2>1. CASE a \in DOMAIN draft[w]
    <3>1. current = draft[w][a]
      BY <1>1, <2>1, ViewFacts
    <3> QED
      BY <2>1, <3>1 DEF ReopenInv
  <2>2. CASE a \notin DOMAIN draft[w]
    BY <1>1, <2>2, ViewFacts
  <2> QED
    BY <2>1, <2>2
<1>6. /\ DOMAIN View(w)' = DOMAIN View(w) \cup {a} /\ View(w)'[a] = row
      /\ \A b \in DOMAIN View(w) : b # a => View(w)'[b] = View(w)[b]
  BY <1>2, FlushView
<1>7. /\ UNCHANGED <<rows, audit>> /\ pc'[w] = "next"
      /\ DOMAIN draft'[w] = DOMAIN draft[w] \cup {a} /\ draft'[w][a] = row
      /\ \A b \in DOMAIN draft[w] : b # a => draft'[w][b] = draft[w][b]
  BY <1>1, <1>2, FlushFacts
<1>8. TwoMeanReopened(View(w)', audit)
  <2>1. \A l \in Keys : \A b \in Findable(View(w)', l) : b \in Findable(View(w), l)
    BY <1>3, <1>4, <1>6 DEF Findable
  <2>2. TwoMeanReopened(View(w), audit)
    BY DEF ReopenInv
  <2> HIDE DEF a
  <2> QED
    BY <2>1, <2>2, TwoMeanStep
<1>9. \A d \in DOMAIN draft'[w] : d \in DOMAIN rows => draft'[w][d].key = rows[d].key
  BY <1>4, <1>5, <1>7 DEF ReopenInv
<1> QED
  BY <1>7, <1>8, <1>9 DEF ReopenInv

LEMMA EndReopen ==
    ASSUME \A v, u \in Workers : v = u, IInv, ReopenInv, NEW w \in Workers,
           Commit(w) \/ Rollback(w)
    PROVE  ReopenInv'
<1>1. TypeOK /\ EndTransaction(w) /\ rows' \in {rows, View(w)}
  BY DEF IInv, Commit, Rollback
<1>2. audit' = audit /\ DOMAIN draft'[w] = {} /\ pc'[w] # "apply"
  BY <1>1, EndFacts
<1>3. TwoMeanReopened(rows', audit)
  BY <1>1 DEF ReopenInv
<1>4. TwoMeanReopened(View(w)', audit)
  <2>1. DOMAIN View(w)' = DOMAIN rows' /\ \A a \in DOMAIN rows' : View(w)'[a] = rows'[a]
    BY <1>2 DEF View
  <2>2. \A l \in Keys : \A b \in Findable(View(w)', l) : b \in Findable(rows', l)
    BY <2>1 DEF Findable
  <2> QED
    BY <1>3, <2>2, TwoMeanStep
<1> QED
  BY <1>2, <1>3, <1>4 DEF ReopenInv

\* The move makes an alert active that was not only if it reopens it.
LEMMA PatchWriteReopen ==
    ASSUME IInv, FreshRead, ReopenInv, NEW x \in Analysts, PatchWrite(x)
    PROVE  ReopenInv'
<1>1. PICK a \in DOMAIN rows :
        /\ a = patch[x].alert /\ patch[x] # NoPatch /\ patch[x] \in Request
        /\ rows[a] \in Row /\ \A v \in Workers : a \notin DOMAIN draft[v]
        /\ UNCHANGED <<draft, pc, hand>>
        /\ Len(audit) \in Nat /\ audit'[Len(audit) + 1] = MoveOf(x)
        /\ DOMAIN rows' = DOMAIN rows
        /\ \A b \in DOMAIN rows : b # a => rows'[b] = rows[b]
        /\ rows'[a] = [rows[a] EXCEPT !.status = patch[x].to,
                                      !.history = Noted(patch[x].read.history)]
  BY WriteFacts
<1>2. audit' = Append(audit, MoveOf(x)) /\ audit \in Seq(Move) /\ MoveOf(x) \in Move
  BY <1>1 DEF PatchWrite, IInv, TypeOK, MoveOf, Move, Request, Row
<1>3. \A b : ReopenedIn(audit, b) => ReopenedIn(audit', b)
  BY <1>2, ReopenedStays
<1>4. rows'[a].key = rows[a].key /\ rows'[a].status = patch[x].to
  BY <1>1 DEF Row
<1>5. patch[x].to \in Active => rows[a].status \in Active \/ ReopenedIn(audit', a)
  <2> SUFFICES ASSUME rows[a].status \notin Active, patch[x].to \in Active
               PROVE  ReopenedIn(audit', a)
    OBVIOUS
  <2>1. rows[a].status = patch[x].read.status /\ patch[x].to \in AllowedTransitions[rows[a].status]
    BY <1>1 DEF FreshRead
  <2>2. rows[a].status \in {"resolved", "false_positive"}
    BY <1>1 DEF Row, Statuses
  <2>3. patch[x].to = "open"
    BY <2>1, <2>2 DEF AllowedTransitions
  <2>4. /\ MoveOf(x).alert = a /\ MoveOf(x).from \notin Active /\ MoveOf(x).to = "open"
    BY <1>1, <2>1, <2>3 DEF MoveOf
  <2>5. Len(audit) + 1 \in 1..Len(audit')
    BY <1>2
  <2> QED
    BY <1>1, <2>4, <2>5 DEF ReopenedIn
<1>6. \A k \in Keys : \A b \in Findable(rows', k) : b \in Findable(rows, k) \/ ReopenedIn(audit', b)
  BY <1>1, <1>4, <1>5 DEF Findable
<1>7. TwoMeanReopened(rows', audit')
  BY <1>3, <1>6, TwoMeanStep DEF ReopenInv
<1>8. ASSUME NEW w \in Workers
      PROVE  /\ \A b \in DOMAIN draft[w] : b \in DOMAIN rows => draft[w][b].key = rows'[b].key
             /\ \A k : \A b \in Findable(View(w)', k) :
                  b \in Findable(View(w), k) \/ ReopenedIn(audit', b)
  <2>1. \A b \in DOMAIN draft[w] : b \in DOMAIN rows => draft[w][b].key = rows'[b].key
    BY <1>1 DEF ReopenInv
  <2>2. /\ DOMAIN View(w)' = DOMAIN View(w) /\ a \in DOMAIN View(w)
        /\ \A b \in DOMAIN View(w) : b # a => View(w)'[b] = View(w)[b]
        /\ View(w)[a] = rows[a] /\ View(w)'[a] = rows'[a]
    BY <1>1 DEF View
  <2>3. \A k : \A b \in Findable(View(w)', k) :
          b \in Findable(View(w), k) \/ ReopenedIn(audit', b)
    BY <1>4, <1>5, <2>2 DEF Findable
  <2> QED
    BY <2>1, <2>3
<1>9. \A w \in Workers : TwoMeanReopened(View(w)', audit')
  BY <1>3, <1>8, TwoMeanStep DEF ReopenInv
<1>10. ASSUME NEW w \in Workers, pc'[w] = "apply", hand'[w].found = NoAlert,
              NEW b \in Findable(View(w)', hand'[w].key)
       PROVE  ReopenedIn(audit', b)
  BY <1>1, <1>3, <1>8, <1>10 DEF ReopenInv
<1> QED
  BY <1>1, <1>7, <1>8, <1>9, <1>10 DEF ReopenInv

LEMMA ReopenStep ==
    ASSUME \A v, u \in Workers : v = u, IInv, FreshRead, ReopenInv, [Next]_vars
    PROVE  ReopenInv'
<1>1. CASE \/ \E x \in Analysts : PatchRead(x) \/ PatchRefused(x)
           \/ UNCHANGED vars
  BY <1>1, ReopenSame DEF PatchRead, PatchRefused, workerVars, vars
<1> QED
  BY <1>1, LookupReopen, InsertReopen, FoldReopen, EndReopen, PatchWriteReopen DEF Next

(***************************************************************************)
(* With one worker and one analyst, two alerts of a key are active only if *)
(* an analyst reopened one of them (detection/correlation.py:32-61,        *)
(* storage/repositories.py:231-239).                                       *)
(***************************************************************************)
THEOREM TwoActiveMeansReopenedHolds ==
    ASSUME \A v, u \in Workers : v = u, \A x, y \in Analysts : x = y
    PROVE  Spec => []TwoActiveMeansReopened
<1>1. Init => ReopenInv
  BY DEF Init, ReopenInv, TwoMeanReopened, Findable, EmptyTable, View
<1>2. IInv /\ FreshRead /\ ReopenInv /\ [Next]_vars => ReopenInv'
  BY ReopenStep
<1>3. IInv /\ ReopenInv => TwoActiveMeansReopened
  <2> SUFFICES ASSUME IInv, ReopenInv, NEW a \in DOMAIN rows, NEW b \in DOMAIN rows,
                      a # b, rows[a].key = rows[b].key,
                      {rows[a].status, rows[b].status} \subseteq Active
               PROVE  Reopened(a) \/ Reopened(b)
    BY DEF TwoActiveMeansReopened
  <2>1. rows[a].key \in Keys /\ {a, b} \subseteq Findable(rows, rows[a].key)
    BY DEF IInv, TypeOK, IsTable, Row, Findable
  <2>2. ReopenedIn(audit, a) \/ ReopenedIn(audit, b)
    BY <2>1 DEF ReopenInv, TwoMeanReopened
  <2> QED
    BY <2>2 DEF ReopenedIn, Reopened, Moves
<1> QED
  BY <1>1, <1>2, <1>3, Invariance, FreshReadHolds, PTL DEF Spec
-----------------------------------------------------------------------------
(***************************************************************************)
(* One worker: the counts.  What the worker sees is never behind the       *)
(* table, what it has in hand never behind what it sees, and a request's   *)
(* copy never ahead of the table.                                          *)
(***************************************************************************)
Grows(t, u) == \A a \in DOMAIN t : a \in DOMAIN u /\ t[a].count <= u[a].count

CountsInv ==
    /\ \A x \in Analysts : patch[x] # NoPatch =>
         patch[x].read.count <= rows[patch[x].alert].count
    /\ \A w \in Workers :
        /\ pc[w] = "apply" /\ hand[w].found # NoAlert =>
             View(w)[hand[w].found].count <= hand[w].read.count
        /\ Grows(rows, View(w))

LEMMA GrowsFacts ==
    ASSUME NEW t, NEW u, NEW v, IsTable(t), IsTable(u), IsTable(v)
    PROVE  Grows(t, t) /\ (Grows(t, u) /\ Grows(u, v) => Grows(t, v))
<1>1. \A z : IsTable(z) => \A a \in DOMAIN z : z[a].count \in Nat
  BY DEF IsTable, Row
<1>2. /\ \A a \in DOMAIN t : t[a].count \in Nat
      /\ \A a \in DOMAIN u : u[a].count \in Nat
      /\ \A a \in DOMAIN v : v[a].count \in Nat
  BY <1>1
<1> QED
  BY <1>2 DEF Grows

LEMMA ViewTyped == TypeOK => \A w \in Workers : IsTable(View(w))
  BY ViewFacts

\* What a step makes of the view is a table as well.
LEMMA NextViewTyped == ASSUME TypeOK' PROVE \A w \in Workers : IsTable(View(w)')
<1> TAKE w \in Workers
<1>1. /\ DOMAIN View(w)' = DOMAIN draft'[w] \cup DOMAIN rows'
      /\ \A a \in DOMAIN draft'[w] \cup DOMAIN rows' :
           View(w)'[a] = IF a \in DOMAIN draft'[w] THEN draft'[w][a] ELSE rows'[a]
  BY DEF View
<1>2. IsTable(rows') /\ IsTable(draft'[w])
  BY DEF TypeOK, IsTable
<1>3. \A t : IsTable(t) <=> DOMAIN t \subseteq Alerts /\ \A a \in DOMAIN t : t[a] \in Row
  BY DEF IsTable
<1> QED
  BY <1>1, <1>2, <1>3

\* Nobody writes a row.
LEMMA CountsStay ==
    ASSUME IInv, CountsInv, UNCHANGED <<rows, draft>>,
           \A x \in Analysts : patch'[x] # NoPatch =>
             patch'[x].read.count <= rows[patch'[x].alert].count,
           \A w \in Workers : pc'[w] = "apply" /\ hand'[w].found # NoAlert =>
             View(w)[hand'[w].found].count <= hand'[w].read.count
    PROVE  CountsInv' /\ Grows(rows, rows')
<1>1. \A w \in Workers : View(w)' = View(w)
  BY DEF View
<1>2. IsTable(rows)
  BY DEF IInv, TypeOK
<1> QED
  BY <1>1, <1>2, GrowsFacts DEF CountsInv

LEMMA LookupCounts ==
    ASSUME IInv, CountsInv, NEW w \in Workers, Lookup(w)
    PROVE  CountsInv' /\ Grows(rows, rows')
<1>1. /\ UNCHANGED <<rows, audit, draft, patch, refused, tally, counted>>
      /\ \A v \in Workers : v # w => hand'[v] = hand[v] /\ pc'[v] = pc[v]
      /\ \/ hand'[w].found = NoAlert
         \/ /\ hand'[w].found \in DOMAIN View(w)
            /\ hand'[w].read = View(w)[hand'[w].found]
  BY LookupFacts DEF IInv, Findable
<1>2. \A a \in DOMAIN View(w) : View(w)[a].count \in Nat
  BY ViewFacts DEF IInv, IsTable, Row
<1>3. \A v \in Workers : pc'[v] = "apply" /\ hand'[v].found # NoAlert =>
        View(v)[hand'[v].found].count <= hand'[v].read.count
  <2> TAKE v \in Workers
  <2> HAVE pc'[v] = "apply" /\ hand'[v].found # NoAlert
  <2>1. CASE v = w
    <3>1. View(w)[hand'[w].found].count = hand'[w].read.count /\ hand'[w].read.count \in Nat
      BY <1>1, <1>2, <2>1
    <3> QED
      BY <2>1, <3>1
  <2>2. CASE v # w
    BY <1>1, <2>2 DEF CountsInv
  <2> QED
    BY <2>1, <2>2
<1> QED
  BY <1>1, <1>3, CountsStay DEF CountsInv

\* A flush of the only worker, of a row that is not behind what it saw.
LEMMA FlushCounts ==
    ASSUME \A v, u \in Workers : v = u, IInv, IInv', CountsInv,
           NEW w \in Workers, NEW a, NEW row, Flush(w, a, row),
           a \in DOMAIN View(w) => View(w)[a].count <= row.count
    PROVE  CountsInv' /\ Grows(rows, rows') /\ Grows(View(w), View(w)')
<1>1. /\ UNCHANGED <<rows, patch>> /\ pc'[w] = "next"
  BY FlushFacts DEF IInv
<1>2. /\ DOMAIN View(w)' = DOMAIN View(w) \cup {a} /\ View(w)'[a] = row
      /\ \A b \in DOMAIN View(w) : b # a => View(w)'[b] = View(w)[b]
  BY ONLY IInv, w \in Workers, Flush(w, a, row), FlushView
<1>3. IsTable(rows) /\ IsTable(View(w)) /\ IsTable(View(w)')
  BY ViewTyped, NextViewTyped DEF IInv, TypeOK
<1>4. \A b \in DOMAIN View(w) : View(w)[b].count \in Nat
  BY <1>3 DEF IsTable, Row
<1>5. Grows(View(w), View(w)')
  BY <1>2, <1>4 DEF Grows
<1>6. Grows(rows, View(w)') /\ Grows(rows, rows)
  BY <1>3, <1>5, GrowsFacts DEF CountsInv
<1>7. \A v \in Workers : v = w
  OBVIOUS
<1> QED
  BY <1>1, <1>5, <1>6, <1>7 DEF CountsInv

LEMMA FlushesCounts ==
    ASSUME \A v, u \in Workers : v = u, IInv, CountsInv, NEW w \in Workers, Insert(w) \/ Fold(w)
    PROVE  CountsInv' /\ Grows(rows, rows') /\ Grows(View(w), View(w)')
<1>1. IInv'
  BY InsertIInv, FoldIInv
<1>2. CASE Insert(w)
  <2>0. PICK a \in Alerts \ Used : \E new : Flush(w, a, new)
    BY <1>2 DEF Insert
  <2>1. PICK row : Flush(w, a, row)
    BY <2>0
  <2>2. a \notin DOMAIN View(w)
    BY <2>1 DEF Used, View
  <2> QED
    BY <1>1, <2>1, <2>2, FlushCounts
<1>3. CASE Fold(w)
  <2> DEFINE a == hand[w].found
             current == View(w)[a]
             h == hand[w].hint
  <2>1. pc[w] = "apply" /\ a # NoAlert
    BY <1>3 DEF Fold
  <2>2. PICK row \in Folded(hand[w].read, current, h) : Flush(w, a, row)
    BY <1>3 DEF Fold
  <2>3. a \in DOMAIN View(w) /\ current \in Row
    BY <2>1, ViewTyped DEF IInv, InHandExist, IsTable
  <2>4. hand[w].read \in Row /\ h \in Nat
    BY <2>1, AlertAssumption DEF IInv, TypeOK, Hand
  <2>5. row.count = IF hand[w].read.count + 1 < h THEN h ELSE hand[w].read.count + 1
    BY <2>2, <2>3 DEF Folded, Row
  <2>6. current.count <= hand[w].read.count
    BY <2>1 DEF CountsInv
  <2>7. current.count \in Nat /\ hand[w].read.count \in Nat
    BY <2>3, <2>4 DEF Row
  <2>8. current.count <= row.count
    <3> HIDE DEF current, h
    <3> QED
      BY <2>4, <2>5, <2>6, <2>7
  <2> QED
    BY <1>1, <2>2, <2>8, FlushCounts
<1> QED
  BY <1>2, <1>3

LEMMA EndCounts ==
    ASSUME \A v, u \in Workers : v = u, IInv, CountsInv, NEW w \in Workers, Commit(w) \/ Rollback(w)
    PROVE  CountsInv' /\ Grows(rows, rows')
<1>1. EndTransaction(w) /\ rows' \in {rows, View(w)} /\ TypeOK
  BY DEF Commit, Rollback, IInv
<1>2. IsTable(rows) /\ IsTable(View(w)) /\ IsTable(rows')
  BY <1>1, ViewTyped DEF TypeOK
<1>3. Grows(rows, rows') /\ Grows(rows', rows')
  BY <1>1, <1>2, GrowsFacts DEF CountsInv
<1>4. draft'[w] = EmptyTable /\ pc'[w] = "next" /\ patch' = patch
  BY <1>1 DEF EndTransaction, TypeOK
<1>5. \A b \in DOMAIN rows' : b \in DOMAIN View(w)' /\ View(w)'[b] = rows'[b]
  BY <1>4 DEF View, EmptyTable
<1>6. Grows(rows', View(w)')
  BY <1>3, <1>5 DEF Grows
<1>7. \A x \in Analysts : patch[x] # NoPatch =>
        /\ patch[x].alert \in DOMAIN rows /\ patch[x].read.count \in Nat
        /\ rows[patch[x].alert].count \in Nat /\ rows'[patch[x].alert].count \in Nat
  <2> TAKE x \in Analysts
  <2> HAVE patch[x] # NoPatch
  <2>1. patch[x].alert \in DOMAIN rows /\ patch[x] \in Request
    BY DEF IInv, InHandExist, TypeOK
  <2>2. patch[x].alert \in DOMAIN rows'
    BY <1>3, <2>1 DEF Grows
  <2> QED
    BY <1>2, <2>1, <2>2 DEF IsTable, Request, Row
<1>8. \A x \in Analysts : patch'[x] # NoPatch => patch'[x].read.count <= rows'[patch'[x].alert].count
  BY <1>3, <1>4, <1>7 DEF CountsInv, Grows
<1>9. \A v \in Workers : v = w
  OBVIOUS
<1> QED
  BY <1>3, <1>4, <1>6, <1>8, <1>9 DEF CountsInv

LEMMA RequestCounts ==
    ASSUME IInv, CountsInv, NEW x \in Analysts, PatchRead(x) \/ PatchRefused(x)
    PROVE  CountsInv' /\ Grows(rows, rows')
<1>1. UNCHANGED <<rows, draft, pc, hand>> /\ TypeOK
  BY DEF PatchRead, PatchRefused, workerVars, IInv
<1>2. \A y \in Analysts : y # x => patch'[y] = patch[y]
  <2>1. \E r : patch' = [patch EXCEPT ![x] = r]
    BY DEF PatchRead, PatchRefused
  <2> QED
    BY <1>1, <2>1 DEF TypeOK
<1>3. patch'[x] # NoPatch => patch'[x].read.count <= rows[patch'[x].alert].count
  <2>1. CASE PatchRead(x)
    <3>1. PICK a \in DOMAIN rows, s \in Statuses :
            patch' = [patch EXCEPT ![x] = [alert |-> a, to |-> s, read |-> rows[a]]]
      BY <2>1 DEF PatchRead
    <3>2. patch'[x].alert = a /\ patch'[x].read = rows[a]
      BY <1>1, <3>1 DEF TypeOK
    <3>3. rows[a].count \in Nat
      BY <1>1 DEF TypeOK, IsTable, Row
    <3> QED
      BY <3>2, <3>3
  <2>2. CASE PatchRefused(x)
    BY <1>1, <2>2 DEF PatchRefused, TypeOK
  <2> QED
    BY <2>1, <2>2
<1>4. \A y \in Analysts : patch'[y] # NoPatch => patch'[y].read.count <= rows[patch'[y].alert].count
  BY <1>2, <1>3 DEF CountsInv
<1>5. \A w \in Workers : pc'[w] = "apply" /\ hand'[w].found # NoAlert =>
        View(w)[hand'[w].found].count <= hand'[w].read.count
  BY <1>1 DEF CountsInv
<1> QED
  BY <1>1, <1>4, <1>5, CountsStay

LEMMA WriteCounts ==
    ASSUME IInv, CountsInv, NEW x \in Analysts, PatchWrite(x)
    PROVE  CountsInv' /\ Grows(rows, rows') /\ \A w \in Workers : Grows(View(w), View(w)')
<1>1. PICK a \in DOMAIN rows :
        /\ rows[a] \in Row /\ \A v \in Workers : a \notin DOMAIN draft[v]
        /\ UNCHANGED <<draft, pc, hand>> /\ patch' = [patch EXCEPT ![x] = NoPatch]
        /\ DOMAIN rows' = DOMAIN rows
        /\ \A b \in DOMAIN rows : b # a => rows'[b] = rows[b]
        /\ rows'[a] = [rows[a] EXCEPT !.status = patch[x].to,
                                      !.history = Noted(patch[x].read.history)]
  BY WriteFacts
<1>2. \A b \in DOMAIN rows : rows'[b].count = rows[b].count
  BY <1>1 DEF Row
<1>3. TypeOK /\ IsTable(rows) /\ \A b \in DOMAIN rows : rows[b].count \in Nat
  BY DEF IInv, TypeOK, IsTable, Row
<1>4. Grows(rows, rows')
  BY <1>1, <1>2, <1>3 DEF Grows
<1>5. \A w \in Workers :
        /\ DOMAIN View(w)' = DOMAIN View(w)
        /\ \A b \in DOMAIN View(w) : View(w)'[b].count = View(w)[b].count
  BY <1>1, <1>2 DEF View
<1>6. \A w \in Workers : \A b \in DOMAIN View(w) : View(w)[b].count \in Nat
  BY <1>3, ViewTyped DEF IsTable, Row
<1>7. \A w \in Workers : Grows(View(w), View(w)')
  BY <1>5, <1>6 DEF Grows
<1>8. \A w \in Workers : Grows(rows', View(w)')
  BY <1>1, <1>2, <1>5 DEF CountsInv, Grows
<1>9. \A y \in Analysts : patch'[y] # NoPatch =>
        patch'[y] = patch[y] /\ patch[y] # NoPatch /\ patch[y].alert \in DOMAIN rows
  BY <1>1, <1>3 DEF TypeOK, IInv, InHandExist
<1>10. \A y \in Analysts : patch'[y] # NoPatch => patch'[y].read.count <= rows'[patch'[y].alert].count
  BY <1>2, <1>9 DEF CountsInv
<1>11. \A w \in Workers : pc[w] = "apply" /\ hand[w].found # NoAlert =>
         View(w)'[hand[w].found].count <= hand[w].read.count
  BY <1>5 DEF CountsInv, IInv, InHandExist
<1> QED
  BY <1>1, <1>4, <1>7, <1>8, <1>10, <1>11 DEF CountsInv

LEMMA CountsStep ==
    ASSUME \A v, w \in Workers : v = w, IInv, CountsInv, [Next]_vars
    PROVE  CountsInv' /\ Grows(rows, rows')
<1>1. CASE UNCHANGED vars
  <2>1. UNCHANGED <<rows, draft, patch, pc, hand>>
    BY <1>1 DEF vars, workerVars
  <2> QED
    BY <2>1, CountsStay DEF CountsInv
<1> QED
  BY <1>1, LookupCounts, FlushesCounts, EndCounts, RequestCounts, WriteCounts DEF Next

LEMMA CountsInvHolds ==
    ASSUME \A v, w \in Workers : v = w
    PROVE  Spec => []CountsInv
<1>1. Init => CountsInv
  BY DEF Init, CountsInv, Grows, View, EmptyTable
<1>2. IInv /\ CountsInv /\ [Next]_vars => CountsInv'
  BY CountsStep
<1> QED
  BY <1>1, <1>2, Invariance, PTL DEF Spec
(***************************************************************************)
(* The numbered detections of a key in a table, the committed one or what  *)
(* the worker sees, are never fewer than those that were raised for it.    *)
(***************************************************************************)
OfKey(t, k) == {a \in DOMAIN t : t[a].key = k}
Slots(t, k) == UNION {{a} \X (1..t[a].count) : a \in OfKey(t, k)}

\* A later table has the alerts of an earlier one, with their keys.
KeepsKeys(t, u) == \A a \in DOMAIN t : u[a].key = t[a].key

CountedInv ==
    /\ IsFiniteSet(DOMAIN rows)
    /\ \A k \in Keys : Cardinality(Slots(rows, k)) >= counted[k]
    /\ \A w \in Workers :
        /\ IsFiniteSet(DOMAIN draft[w])
        /\ KeepsKeys(rows, View(w))
        /\ pc[w] = "apply" /\ hand[w].found # NoAlert =>
             View(w)[hand[w].found].key = hand[w].key
        /\ \A k \in Keys : Cardinality(Slots(View(w), k)) >= counted[k] + tally[w][k]

LEMMA SlotsFinite ==
    ASSUME NEW t, IsTable(t), IsFiniteSet(DOMAIN t), NEW k
    PROVE  IsFiniteSet(Slots(t, k)) /\ Cardinality(Slots(t, k)) \in Nat
<1> DEFINE S == OfKey(t, k)
           T == {{a} \X (1..t[a].count) : a \in S}
           f == [a \in S |-> {a} \X (1..t[a].count)]
<1>1. IsFiniteSet(S)
  <2>1. S \subseteq DOMAIN t
    BY DEF OfKey
  <2> QED
    BY <2>1, FS_Subset
<1>2. f \in Surjection(S, T)
  BY DEF Surjection
<1>3. IsFiniteSet(T)
  <2> HIDE DEF S, T, f
  <2> QED
    BY <1>1, <1>2, FS_Surjection
<1>4. ASSUME NEW a \in S PROVE IsFiniteSet({a} \X (1..t[a].count))
  <2>1. t[a].count \in Int
    BY DEF OfKey, IsTable, Row
  <2>2. ASSUME NEW n \in Int PROVE IsFiniteSet(1..n)
    BY FS_Interval
  <2>3. IsFiniteSet({a})
    BY FS_Singleton
  <2> QED
    BY <2>1, <2>2, <2>3, FS_Product
<1>5. IsFiniteSet(Slots(t, k))
  <2>1. Slots(t, k) = UNION T
    BY DEF Slots
  <2>2. \A c \in T : IsFiniteSet(c)
    BY <1>4
  <2> HIDE DEF T
  <2> QED
    BY <1>3, <2>1, <2>2, FS_UNION
<1> QED
  BY <1>5, FS_CardinalityType

LEMMA SlotsMeaning ==
    ASSUME NEW t, NEW k, NEW p
    PROVE  p \in Slots(t, k) <=> \E a \in OfKey(t, k) : \E i \in 1..t[a].count : p = <<a, i>>
  BY DEF Slots

\* A table that grows keeps its detections ...
LEMMA SlotsGrow ==
    ASSUME NEW t, NEW u, IsTable(t), IsTable(u), Grows(t, u), KeepsKeys(t, u), NEW k
    PROVE  Slots(t, k) \subseteq Slots(u, k)
<1> SUFFICES ASSUME NEW p \in Slots(t, k) PROVE p \in Slots(u, k)
  OBVIOUS
<1>1. PICK a \in OfKey(t, k) : \E i \in 1..t[a].count : p = <<a, i>>
  BY SlotsMeaning
<1>2. a \in OfKey(u, k) /\ t[a].count \in Nat /\ u[a].count \in Nat /\ t[a].count <= u[a].count
  BY DEF OfKey, Grows, KeepsKeys, IsTable, Row
<1>3. \A i \in 1..t[a].count : i \in 1..u[a].count
  BY <1>2
<1> QED
  BY <1>1, <1>2, <1>3, SlotsMeaning

LEMMA SlotsNotLess ==
    ASSUME NEW t, NEW u, IsTable(t), IsTable(u), Grows(t, u), KeepsKeys(t, u),
           IsFiniteSet(DOMAIN u), NEW k
    PROVE  /\ Cardinality(Slots(t, k)) <= Cardinality(Slots(u, k))
           /\ Cardinality(Slots(t, k)) \in Nat /\ Cardinality(Slots(u, k)) \in Nat
<1>1. Slots(t, k) \subseteq Slots(u, k)
  BY SlotsGrow
<1>2. IsFiniteSet(Slots(u, k)) /\ Cardinality(Slots(u, k)) \in Nat
  BY SlotsFinite
<1>3. IsFiniteSet(Slots(t, k)) /\ Cardinality(Slots(t, k)) <= Cardinality(Slots(u, k))
  BY <1>1, <1>2, FS_Subset
<1> QED
  BY <1>2, <1>3, FS_CardinalityType

\* ... and has one more when an alert of the key is new or counts more.
LEMMA SlotsMore ==
    ASSUME NEW t, NEW u, IsTable(t), IsTable(u), Grows(t, u), KeepsKeys(t, u),
           IsFiniteSet(DOMAIN u), NEW a \in DOMAIN u,
           a \in DOMAIN t => t[a].count < u[a].count
    PROVE  Cardinality(Slots(t, u[a].key)) + 1 <= Cardinality(Slots(u, u[a].key))
<1> DEFINE k == u[a].key
           p == <<a, u[a].count>>
<1>1. u[a].count \in Nat \ {0} /\ (a \in DOMAIN t => t[a].count \in Nat)
  BY DEF IsTable, Row
<1>2. p \in Slots(u, k)
  <2>1. a \in OfKey(u, k) /\ u[a].count \in 1..u[a].count
    BY <1>1 DEF OfKey
  <2> HIDE DEF k
  <2> QED
    BY <2>1, SlotsMeaning
<1>3. p \notin Slots(t, k)
  <2> SUFFICES ASSUME p \in Slots(t, k) PROVE FALSE
    OBVIOUS
  <2>1. PICK b \in OfKey(t, k) : \E i \in 1..t[b].count : p = <<b, i>>
    BY SlotsMeaning
  <2>2. b = a /\ a \in DOMAIN t /\ u[a].count \in 1..t[a].count
    BY <2>1 DEF OfKey
  <2> QED
    BY <1>1, <2>2
<1> HIDE DEF p, k
<1>4. Slots(t, k) \cup {p} \subseteq Slots(u, k)
  BY <1>2, SlotsGrow
<1>5. IsFiniteSet(Slots(u, k)) /\ Cardinality(Slots(u, k)) \in Nat
  BY SlotsFinite
<1>6. IsFiniteSet(Slots(t, k))
  BY <1>4, <1>5, FS_Subset
<1>7. Cardinality(Slots(t, k) \cup {p}) = Cardinality(Slots(t, k)) + 1
  BY <1>3, <1>6, FS_AddElement
<1>8. Cardinality(Slots(t, k) \cup {p}) <= Cardinality(Slots(u, k))
  BY <1>4, <1>5, FS_Subset
<1> QED
  BY <1>7, <1>8 DEF k

\* What a worker sees is finite, and so is what it sees after a step.
LEMMA ViewFinite ==
    ASSUME NEW w \in Workers, IsFiniteSet(DOMAIN rows), IsFiniteSet(DOMAIN draft[w])
    PROVE  IsFiniteSet(DOMAIN View(w))
<1>1. DOMAIN View(w) = DOMAIN draft[w] \cup DOMAIN rows
  BY DEF View
<1> QED
  BY <1>1, FS_Union

LEMMA LookupCounted ==
    ASSUME IInv, CountedInv, NEW w \in Workers, Lookup(w)
    PROVE  CountedInv'
<1>1. /\ UNCHANGED <<rows, draft, tally, counted>>
      /\ \A v \in Workers : v # w => hand'[v] = hand[v] /\ pc'[v] = pc[v]
      /\ hand'[w].found # NoAlert => View(w)[hand'[w].found].key = hand'[w].key
  BY LookupFacts DEF IInv, Findable
<1>2. \A v \in Workers : View(v)' = View(v)
  BY <1>1 DEF View
<1> QED
  BY <1>1, <1>2 DEF CountedInv

\* A flush of the only worker, of a new row or of one that counts more.
LEMMA FlushCounted ==
    ASSUME \A v, u \in Workers : v = u, IInv, IInv', CountedInv, NEW w \in Workers,
           pc[w] = "apply", NEW a, NEW row, Flush(w, a, row), row.key = hand[w].key,
           Grows(View(w), View(w)'),
           a \in DOMAIN View(w) => View(w)[a].count < row.count /\ View(w)[a].key = row.key
    PROVE  CountedInv'
<1> DEFINE k == hand[w].key
<1>1. /\ UNCHANGED rows /\ pc'[w] = "next" /\ DOMAIN draft'[w] = DOMAIN draft[w] \cup {a}
  BY FlushFacts DEF IInv
<1>2. /\ DOMAIN View(w)' = DOMAIN View(w) \cup {a} /\ View(w)'[a] = row
      /\ \A b \in DOMAIN View(w) : b # a => View(w)'[b] = View(w)[b]
  BY ONLY IInv, w \in Workers, Flush(w, a, row), FlushView
<1>3. /\ k \in Keys /\ tally'[w] = [tally[w] EXCEPT ![k] = @ + 1] /\ counted' = counted
      /\ tally[w] \in [Keys -> Nat] /\ counted \in [Keys -> Nat]
  BY DEF Flush, IInv, TypeOK, Hand
<1>4. IsTable(View(w)) /\ IsTable(View(w)') /\ IsTable(rows)
  BY ViewTyped, NextViewTyped DEF IInv, TypeOK
<1>5. IsFiniteSet(DOMAIN rows) /\ IsFiniteSet(DOMAIN draft'[w]) /\ IsFiniteSet(DOMAIN View(w)')
  <2>1. IsFiniteSet(DOMAIN draft[w]) /\ IsFiniteSet(DOMAIN rows)
    BY DEF CountedInv
  <2>2. IsFiniteSet(DOMAIN View(w))
    BY <2>1, ViewFinite
  <2>3. IsFiniteSet(DOMAIN draft[w] \cup {a})
    BY <2>1, FS_AddElement
  <2>4. IsFiniteSet(DOMAIN View(w) \cup {a})
    BY <2>2, FS_AddElement
  <2> QED
    BY <1>1, <1>2, <2>1, <2>3, <2>4
<1>6. KeepsKeys(View(w), View(w)')
  BY <1>2 DEF KeepsKeys
<1>7. KeepsKeys(rows, View(w)')
  <2>1. \A b \in DOMAIN rows : b \in DOMAIN View(w)
    BY DEF View
  <2> QED
    BY <1>6, <2>1 DEF KeepsKeys, CountedInv
<1> DEFINE n(l) == Cardinality(Slots(View(w), l))
           m(l) == Cardinality(Slots(View(w)', l))
<1>8. \A l \in Keys : n(l) \in Nat /\ m(l) \in Nat /\ n(l) <= m(l)
  BY <1>4, <1>5, <1>6, SlotsNotLess
<1>9. n(k) + 1 <= m(k)
  <2>1. a \in DOMAIN View(w)' /\ View(w)'[a] = row
        /\ (a \in DOMAIN View(w) => View(w)[a].count < View(w)'[a].count)
    BY <1>2
  <2> QED
    BY <1>4, <1>5, <1>6, <2>1, SlotsMore
<1>10. \A l \in Keys : n(l) >= counted[l] + tally[w][l]
  BY DEF CountedInv
<1>11. \A l \in Keys : m(l) >= counted[l] + tally'[w][l]
  <2> TAKE l \in Keys
  <2> HIDE DEF n, m, k
  <2>1. counted[l] \in Nat /\ tally[w][l] \in Nat
    BY <1>3
  <2>2. CASE l = k
    <3>1. tally'[w][l] = tally[w][l] + 1
      BY <1>3, <2>2
    <3> QED
      BY <1>8, <1>9, <1>10, <2>1, <2>2, <3>1
  <2>3. CASE l # k
    <3>1. tally'[w][l] = tally[w][l]
      BY <1>3, <2>3
    <3> QED
      BY <1>8, <1>10, <2>1, <3>1
  <2> QED
    BY <2>2, <2>3
<1>12. \A l \in Keys : Cardinality(Slots(View(w), l))' = m(l)
  BY DEF Slots, OfKey
<1>13. KeepsKeys(rows, View(w))'
  BY <1>1, <1>7 DEF KeepsKeys
<1>14. \A l \in Keys : Cardinality(Slots(rows, l))' >= counted'[l]
  BY <1>1, <1>3 DEF CountedInv, Slots, OfKey
<1>15. \A l \in Keys : (Cardinality(Slots(View(w), l)) >= counted[l] + tally[w][l])'
  <2> HIDE DEF m
  <2> QED
    BY <1>11, <1>12, <1>3
<1>16. ASSUME NEW v \in Workers
       PROVE  /\ IsFiniteSet(DOMAIN draft'[v]) /\ KeepsKeys(rows, View(v))' /\ pc'[v] # "apply"
              /\ \A l \in Keys : (Cardinality(Slots(View(v), l)) >= counted[l] + tally[v][l])'
  <2>1. v = w
    OBVIOUS
  <2> QED
    BY <1>1, <1>5, <1>13, <1>15, <2>1
<1> QED
  BY <1>1, <1>5, <1>14, <1>16 DEF CountedInv

LEMMA FlushesCounted ==
    ASSUME \A v, u \in Workers : v = u, IInv, CountsInv, CountedInv,
           NEW w \in Workers, Insert(w) \/ Fold(w)
    PROVE  CountedInv'
<1>1. IInv' /\ Grows(View(w), View(w)') /\ pc[w] = "apply"
  BY InsertIInv, FoldIInv, FlushesCounts DEF Insert, Fold
<1>2. CASE Insert(w)
  <2>1. PICK a \in Alerts \ Used :
          Flush(w, a, [key |-> hand[w].key, status |-> "open",
                       count |-> hand[w].hint, history |-> <<>>])
    BY <1>2 DEF Insert
  <2>2. PICK row : Flush(w, a, row) /\ row.key = hand[w].key
    BY <2>1
  <2>3. a \notin DOMAIN View(w)
    BY <2>1 DEF Used, View
  <2> QED
    BY <1>1, <2>2, <2>3, FlushCounted
<1>3. CASE Fold(w)
  <2> DEFINE a == hand[w].found
             current == View(w)[a]
             h == hand[w].hint
  <2>1. pc[w] = "apply" /\ a # NoAlert
    BY <1>3 DEF Fold
  <2>2. PICK row \in Folded(hand[w].read, current, h) : Flush(w, a, row)
    BY <1>3 DEF Fold
  <2>3. a \in DOMAIN View(w) /\ current \in Row
    BY <2>1, ViewTyped DEF IInv, InHandExist, IsTable
  <2>4. hand[w].read \in Row /\ h \in Nat
    BY <2>1, AlertAssumption DEF IInv, TypeOK, Hand
  <2>5. row.count = (IF hand[w].read.count + 1 < h THEN h ELSE hand[w].read.count + 1)
        /\ row.key = current.key
    BY <2>2, <2>3 DEF Folded, Row
  <2>6. current.count <= hand[w].read.count /\ current.key = hand[w].key
    BY <2>1 DEF CountsInv, CountedInv
  <2>7. current.count \in Nat /\ hand[w].read.count \in Nat
    BY <2>3, <2>4 DEF Row
  <2>8. current.count < row.count
    <3> HIDE DEF current, h
    <3> QED
      BY <2>4, <2>5, <2>6, <2>7
  <2> QED
    BY <1>1, <2>2, <2>5, <2>6, <2>8, FlushCounted
<1> QED
  BY <1>2, <1>3

LEMMA EndCounted ==
    ASSUME \A v, u \in Workers : v = u, IInv, CountedInv, NEW w \in Workers,
           Commit(w) \/ Rollback(w)
    PROVE  CountedInv'
<1>1. TypeOK /\ EndTransaction(w)
  BY DEF IInv, Commit, Rollback
<1>2. /\ DOMAIN draft'[w] = {} /\ pc'[w] = "next" /\ tally'[w] = [k \in Keys |-> 0]
  BY <1>1 DEF EndTransaction, TypeOK, EmptyTable
<1>3. IsFiniteSet(DOMAIN View(w)) /\ IsFiniteSet(DOMAIN rows)
  BY ViewFinite DEF CountedInv
<1>4. \/ rows' = rows /\ counted' = counted
      \/ rows' = View(w) /\ \A k \in Keys : counted'[k] = counted[k] + tally[w][k]
  BY DEF Commit, Rollback
<1>5. IsFiniteSet(DOMAIN rows') /\ IsFiniteSet(DOMAIN draft'[w])
  BY <1>2, <1>3, <1>4, FS_EmptySet
<1>6. \A k \in Keys : Cardinality(Slots(rows', k)) >= counted'[k] /\ counted'[k] \in Nat
  BY <1>1, <1>4 DEF CountedInv, TypeOK
<1>7. View(w)' = [a \in DOMAIN rows' |-> rows'[a]]
  BY <1>2 DEF View
<1>8. KeepsKeys(rows', View(w)')
  BY <1>7 DEF KeepsKeys
<1>9. \A k \in Keys : Slots(View(w)', k) = Slots(rows', k)
  <2>1. /\ DOMAIN View(w)' = DOMAIN rows'
        /\ \A a \in DOMAIN rows' : View(w)'[a] = rows'[a]
    BY <1>7
  <2> QED
    BY <2>1 DEF Slots, OfKey
<1>10. \A k \in Keys : Cardinality(Slots(View(w)', k)) >= counted'[k] + tally'[w][k]
  BY <1>2, <1>6, <1>9
<1>11. ASSUME NEW v \in Workers
       PROVE  /\ IsFiniteSet(DOMAIN draft'[v]) /\ KeepsKeys(rows, View(v))' /\ pc'[v] # "apply"
              /\ \A k \in Keys : (Cardinality(Slots(View(v), k)) >= counted[k] + tally[v][k])'
  <2>1. v = w
    OBVIOUS
  <2>2. \A k \in Keys : Slots(View(w), k)' = Slots(View(w)', k)
    BY DEF Slots, OfKey
  <2>3. KeepsKeys(rows, View(w))' = KeepsKeys(rows', View(w)')
    BY DEF KeepsKeys
  <2> QED
    BY <1>2, <1>5, <1>8, <1>10, <2>1, <2>2, <2>3
<1>12. \A k \in Keys : (Cardinality(Slots(rows, k)) >= counted[k])'
  <2>1. \A k \in Keys : Slots(rows, k)' = Slots(rows', k)
    BY DEF Slots, OfKey
  <2> QED
    BY <1>6, <2>1
<1> QED
  BY <1>5, <1>11, <1>12 DEF CountedInv

LEMMA WriteCounted ==
    ASSUME IInv, CountsInv, CountedInv, NEW x \in Analysts, PatchWrite(x)
    PROVE  CountedInv'
<1>1. PICK a \in DOMAIN rows :
        /\ rows[a] \in Row /\ UNCHANGED <<draft, pc, hand>> /\ DOMAIN rows' = DOMAIN rows
        /\ \A b \in DOMAIN rows : b # a => rows'[b] = rows[b]
        /\ rows'[a] = [rows[a] EXCEPT !.status = patch[x].to,
                                      !.history = Noted(patch[x].read.history)]
  BY WriteFacts
<1>2. UNCHANGED <<tally, counted>>
  BY DEF PatchWrite, workerVars
<1>3. \A b \in DOMAIN rows : rows'[b].count = rows[b].count /\ rows'[b].key = rows[b].key
  BY <1>1 DEF Row
<1>4. \A w \in Workers :
        /\ DOMAIN View(w)' = DOMAIN View(w)
        /\ \A b \in DOMAIN View(w) :
             View(w)'[b].count = View(w)[b].count /\ View(w)'[b].key = View(w)[b].key
  BY <1>1, <1>3 DEF View
<1>5. \A k \in Keys : Slots(rows, k)' = Slots(rows, k)
  BY <1>1, <1>3 DEF Slots, OfKey
<1>6. \A w \in Workers : \A k \in Keys : Slots(View(w), k)' = Slots(View(w), k)
  BY <1>4 DEF Slots, OfKey
<1>7. \A w \in Workers : DOMAIN rows \subseteq DOMAIN View(w)
  BY DEF View
<1>8. ASSUME NEW w \in Workers
      PROVE  /\ KeepsKeys(rows, View(w))'
             /\ pc'[w] = "apply" /\ hand'[w].found # NoAlert =>
                  View(w)'[hand'[w].found].key = hand'[w].key
  <2>1. KeepsKeys(rows, View(w))'
    BY <1>1, <1>3, <1>4, <1>7 DEF KeepsKeys, CountedInv
  <2>2. pc[w] = "apply" /\ hand[w].found # NoAlert => hand[w].found \in DOMAIN View(w)
    BY DEF IInv, InHandExist
  <2> QED
    BY <1>1, <1>4, <2>1, <2>2 DEF CountedInv
<1> QED
  BY <1>1, <1>2, <1>5, <1>6, <1>8 DEF CountedInv

LEMMA CountedStep ==
    ASSUME \A v, w \in Workers : v = w, IInv, CountsInv, CountedInv, [Next]_vars
    PROVE  CountedInv'
<1>1. CASE \/ \E x \in Analysts : PatchRead(x) \/ PatchRefused(x)
           \/ UNCHANGED vars
  <2>1. UNCHANGED <<rows, draft, pc, hand, tally, counted>>
    BY <1>1 DEF PatchRead, PatchRefused, workerVars, vars
  <2>2. \A w \in Workers : View(w)' = View(w)
    BY <2>1 DEF View
  <2> QED
    BY <2>1, <2>2 DEF CountedInv
<1> QED
  BY <1>1, LookupCounted, FlushesCounted, EndCounted, WriteCounted DEF Next

(***************************************************************************)
(* With one worker no committed detection is missing from the counts of    *)
(* its key, however many analysts move and reopen the alerts meanwhile     *)
(* (detection/correlation.py:6, 32-97).                                    *)
(***************************************************************************)
THEOREM CountsEveryDetectionHolds ==
    ASSUME \A v, w \in Workers : v = w
    PROVE  Spec => []CountsEveryDetection
<1>1. Init => CountedInv
  <2> SUFFICES ASSUME Init PROVE CountedInv
    OBVIOUS
  <2>1. DOMAIN rows = {} /\ \A w \in Workers : DOMAIN draft[w] = {} /\ DOMAIN View(w) = {}
    BY DEF Init, EmptyTable, View
  <2>2. \A k \in Keys : Slots(rows, k) = {} /\ \A w \in Workers : Slots(View(w), k) = {}
    BY <2>1 DEF Slots, OfKey
  <2>3. IsFiniteSet({}) /\ Cardinality({}) = 0
    BY FS_EmptySet
  <2>4. /\ \A k \in Keys : Cardinality(Slots(rows, k)) = 0
        /\ \A w \in Workers : \A k \in Keys : Cardinality(Slots(View(w), k)) = 0
    BY <2>2, <2>3, Zenon
  <2>5. /\ \A k \in Keys : counted[k] = 0
        /\ \A w \in Workers : pc[w] = "next" /\ \A k \in Keys : tally[w][k] = 0
    BY DEF Init
  <2>6. \A k \in Keys : Cardinality(Slots(rows, k)) >= counted[k]
    BY <2>4, <2>5
  <2>7. \A w \in Workers : \A k \in Keys :
          Cardinality(Slots(View(w), k)) >= counted[k] + tally[w][k]
    BY <2>4, <2>5
  <2>8. IsFiniteSet(DOMAIN rows) /\ \A w \in Workers : IsFiniteSet(DOMAIN draft[w])
    BY <2>1, <2>3
  <2>9. \A w \in Workers : KeepsKeys(rows, View(w))
    BY <2>1 DEF KeepsKeys
  <2> QED
    BY <2>5, <2>6, <2>7, <2>8, <2>9 DEF CountedInv
<1>2. IInv /\ CountsInv /\ CountedInv /\ [Next]_vars => CountedInv'
  BY CountedStep
<1>3. CountedInv => CountsEveryDetection
  <2>1. \A k \in Keys : CountOf(k) = Cardinality(Slots(rows, k))
    BY DEF CountOf, Slots, OfKey
  <2> QED
    BY <2>1 DEF CountedInv, CountsEveryDetection
<1> QED
  BY <1>1, <1>2, <1>3, Invariance, CountsInvHolds, PTL DEF Spec
=============================================================================
