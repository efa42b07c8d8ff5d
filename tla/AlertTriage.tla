---------------------------- MODULE AlertTriage ----------------------------
(***************************************************************************)
(* The alerts table and everybody who writes it: the workers, which fold   *)
(* the detections of a batch into alerts inside the transaction that       *)
(* stores the batch (detection/correlation.py, streaming/pipeline.py), and *)
(* the analysts, whose PATCH requests move an alert through its workflow   *)
(* (services/alerts.py, api/routes/alerts.py).                             *)
(*                                                                         *)
(* PostgreSQL is modelled as the code relies on it: READ COMMITTED, one    *)
(* lock per written row, and the unique constraint on (rule_id,            *)
(* correlation_key, status).  An action is the code between two awaits     *)
(* that reach the database.                                                *)
(***************************************************************************)
EXTENDS Integers, Sequences, FiniteSets

CONSTANTS
    Workers,        \* stream-processor processes
    Analysts,       \* sessions that may send a PATCH
    Alerts,         \* alert ids
    Keys,           \* pairs of rule_id and correlation_key
    Hints,          \* the event_count_hint a detection may carry
    NoAlert,        \* the result of a lookup that finds no row
    NoPatch,        \* an analyst with no request under way
    HistoryMax,     \* entries of status_history that are kept (25 in the code)
    DetectionLimit, \* bound: detections raised in a behaviour
    MoveLimit       \* bound: no request begins after this many moves

ASSUME AlertAssumption ==
    /\ NoAlert \notin Alerts
    /\ Hints \subseteq Nat \ {0}
    /\ HistoryMax \in Nat \ {0}
    /\ DetectionLimit \in Nat
    /\ MoveLimit \in Nat

VARIABLES
    rows,     \* the committed rows of alerts: a function on the ids in use
    audit,    \* the committed rows of audit_logs, in order
    draft,    \* what each worker's open transaction has written
    pc,       \* where each worker is in correlator.apply
    hand,     \* the detection it is applying, and the row it looked up
    patch,    \* the request of each analyst, with the row it loaded
    refused,  \* history: allowed moves the database refused
    raised,   \* detections raised so far
    tally,    \* history: detections per key in a worker's open transaction
    counted   \* history: committed detections per key

workerVars == <<draft, pc, hand, raised, tally, counted>>
vars == <<rows, audit, patch, refused, workerVars>>

Active == {"open", "acknowledged", "investigating"}
Statuses == Active \cup {"resolved", "false_positive"}

AllowedTransitions ==
    [open           |-> Statuses \ {"open"},
     acknowledged   |-> Statuses \ {"acknowledged"},
     investigating  |-> Statuses \ {"investigating"},
     resolved       |-> {"open"},
     false_positive |-> {"open"}]

\* status_history is a list of the positions in audit_logs of its entries.
Row == [key : Keys, status : Statuses, count : Nat \ {0}, history : Seq(Nat \ {0})]
Move == [alert : Alerts, from : Statuses, to : Statuses]
Hand == [key : Keys, hint : Hints, found : {NoAlert}]
          \cup [key : Keys, hint : Hints, found : Alerts, read : Row]
Request == [alert : Alerts, to : Statuses, read : Row]

IsTable(t) == DOMAIN t \subseteq Alerts /\ \A a \in DOMAIN t : t[a] \in Row
EmptyTable == [a \in {} |-> NoAlert]

TypeOK ==
    /\ IsTable(rows)
    /\ audit \in Seq(Move)
    /\ DOMAIN draft = Workers /\ \A w \in Workers : IsTable(draft[w])
    /\ pc \in [Workers -> {"next", "apply"}]
    /\ hand \in [Workers -> Hand \cup {NoAlert}]
    /\ \A w \in Workers : pc[w] = "apply" => hand[w] \in Hand
    /\ patch \in [Analysts -> Request \cup {NoPatch}]
    /\ refused \subseteq Move
    /\ raised \in Nat
    /\ tally \in [Workers -> [Keys -> Nat]]
    /\ counted \in [Keys -> Nat]

Init ==
    /\ rows = EmptyTable
    /\ audit = <<>>
    /\ draft = [w \in Workers |-> EmptyTable]
    /\ pc = [w \in Workers |-> "next"]
    /\ hand = [w \in Workers |-> NoAlert]
    /\ patch = [x \in Analysts |-> NoPatch]
    /\ refused = {}
    /\ raised = 0
    /\ tally = [w \in Workers |-> [k \in Keys |-> 0]]
    /\ counted = [k \in Keys |-> 0]
-----------------------------------------------------------------------------
(***************************************************************************)
(* PostgreSQL.                                                             *)
(***************************************************************************)

\* What the transaction of w sees: its own writes over the committed rows.
View(w) == [a \in DOMAIN draft[w] \cup DOMAIN rows |->
              IF a \in DOMAIN draft[w] THEN draft[w][a] ELSE rows[a]]

Used == DOMAIN rows \cup UNION {DOMAIN draft[w] : w \in Workers}

\* A transaction keeps the lock of a row it wrote until it ends.
LockedBy(w, a) == a \in DOMAIN draft[w]

\* Another row of table t has this key and status: a unique violation.
Taken(t, a, k, s) == \E b \in DOMAIN t : b # a /\ t[b].key = k /\ t[b].status = s
-----------------------------------------------------------------------------
(***************************************************************************)
(* The worker: one transaction per batch, one correlator.apply per         *)
(* detection of it.                                                        *)
(***************************************************************************)

\* Mutant: the lookup forgets the alerts an analyst is working on.
FindableOnlyOpen(t, k) == {a \in DOMAIN t : t[a].key = k /\ t[a].status = "open"}

\* get_open_by_key: an active row of the key, any of them when there are two.
Findable(t, k) == {a \in DOMAIN t : t[a].key = k /\ t[a].status \in Active}

Lookup(w) ==
    /\ pc[w] = "next" /\ raised < DetectionLimit
    /\ raised' = raised + 1
    /\ pc' = [pc EXCEPT ![w] = "apply"]
    /\ \E k \in Keys, h \in Hints :
        \/ /\ Findable(View(w), k) = {}
           /\ hand' = [hand EXCEPT ![w] = [key |-> k, hint |-> h, found |-> NoAlert]]
        \/ \E a \in Findable(View(w), k) :
            hand' = [hand EXCEPT ![w] =
                        [key |-> k, hint |-> h, found |-> a, read |-> View(w)[a]]]
    /\ UNCHANGED <<rows, audit, draft, patch, refused, tally, counted>>

\* A flushed write joins the transaction.
Flush(w, a, row) ==
    /\ draft' = [draft EXCEPT ![w] = [b \in DOMAIN @ \cup {a} |-> IF b = a THEN row ELSE @[b]]]
    /\ tally' = [tally EXCEPT ![w][hand[w].key] = @ + 1]
    /\ pc' = [pc EXCEPT ![w] = "next"]
    /\ hand' = [hand EXCEPT ![w] = NoAlert]
    /\ UNCHANGED <<rows, audit, patch, refused, raised, counted>>

\* No alert was found: insert one.  The insert waits for a transaction that
\* holds a row with the same unique key, and fails if such a row is committed.
Insert(w) ==
    /\ pc[w] = "apply" /\ hand[w].found = NoAlert
    /\ \E a \in Alerts \ Used :
        /\ \A v \in Workers \ {w} : ~Taken(draft[v], a, hand[w].key, "open")
        /\ ~Taken(rows, a, hand[w].key, "open")
        /\ Flush(w, a, [key |-> hand[w].key, status |-> "open",
                        count |-> hand[w].hint, history |-> <<>>])

\* Mutant: the ORM writes back every column of the row it loaded.
FoldedWhole(read, current, h) ==
    {[read EXCEPT !.count = IF @ + 1 < h THEN h ELSE @ + 1]}

\* The row after folding a detection in: the count from the row that was read,
\* the status nobody touches, and the metadata column, status_history with it,
\* from the row that was read, unless the detection leaves it as it is.
Folded(read, current, h) ==
    {[current EXCEPT !.count = IF read.count + 1 < h THEN h ELSE read.count + 1,
                     !.history = kept] : kept \in {read.history, current.history}}

\* An alert was found: update it, once nobody else holds its lock.
Fold(w) ==
    LET a == hand[w].found
    IN  /\ pc[w] = "apply" /\ a # NoAlert
        /\ \A v \in Workers \ {w} : ~LockedBy(v, a)
        /\ \E row \in Folded(hand[w].read, View(w)[a], hand[w].hint) : Flush(w, a, row)

EndTransaction(w) ==
    /\ draft' = [draft EXCEPT ![w] = EmptyTable]
    /\ tally' = [tally EXCEPT ![w] = [k \in Keys |-> 0]]
    /\ pc' = [pc EXCEPT ![w] = "next"]
    /\ hand' = [hand EXCEPT ![w] = NoAlert]
    /\ UNCHANGED <<audit, patch, refused, raised>>

Commit(w) ==
    /\ pc[w] = "next" /\ DOMAIN draft[w] # {}
    /\ rows' = View(w)
    /\ counted' = [k \in Keys |-> counted[k] + tally[w][k]]
    /\ EndTransaction(w)

\* The transaction is rolled back: a unique violation, the victim of a deadlock,
\* a lost connection or a crash.  Its batch is not retried.
Rollback(w) ==
    /\ pc[w] = "apply" \/ DOMAIN draft[w] # {}
    /\ UNCHANGED <<rows, counted>>
    /\ EndTransaction(w)
-----------------------------------------------------------------------------
(***************************************************************************)
(* The analysts: update_alert_status.                                      *)
(***************************************************************************)

\* The row is loaded and the move checked against it.  The current status and a
\* move that is not allowed (HTTP 409) are answered without a write.
PatchRead(x) ==
    /\ patch[x] = NoPatch /\ Len(audit) < MoveLimit
    /\ \E a \in DOMAIN rows, s \in Statuses :
        /\ s # rows[a].status
        /\ s \in AllowedTransitions[rows[a].status]
        /\ patch' = [patch EXCEPT ![x] = [alert |-> a, to |-> s, read |-> rows[a]]]
    /\ UNCHANGED <<rows, audit, refused, workerVars>>

MoveOf(x) == [alert |-> patch[x].alert, from |-> patch[x].read.status, to |-> patch[x].to]

\* Its UPDATE waits for the row's lock, and for an insert of the same unique key.
Waits(x) ==
    LET a == patch[x].alert IN
    \E w \in Workers : LockedBy(w, a) \/ Taken(draft[w], a, patch[x].read.key, patch[x].to)

LastEntries(s) ==
    IF Len(s) > HistoryMax THEN SubSeq(s, Len(s) - HistoryMax + 1, Len(s)) ELSE s

\* Mutant: the newest entry is put first.
NotedFirst(history) == LastEntries(<<Len(audit) + 1>> \o history)

\* The history with the move that is about to be audited.
Noted(history) == LastEntries(Append(history, Len(audit) + 1))

\* Mutant: the request writes every column of the row it loaded.
PatchWriteWhole(x) ==
    /\ patch[x] # NoPatch /\ ~Waits(x)
    /\ ~Taken(rows, patch[x].alert, patch[x].read.key, patch[x].to)
    /\ rows' = [rows EXCEPT ![patch[x].alert] =
                  [patch[x].read EXCEPT !.status = patch[x].to,
                                        !.history = Noted(@)]]
    /\ audit' = Append(audit, MoveOf(x))
    /\ patch' = [patch EXCEPT ![x] = NoPatch]
    /\ UNCHANGED <<refused, workerVars>>

\* Mutant: the audit row is written whether or not the move goes through.
PatchRefusedAudited(x) ==
    /\ patch[x] # NoPatch /\ ~Waits(x)
    /\ Taken(rows, patch[x].alert, patch[x].read.key, patch[x].to)
    /\ refused' = refused \cup {MoveOf(x)}
    /\ audit' = Append(audit, MoveOf(x))
    /\ patch' = [patch EXCEPT ![x] = NoPatch]
    /\ UNCHANGED <<rows, workerVars>>

\* Status, metadata and audit row are written in one transaction, from the row
\* that was loaded: nothing looks whether it has changed since.
PatchWrite(x) ==
    /\ patch[x] # NoPatch /\ ~Waits(x)
    /\ ~Taken(rows, patch[x].alert, patch[x].read.key, patch[x].to)
    /\ rows' = [rows EXCEPT ![patch[x].alert].status = patch[x].to,
                            ![patch[x].alert].history = Noted(patch[x].read.history)]
    /\ audit' = Append(audit, MoveOf(x))
    /\ patch' = [patch EXCEPT ![x] = NoPatch]
    /\ UNCHANGED <<refused, workerVars>>

\* The unique constraint stops the move: HTTP 500, and nothing is written.
PatchRefused(x) ==
    /\ patch[x] # NoPatch /\ ~Waits(x)
    /\ Taken(rows, patch[x].alert, patch[x].read.key, patch[x].to)
    /\ refused' = refused \cup {MoveOf(x)}
    /\ patch' = [patch EXCEPT ![x] = NoPatch]
    /\ UNCHANGED <<rows, audit, workerVars>>

Next ==
    \/ \E w \in Workers : Lookup(w) \/ Insert(w) \/ Fold(w) \/ Commit(w) \/ Rollback(w)
    \/ \E x \in Analysts : PatchRead(x) \/ PatchWrite(x) \/ PatchRefused(x)

Spec == Init /\ [][Next]_vars
-----------------------------------------------------------------------------
(***************************************************************************)
(* What triage promises.                                                   *)
(***************************************************************************)

(***************************************************************************)
(* "every change is audited" (SECURITY.md:52): however requests and folds  *)
(* interleave, the status of an alert is the target of the last audited    *)
(* move of it, and "open" if there is none (services/alerts.py:68-87,      *)
(* detection/correlation.py:71-97).                                        *)
(***************************************************************************)
Moves(a) == {i \in 1..Len(audit) : audit[i].alert = a}

AuditExplainsStatus ==
    \A a \in DOMAIN rows :
        \/ Moves(a) = {} /\ rows[a].status = "open"
        \/ \E i \in Moves(a) : audit[i].to = rows[a].status /\ \A j \in Moves(a) : j <= i

(***************************************************************************)
(* What makes the property inductive: a row has one writer, whose draft    *)
(* has the status of the committed row (correlation.py:71-97 never sets    *)
(* it), or is a new, open alert without moves; requests and detections in  *)
(* hand name rows that exist.                                              *)
(***************************************************************************)
OneWriterPerRow ==
    \A v, w \in Workers : v # w => DOMAIN draft[v] \cap DOMAIN draft[w] = {}

DraftsKeepStatus ==
    \A w \in Workers : \A a \in DOMAIN draft[w] :
        IF a \in DOMAIN rows THEN draft[w][a].status = rows[a].status
                             ELSE draft[w][a].status = "open"

InHandExist ==
    /\ \A i \in 1..Len(audit) : audit[i].alert \in DOMAIN rows
    /\ \A x \in Analysts : patch[x] # NoPatch => patch[x].alert \in DOMAIN rows
    /\ \A w \in Workers :
        pc[w] = "apply" /\ hand[w].found # NoAlert => hand[w].found \in DOMAIN View(w)

IInv == TypeOK /\ OneWriterPerRow /\ DraftsKeepStatus /\ InHandExist /\ AuditExplainsStatus

(***************************************************************************)
(* The status_history an analyst reads is never invented or reordered: it  *)
(* lists audited moves of this very alert, each once and oldest first,     *)
(* though writers race with stale copies of it (services/alerts.py:70-76,  *)
(* detection/correlation.py:93-95).                                        *)
(***************************************************************************)
HistoryIsAudited ==
    \A a \in DOMAIN rows : LET h == rows[a].history IN
        /\ Len(h) <= HistoryMax
        /\ \A i \in 1..Len(h) : h[i] \in Moves(a)
        /\ \A i, j \in 1..Len(h) : i < j => h[i] < h[j]

(***************************************************************************)
(* "27 SSH failures from one IP therefore produce ONE alert with           *)
(* event_count = 27" (detection/correlation.py:6): no committed detection  *)
(* is missing from the counts of its key, whatever the analysts do to the  *)
(* alerts meanwhile.  For one worker.                                      *)
(***************************************************************************)
\* The detections that the alerts of a key count, each a numbered one of its alert.
CountOf(k) ==
    Cardinality(UNION {{a} \X (1..rows[a].count) : a \in {b \in DOMAIN rows : rows[b].key = k}})

CountsEveryDetection == \A k \in Keys : CountOf(k) >= counted[k]

(***************************************************************************)
(* One active alert per key, unless an analyst reopened a terminal one:    *)
(* the lookup and the insert of the worker cannot be split by a request    *)
(* so that a second one appears (detection/correlation.py:32-61,           *)
(* storage/repositories.py:231-239).  For one worker and one analyst.      *)
(***************************************************************************)
Reopened(a) == \E i \in Moves(a) : audit[i].from \notin Active /\ audit[i].to = "open"

TwoActiveMeansReopened ==
    \A a, b \in DOMAIN rows :
        a # b /\ rows[a].key = rows[b].key /\ {rows[a].status, rows[b].status} \subseteq Active
            => Reopened(a) \/ Reopened(b)

(***************************************************************************)
(* "Transitions validated server-side" (docs/threat-model.md:93): no step  *)
(* moves an alert between statuses the workflow does not connect.  It      *)
(* holds for one analyst, however the worker's folds come in between; two  *)
(* analysts break it (services/alerts.py:62-68).                           *)
(***************************************************************************)
OnlyAllowedTransitions ==
    [][\A a \in DOMAIN rows :
        \/ rows'[a].status = rows[a].status
        \/ rows'[a].status \in AllowedTransitions[rows[a].status]]_rows

(***************************************************************************)
(* "a resolved brute force alert does not block a fresh one from the same  *)
(* IP later" (models/alert.py:51-52): the fresh one can go through the     *)
(* workflow "OPEN -> ... -> RESOLVED" (services/alerts.py:17) as well.     *)
(***************************************************************************)
FreshAlertNotBlocked == \A m \in refused : m.to \in Active
=============================================================================
