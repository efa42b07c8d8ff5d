------------------------------ MODULE AlertFeed ------------------------------
(***************************************************************************)
(* The live feed on top of AlertTriage: what a worker and a PATCH publish  *)
(* on Redis once their transaction is committed (streaming/pipeline.py,    *)
(* api/routes/alerts.py), the web socket that forwards it                  *)
(* (api/routes/realtime.py), and what a browser shows of it                *)
(* (frontend/src/realtime/RealtimeProvider.tsx).                           *)
(*                                                                         *)
(* A publication reaches whoever is subscribed at that moment, and nobody  *)
(* else; the messages of one subscription arrive in order.                 *)
(***************************************************************************)
EXTENDS AlertTriage

CONSTANTS
    Browsers,   \* open dashboards
    MaxEvents,  \* MAX_EVENTS: live events a browser keeps
    MaxAlerts,  \* MAX_ALERTS: alerts a browser keeps
    Plans       \* bounds: how much of everything a behaviour may do

ASSUME FeedAssumption ==
    /\ MaxEvents \in Nat \ {0} /\ MaxAlerts \in Nat \ {0}
    /\ Plans \subseteq [detections : Nat, moves : Nat, quiet : Nat, cuts : Nat, clicks : Nat, tabs : Nat]

VARIABLES
    outbox,    \* alert_payloads of each worker's open transaction
    sending,   \* what each worker still has to publish of a committed batch
    telling,   \* the row each analyst's request has to publish
    socket,    \* the state of each browser's web socket
    inbox,     \* messages on their way to it
    shown,     \* its alerts, newest message first
    events,    \* its live events, newest first
    buffer,    \* events kept back while the view is paused
    paused,    \* whether it is paused
    published, \* events published so far: an event is its number
    untold,    \* history: alerts a browser has a reason not to know the news of
    unheard,   \* history: events it has a reason not to show
    left       \* bound: what is left of the plan

screenVars == <<shown, events, buffer, paused>>
feedVars == <<outbox, sending, telling, socket, inbox, screenVars,
              published, untold, unheard, left>>
allVars == <<vars, feedVars>>

News == [kind : {"alert"}, alert : Alerts, status : Statuses, count : Nat \ {0}]
Batch == [kind : {"events"}]
Numbered == [kind : {"event"}, number : Nat \ {0}]

\* An analyst with nothing to tell tells no news.
ASSUME TellingAssumption == NoPatch \notin News

\* What each part can hold; a browser keeps no more than it is allowed to, and
\* keeps events back only while it is paused.
FeedTypeOK ==
    /\ outbox \in [Workers -> Seq(News)]
    /\ sending \in [Workers -> Seq(News \cup Batch)]
    /\ telling \in [Analysts -> News \cup {NoPatch}]
    /\ socket \in [Browsers -> {"offline", "accepted", "live"}]
    /\ inbox \in [Browsers -> Seq(News \cup Numbered)]
    /\ \A b \in Browsers :
        /\ shown[b] \in Seq(News) /\ Len(shown[b]) <= MaxAlerts
        /\ events[b] \in Seq(1..published) /\ Len(events[b]) <= MaxEvents
        /\ buffer[b] \in Seq(1..published) /\ Len(buffer[b]) <= MaxEvents
        /\ ~paused[b] => buffer[b] = <<>>
        /\ socket[b] = "offline" => inbox[b] = <<>>

FeedInit ==
    /\ Init
    /\ outbox = [w \in Workers |-> <<>>]
    /\ sending = [w \in Workers |-> <<>>]
    /\ telling = [x \in Analysts |-> NoPatch]
    /\ socket = [b \in Browsers |-> "offline"]
    /\ inbox = [b \in Browsers |-> <<>>]
    /\ shown = [b \in Browsers |-> <<>>]
    /\ events = [b \in Browsers |-> <<>>]
    /\ buffer = [b \in Browsers |-> <<>>]
    /\ paused = [b \in Browsers |-> FALSE]
    /\ published = 0
    /\ untold = [b \in Browsers |-> {}]
    /\ unheard = [b \in Browsers |-> {}]
    /\ left \in Plans

Spend(what) == left[what] > 0 /\ left' = [left EXCEPT ![what] = @ - 1]
-----------------------------------------------------------------------------
(***************************************************************************)
(* The worker.                                                             *)
(***************************************************************************)
Told(a, status, count) == [kind |-> "alert", alert |-> a, status |-> status, count |-> count]

\* A batch is processed once the one before is published.
FeedLookup(w) ==
    /\ sending[w] = <<>>
    /\ Lookup(w)
    /\ Spend("detections")
    /\ UNCHANGED <<outbox, sending, telling, socket, inbox, screenVars, published, untold, unheard>>

\* The row the flush has just written, as session.refresh reads it back.
Snapshot(w) ==
    LET a == IF hand[w].found \in Alerts THEN hand[w].found
             ELSE CHOOSE new \in DOMAIN draft'[w] : new \notin DOMAIN draft[w]
    IN  Told(a, draft'[w][a].status, draft'[w][a].count)

FeedApply(w) ==
    /\ Insert(w) \/ Fold(w)
    /\ outbox' = [outbox EXCEPT ![w] = Append(@, Snapshot(w))]
    /\ UNCHANGED <<sending, telling, socket, inbox, screenVars, published, untold, unheard, left>>

Entries(list) == {list[i] : i \in DOMAIN list}
About(messages) == {m.alert : m \in {n \in Entries(messages) : n.kind = "alert"}}

\* News of a row that is written while other news of it waits to be published
\* may be overtaken: no browser can be sure of that alert any more.
Doubt(alerts) == untold' = [b \in Browsers |-> untold[b] \cup alerts]

\* The payloads outlive the transaction that took them.
FeedCommit(w) ==
    /\ Commit(w)
    /\ sending' = [sending EXCEPT ![w] = <<[kind |-> "events"]>> \o outbox[w]]
    /\ outbox' = [outbox EXCEPT ![w] = <<>>]
    /\ Doubt({telling[x].alert : x \in {y \in Analysts : telling[y] # NoPatch}} \cap DOMAIN draft[w])
    /\ UNCHANGED <<telling, socket, inbox, screenVars, published, unheard, left>>

\* Mutant: what was to be published is published although nothing was stored.
FeedRollbackPublishes(w) ==
    /\ Rollback(w)
    /\ sending' = [sending EXCEPT ![w] = outbox[w]]
    /\ outbox' = [outbox EXCEPT ![w] = <<>>]
    /\ UNCHANGED <<telling, socket, inbox, screenVars, published, untold, unheard, left>>

\* The payloads of a transaction that is rolled back are never published.
FeedRollback(w) ==
    /\ Rollback(w)
    /\ outbox' = [outbox EXCEPT ![w] = <<>>]
    /\ UNCHANGED <<sending, telling, socket, inbox, screenVars, published, untold, unheard, left>>

\* A batch of events no rule fires on.
QuietBatch(w) ==
    /\ pc[w] = "next" /\ DOMAIN draft[w] = {} /\ sending[w] = <<>>
    /\ Spend("quiet")
    /\ sending' = [sending EXCEPT ![w] = <<[kind |-> "events"]>>]
    /\ UNCHANGED <<vars, outbox, telling, socket, inbox, screenVars, published, untold, unheard>>

Deaf == {b \in Browsers : socket[b] # "live"}
Broadcast(m) == inbox' = [b \in Browsers |-> IF b \in Deaf THEN inbox[b] ELSE Append(inbox[b], m)]
PublishNews(m) ==
    /\ Broadcast(m)
    /\ untold' = [b \in Browsers |-> untold[b] \cup IF b \in Deaf THEN {m.alert} ELSE {}]
    /\ UNCHANGED <<published, unheard>>
PublishEvents ==
    /\ published' = published + 1
    /\ Broadcast([kind |-> "event", number |-> published'])
    /\ unheard' = [b \in Browsers |-> unheard[b] \cup IF b \in Deaf THEN {published'} ELSE {}]
    /\ UNCHANGED untold

Publish(w) ==
    /\ sending[w] # <<>>
    /\ sending' = [sending EXCEPT ![w] = Tail(@)]
    /\ IF Head(sending[w]).kind = "alert" THEN PublishNews(Head(sending[w])) ELSE PublishEvents
    /\ UNCHANGED <<vars, outbox, telling, socket, screenVars, left>>

\* Redis does not answer: process_batch ends here, with the batch stored.
PublishFails(w) ==
    /\ sending[w] # <<>> /\ Spend("cuts")
    /\ sending' = [sending EXCEPT ![w] = <<>>]
    /\ Doubt(About(sending[w]))
    /\ UNCHANGED <<vars, outbox, telling, socket, inbox, screenVars, published, unheard>>
-----------------------------------------------------------------------------
(***************************************************************************)
(* The PATCH request.                                                      *)
(***************************************************************************)
FeedPatchRead(x) ==
    /\ telling[x] = NoPatch
    /\ PatchRead(x)
    /\ Spend("moves")
    /\ UNCHANGED <<outbox, sending, telling, socket, inbox, screenVars, published, untold, unheard>>

\* A PATCH to the status the alert has already: nothing is written, and the row
\* that was loaded is published all the same.
FeedPatchSame(x) ==
    /\ patch[x] = NoPatch /\ telling[x] = NoPatch
    /\ Spend("moves")
    /\ \E a \in DOMAIN rows :
        telling' = [telling EXCEPT ![x] = Told(a, rows[a].status, rows[a].count)]
    /\ UNCHANGED <<vars, outbox, sending, socket, inbox, screenVars, published, untold, unheard>>

\* The answer is the row as it was loaded, with the new status: the session does
\* not read it again after the commit.
FeedPatchWrite(x) ==
    LET a == patch[x].alert
        overtaken == \/ patch[x].read.count # rows[a].count
                     \/ \E w \in Workers : a \in About(sending[w])
                     \/ \E y \in Analysts : telling[y] # NoPatch /\ telling[y].alert = a
    IN  /\ PatchWrite(x)
        /\ telling' = [telling EXCEPT ![x] = Told(a, patch[x].to, patch[x].read.count)]
        /\ Doubt(IF overtaken THEN {a} ELSE {})
        /\ UNCHANGED <<outbox, sending, socket, inbox, screenVars, published, unheard, left>>

FeedPatchRefused(x) == PatchRefused(x) /\ UNCHANGED feedVars

PublishMove(x) ==
    /\ telling[x] # NoPatch
    /\ telling' = [telling EXCEPT ![x] = NoPatch]
    /\ PublishNews(telling[x])
    /\ UNCHANGED <<vars, outbox, sending, socket, screenVars, left>>

\* Redis does not answer: HTTP 500 for a move that is made.
PublishMoveFails(x) ==
    /\ telling[x] # NoPatch /\ Spend("cuts")
    /\ telling' = [telling EXCEPT ![x] = NoPatch]
    /\ Doubt({telling[x].alert})
    /\ UNCHANGED <<vars, outbox, sending, socket, inbox, screenVars, published, unheard>>
-----------------------------------------------------------------------------
(***************************************************************************)
(* The web socket and the browser.                                         *)
(***************************************************************************)

\* The socket is accepted before the handler subscribes: the browser is "online"
\* and hears nothing yet.
Connect(b) ==
    /\ socket[b] = "offline" /\ Spend("tabs")
    /\ socket' = [socket EXCEPT ![b] = "accepted"]
    /\ UNCHANGED <<vars, outbox, sending, telling, inbox, screenVars, published, untold, unheard>>

Subscribe(b) ==
    /\ socket[b] = "accepted"
    /\ socket' = [socket EXCEPT ![b] = "live"]
    /\ UNCHANGED <<vars, outbox, sending, telling, inbox, screenVars, published, untold, unheard, left>>

InTransit(b) == {m.number : m \in {n \in Entries(inbox[b]) : n.kind = "event"}}

\* What was on its way is lost, and what the browser shows stays on the screen.
Disconnect(b) ==
    /\ socket[b] # "offline" /\ Spend("cuts")
    /\ socket' = [socket EXCEPT ![b] = "offline"]
    /\ inbox' = [inbox EXCEPT ![b] = <<>>]
    /\ untold' = [untold EXCEPT ![b] = @ \cup About(inbox[b])]
    /\ unheard' = [unheard EXCEPT ![b] = @ \cup InTransit(b)]
    /\ UNCHANGED <<vars, outbox, sending, telling, screenVars, published>>

First(list, n) == IF Len(list) > n THEN SubSeq(list, 1, n) ELSE list

\* Mutant: the list is cut at its front.
NewestLast(list) == IF Len(list) > MaxEvents THEN Tail(list) ELSE list

\* Mutant: the list is never cut.
NewestAll(list) == list

Newest(list) == First(list, MaxEvents)

\* Mutant: an alert that is on the screen stays as it is.
ListedOnce(m, list) ==
    IF m.alert \in About(list) THEN list ELSE First(<<m>> \o list, MaxAlerts)

\* The list without what it has of an alert.
Without(a, list) ==
    LET kept[i \in 0..Len(list)] ==
            IF i = 0 THEN <<>>
            ELSE IF list[i].alert = a THEN kept[i - 1] ELSE Append(kept[i - 1], list[i])
    IN  kept[Len(list)]

\* The alert moves to the top with what the message says of it.
Listed(m, list) == First(<<m>> \o Without(m.alert, list), MaxAlerts)

Receive(b) ==
    /\ inbox[b] # <<>>
    /\ inbox' = [inbox EXCEPT ![b] = Tail(@)]
    /\ LET m == Head(inbox[b]) IN
        \/ /\ m.kind = "alert"
           /\ shown' = [shown EXCEPT ![b] = Listed(m, @)]
           /\ UNCHANGED <<events, buffer>>
        \/ /\ m.kind = "event" /\ paused[b]
           /\ buffer' = [buffer EXCEPT ![b] = Newest(<<m.number>> \o @)]
           /\ UNCHANGED <<shown, events>>
        \/ /\ m.kind = "event" /\ ~paused[b]
           /\ events' = [events EXCEPT ![b] = Newest(<<m.number>> \o @)]
           /\ UNCHANGED <<shown, buffer>>
    /\ UNCHANGED <<vars, outbox, sending, telling, socket, paused, published, untold, unheard, left>>

\* A click drops every event that is neither on the screen then nor on its way.
Drop(b, kept) ==
    /\ Spend("clicks")
    /\ events' = [events EXCEPT ![b] = kept]
    /\ buffer' = [buffer EXCEPT ![b] = <<>>]
    /\ unheard' = [unheard EXCEPT ![b] = (1..published) \ (Entries(kept) \cup InTransit(b))]
    /\ UNCHANGED <<vars, outbox, sending, telling, socket, inbox, shown, published, untold>>

Pause(b) ==
    /\ ~paused[b] /\ Spend("clicks")
    /\ paused' = [paused EXCEPT ![b] = TRUE]
    /\ UNCHANGED <<vars, outbox, sending, telling, socket, inbox, shown, events, buffer,
                   published, untold, unheard>>

\* React runs the updater that merges the buffer when it renders, after the
\* click handler has emptied the buffer: what was kept back is not shown.
Resume(b) ==
    /\ paused[b]
    /\ paused' = [paused EXCEPT ![b] = FALSE]
    /\ Drop(b, events[b])

ClearEvents(b) == Drop(b, <<>>) /\ UNCHANGED paused

FeedNext ==
    \/ \E w \in Workers : \/ FeedLookup(w) \/ FeedApply(w) \/ FeedCommit(w) \/ FeedRollback(w)
                          \/ QuietBatch(w) \/ Publish(w) \/ PublishFails(w)
    \/ \E x \in Analysts : \/ FeedPatchRead(x) \/ FeedPatchSame(x) \/ FeedPatchWrite(x)
                           \/ FeedPatchRefused(x) \/ PublishMove(x) \/ PublishMoveFails(x)
    \/ \E b \in Browsers : \/ Connect(b) \/ Subscribe(b) \/ Receive(b) \/ Disconnect(b)
                           \/ Pause(b) \/ Resume(b) \/ ClearEvents(b)

FeedSpec == FeedInit /\ [][FeedNext]_allVars
-----------------------------------------------------------------------------
(***************************************************************************)
(* What the feed promises.                                                 *)
(***************************************************************************)

(***************************************************************************)
(* "PostgreSQL remains the source of truth" (storage/redis_client.py:8):   *)
(* no screen is ahead of it.  Every alert on a screen is in the table,     *)
(* with at least the count shown, and the status shown is one it has or    *)
(* had, although payloads are taken inside the transaction that may still  *)
(* fail (streaming/pipeline.py:114-143).  For one worker.                  *)
(***************************************************************************)
ShownIsCommitted ==
    \A b \in Browsers : \A m \in Entries(shown[b]) :
        /\ m.alert \in DOMAIN rows
        /\ m.count <= rows[m.alert].count
        /\ m.status = "open" \/ \E i \in Moves(m.alert) : audit[i].to = m.status

(***************************************************************************)
(* "The dashboard updates with no polling" (api/routes/realtime.py:4):     *)
(* once no news of an alert is under way, a screen shows the alert as the  *)
(* table has it, unless MAX_ALERTS others pushed it out, or there is a     *)
(* reason: the browser was not subscribed, Redis refused the message, or   *)
(* the row was written again between the snapshot and its publication      *)
(* (streaming/pipeline.py:138-143, api/routes/alerts.py:92-104).           *)
(***************************************************************************)
OnItsWay(b) ==
    About(inbox[b]) \cup (UNION {About(sending[w]) : w \in Workers})
        \cup {telling[x].alert : x \in {y \in Analysts : telling[y] # NoPatch}}

QuietFeedIsCurrent ==
    \A b \in Browsers : \A a \in DOMAIN rows \ (untold[b] \cup OnItsWay(b)) :
        \/ Told(a, rows[a].status, rows[a].count) \in Entries(shown[b])
        \/ Len(shown[b]) = MaxAlerts /\ a \notin About(shown[b])

(***************************************************************************)
(* The live view is the tail of the stream: newest first, none twice, and  *)
(* an event that reached the browser is missing only if a click dropped    *)
(* it, or MAX_EVENTS newer ones are there, whether it is paused or not     *)
(* (RealtimeProvider.tsx:57-68, 107-113).                                  *)
(***************************************************************************)
LiveTail ==
    \A b \in Browsers : LET kept == buffer[b] \o events[b] IN
        /\ \A i, j \in DOMAIN kept : i < j => kept[i] > kept[j]
        /\ \A n \in (1..published) \ (unheard[b] \cup InTransit(b) \cup Entries(kept)) :
            Len(kept) >= MaxEvents /\ kept[MaxEvents] > n
=============================================================================
