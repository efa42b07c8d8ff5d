------------------------------ MODULE Delivery ------------------------------
(***************************************************************************)
(* What a reader may expect of the path from the topic to the database,    *)
(* without workers, offsets, caches or batches: a record that is sent is   *)
(* claimed by somebody, its event is stored, subscribers are told of it,   *)
(* and the record is acknowledged; or it is lost, and then it is known to  *)
(* be.  A record ends with the id of its event, which other records may    *)
(* carry too.                                                              *)
(***************************************************************************)
EXTENDS Integers

VARIABLES
    sent,    \* the records of well-formed events
    claimed, \* events somebody is about to store
    stored,  \* events in the database
    told,    \* events the subscribers were told of
    acked,   \* records that will not be delivered again
    lost     \* records given up, or whose event was

vars == <<sent, claimed, stored, told, acked, lost>>

IdOf(r) == r[3]
RecordsOf(E) == {r \in sent : IdOf(r) \in E}

Init ==
    /\ sent = {} /\ acked = {} /\ lost = {}
    /\ claimed = {} /\ stored = {} /\ told = {}

\* A record of an event that was given up is lost from the start.
Send ==
    /\ \E r \in sent' \ sent : /\ sent' = sent \cup {r}
                               /\ lost' \in {lost, lost \cup {r}}
    /\ UNCHANGED <<claimed, stored, told, acked>>

Claim ==
    /\ \E E \in SUBSET {IdOf(r) : r \in sent} : claimed' = claimed \cup E
    /\ UNCHANGED <<sent, stored, told, acked, lost>>

\* Somebody else may hold a claim on the same event.
Store ==
    /\ \E E \in SUBSET claimed :
        /\ stored' = stored \cup E
        /\ claimed' \in {claimed \ F : F \in SUBSET E}
    /\ UNCHANGED <<sent, told, acked, lost>>

Tell ==
    /\ \E E \in SUBSET stored : told' = told \cup E
    /\ UNCHANGED <<sent, claimed, stored, acked, lost>>

\* Records are given up; with a claim, all records of its event.
Lose ==
    /\ \E E \in SUBSET claimed, F \in SUBSET claimed, R \in SUBSET sent :
        /\ F \subseteq E
        /\ lost' = lost \cup R \cup RecordsOf(E)
        /\ claimed' = claimed \ F
    /\ UNCHANGED <<sent, stored, told, acked>>

\* Nothing is acknowledged that is not taken care of.
Acknowledge ==
    /\ \E R \in SUBSET sent :
        /\ \A r \in R : IdOf(r) \in claimed \cup stored \/ r \in lost
        /\ acked' = acked \cup R
    /\ UNCHANGED <<sent, claimed, stored, told, lost>>

Next == Send \/ Claim \/ Store \/ Tell \/ Lose \/ Acknowledge

Spec == Init /\ [][Next]_vars
=============================================================================
