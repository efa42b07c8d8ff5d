---------------------------- MODULE MCDashboard ----------------------------
(***************************************************************************)
(* A small instance of Dashboard.  A tick is 10 seconds, a minute is       *)
(* shortened to two of them.                                               *)
(***************************************************************************)
EXTENDS Dashboard

Single == [fresh |-> 1, seen |-> 0, invalid |-> 0]
Mixed == [fresh |-> 2, seen |-> 1, invalid |-> 0]
Rejected == [fresh |-> 0, seen |-> 0, invalid |-> 1]

Budget(t, b, o, d, p, i, r, k) == [ticks |-> t, batches |-> b, outages |-> o, deaths |-> d,
                                   polls |-> p, idles |-> i, run |-> r, kinds |-> k]
\* Two workers on the same baselines; one through many minutes; one whose
\* services fail; one that fails and dies; one that dies, comes back and stays
\* away; a page that asks too often.
One == {CHOOSE w \in Workers : TRUE}
Pair == Budget(2, 3, 0, 0, 0, 1, Workers, {Mixed, Rejected})
Long == Budget(8, 5, 0, 0, 0, 0, One, {Single})
Lone == Budget(3, 3, 1, 0, 0, 0, One, {Mixed})
Torn == Budget(5, 1, 1, 1, 0, 0, One, {Mixed})
Gone == Budget(8, 1, 0, 2, 0, 0, One, {Mixed})
Polls == Budget(3, 0, 1, 0, 7, 0, {}, {})
SmallBudgets == {Pair, Long, Lone, Torn, Gone, Polls}
=============================================================================
