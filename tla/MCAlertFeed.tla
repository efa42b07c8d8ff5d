---------------------------- MODULE MCAlertFeed ----------------------------
(***************************************************************************)
(* A small instance of AlertFeed: a plan for triage alone, one for the     *)
(* alerts on a screen, one for a screen that loses its connection or a     *)
(* message, one for its live events.                                       *)
(***************************************************************************)
EXTENDS AlertFeed

TwoHints == {1, 3}

Plan(d, m, q, c, k, t) == [detections |-> d, moves |-> m, quiet |-> q, cuts |-> c, clicks |-> k, tabs |-> t]
FourPlans == {Plan(3, 3, 0, 0, 0, 0), Plan(2, 2, 0, 0, 0, 2), Plan(2, 1, 0, 1, 0, 2),
              Plan(0, 0, 5, 1, 3, 2)}
=============================================================================
