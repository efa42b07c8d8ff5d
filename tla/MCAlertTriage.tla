--------------------------- MODULE MCAlertTriage ---------------------------
(***************************************************************************)
(* Small instances of AlertTriage.                                         *)
(***************************************************************************)
EXTENDS AlertTriage, TLC

OneHint == {1}

TeamSymmetry == Permutations(Workers) \cup Permutations(Analysts) \cup Permutations(Alerts) \cup Permutations(Keys)
=============================================================================
