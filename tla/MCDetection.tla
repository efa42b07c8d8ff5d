---------------------------- MODULE MCDetection ----------------------------
(***************************************************************************)
(* A small instance of Detection.  A tick is 15 seconds; thresholds and    *)
(* the sizes of the attacks are scaled down together (10 failures out of   *)
(* 15 to 3 out of 4, ...), windows are those of core/config.py.            *)
(***************************************************************************)
EXTENDS Detection, TLC

DemoParams == ("RULE-001" :> [max |-> 3, window |-> 4]) @@ ("RULE-002" :> [max |-> 3, window |-> 8])
           @@ ("RULE-003" :> [max |-> 3, window |-> 2]) @@ ("RULE-006" :> [max |-> 5, window |-> 4])
           @@ ("RULE-007" :> [max |-> 3, window |-> 20])
DemoUsers == <<"svc_ci", "svc_backup", "bob", "alice">>
DemoHome == [u \in {"svc_ci", "svc_backup"} |-> "10.svc"] @@ [u \in {"bob", "alice"} |-> "10.bob"]
DemoSecond == [u \in {"svc_ci", "svc_backup"} |-> "10.svc2"] @@ [u \in {"bob", "alice"} |-> "10.bob2"]
DemoPorts == <<21, 22, 23, 25>>
DemoSizes == [ssh_brute_force |-> 4, credential_attack |-> 4, port_scan |-> 4,
              privilege_escalation |-> 3, data_exfiltration |-> 4, sql_attack |-> 1,
              web_attack |-> 2]
\* An attack on a bad day; background; another producer's events, read twice or
\* a window apart.
Budget(t, l, n, f, x, r, m) == [ticks |-> t, launches |-> l, normal |-> n, foreign |-> f,
                                faults |-> x, redeliveries |-> r, room |-> m]
Attacks == Budget(6, 1, 0, 0, 1, 0, 2)
Background == Budget(0, 0, 3, 0, 0, 0, 1)
Others == Budget(2, 0, 0, 2, 1, 1, 2)
Apart == Budget(4, 0, 0, 2, 0, 0, 1)
DemoBudgets == {Attacks, Background, Others, Apart}
=============================================================================
