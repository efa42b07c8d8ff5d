--------------------------- MODULE DetectionRules ---------------------------
(***************************************************************************)
(* The seven rules of detection/rules/ as operators: which events a rule   *)
(* applies to, the sliding window it keeps (its key, and the value an      *)
(* event adds), and its verdict on that window.  A verdict is the severity *)
(* of the detection, "none" when the rule stays quiet and "raises" when    *)
(* evaluate() does.                                                        *)
(***************************************************************************)
EXTENDS EventSchema, FiniteSetsExt

CONSTANTS
    Params,          \* _resolve_params(): thresholds and window_seconds by rule
    PrivilegedNames, \* params["privileged_roles"]
    OffHours,        \* ticks between 22:00 and 05:59 UTC
    LargeRowcount    \* params["large_rowcount"]

Quiet == "none"

\* What a rule asks of WindowStore: the key, the member, whether it is added
\* at the event's time or only measured at the wall clock's.
Add(rule, name, entity, value) ==
    [rule |-> rule, key |-> <<name, entity>>, value |-> value, mode |-> "add"]
Measure(rule, name, entity) ==
    [rule |-> rule, key |-> <<name, entity>>, value |-> None, mode |-> "measure"]

Values(W) == {m.value : m \in W}

-----------------------------------------------------------------------------
(* RULE-001, brute force: failed logins per address; a success only looks. *)

BruteForceApplies(e) ==
    e.event_type \in {"authentication_failure", "authentication_success"} /\ e.source_ip # None
BruteForceWindow(e) ==
    IF e.event_type = "authentication_success"
    THEN Measure("RULE-001", "bruteforce", e.source_ip)
    ELSE Add("RULE-001", "bruteforce", e.source_ip, e.username)
\* Mutant: a breach is no more than the failures before it.
BruteForceVerdictHigh(e, W) ==
    IF Cardinality(W) < Params["RULE-001"].max THEN Quiet ELSE "high"
BruteForceVerdict(e, W) ==
    IF Cardinality(W) < Params["RULE-001"].max THEN Quiet
    ELSE IF e.event_type = "authentication_success" THEN "critical" ELSE "high"

(* RULE-002, password spraying: distinct names tried from one address. *)

SprayApplies(e) ==
    e.event_type = "authentication_failure" /\ e.source_ip # None /\ e.username # None
SprayWindow(e) == Add("RULE-002", "spray", e.source_ip, e.username)
SprayVerdict(e, W) ==
    IF Cardinality(Values(W) \ {None}) < Params["RULE-002"].max THEN Quiet ELSE "high"

(* RULE-003, port scan: distinct ports tried from one address. *)

ScanEvents == {"connection_attempt", "firewall_deny", "firewall_allow", "network_flow"}
ScanApplies(e) ==
    e.event_type \in ScanEvents /\ e.source_ip # None /\ e.destination_port # <<>>
ScanWindow(e) == Add("RULE-003", "portscan", e.source_ip, e.destination_port)
ScanVerdict(e, W) ==
    IF Cardinality(Values(W)) < Params["RULE-003"].max THEN Quiet ELSE "high"

(* RULE-004, privilege escalation: an administrative command in the action *)
(* or, without one, in the message, by someone who is no administrator,    *)
(* off hours or reported as such by the host.  A text is the set of what   *)
(* can be found in it, {} when there is none.                              *)

Command == "command"   \* one of _SUSPICIOUS_ACTIONS
EscalationApplies(e) ==
    \/ e.event_type \in {"privilege_escalation", "config_change"}
    \/ /\ e.source_type \notin {"web_server", "firewall", "dns"}
       /\ e.username # None
       /\ Command \in e.action \cup e.message
EscalationVerdict(e) ==
    LET action == IF e.action # {} THEN e.action ELSE e.message
        explicit == e.event_type = "privilege_escalation"
        lowPrivilege == {e.metadata.user_role, e.username} \cap PrivilegedNames = {}
    IN  IF /\ explicit \/ Command \in action
           /\ lowPrivilege \/ e.timestamp \in OffHours \/ explicit
        THEN "high" ELSE Quiet

(* RULE-005, suspicious SQL: patterns in the text of the query, by weight, *)
(* and the number of rows it returned.                                     *)

Strong == {"union", "tautology", "stacked", "file_access", "sleep"}
Weak == {"schema", "bulk_read", "comment"}
SqlApplies(e) == e.event_type \in {"db_query", "db_error"}
SqlVerdict(e) ==
    LET query == IF e.metadata.query # {} THEN e.metadata.query ELSE e.message
        rows == e.metadata.rows_returned
    IN  IF query = {} THEN Quiet
        ELSE IF rows = <<>> THEN "raises"
        ELSE IF query \cap Strong # {} THEN "high"
        ELSE IF query \cap Weak # {} \/ rows[1] >= LargeRowcount THEN "medium"
        ELSE Quiet

(* RULE-006, exfiltration: the bytes one address sends to another. *)

FlowEvents == {"network_flow", "firewall_allow", "http_request"}
ExfilApplies(e) == e.event_type \in FlowEvents /\ e.bytes_out > 0 /\ e.source_ip # None
ExfilWindow(e) ==
    Add("RULE-006", "exfil", <<e.source_ip, e.destination_ip>>, e.bytes_out)
ExfilVerdict(e, W) ==
    LET total == MapThenSumSet(LAMBDA m : m.value, W) IN
    IF total < Params["RULE-006"].max THEN Quiet
    ELSE IF total >= 3 * Params["RULE-006"].max THEN "high" ELSE "medium"

(* RULE-007, authentication anomaly: the addresses one account logs in     *)
(* from; failures are kept apart and never fire.                           *)

GeoApplies(e) ==
    /\ e.event_type \in {"authentication_success", "authentication_failure"}
    /\ e.username # None /\ e.source_ip # None
GeoWindow(e) ==
    Add("RULE-007", IF e.status = "success" THEN "authgeo_ok" ELSE "authgeo_fail",
        e.username, e.source_ip)
GeoVerdict(e, W) ==
    LET distinct == Cardinality(Values(W)) IN
    IF e.status # "success" \/ distinct < Params["RULE-007"].max THEN Quiet
    ELSE IF distinct >= Params["RULE-007"].max + 2 THEN "high" ELSE "medium"

-----------------------------------------------------------------------------
(* The catalogue, RULE_DETECTORS. *)

Rules == {"RULE-001", "RULE-002", "RULE-003", "RULE-004", "RULE-005", "RULE-006", "RULE-007"}

Applies(rule, e) ==
    CASE rule = "RULE-001" -> BruteForceApplies(e)
      [] rule = "RULE-002" -> SprayApplies(e)
      [] rule = "RULE-003" -> ScanApplies(e)
      [] rule = "RULE-004" -> EscalationApplies(e)
      [] rule = "RULE-005" -> SqlApplies(e)
      [] rule = "RULE-006" -> ExfilApplies(e)
      [] rule = "RULE-007" -> GeoApplies(e)

Window(rule, e) ==
    CASE rule = "RULE-001" -> BruteForceWindow(e)
      [] rule = "RULE-002" -> SprayWindow(e)
      [] rule = "RULE-003" -> ScanWindow(e)
      [] rule = "RULE-006" -> ExfilWindow(e)
      [] rule = "RULE-007" -> GeoWindow(e)

Verdict(rule, e, W) ==
    CASE rule = "RULE-001" -> BruteForceVerdict(e, W)
      [] rule = "RULE-002" -> SprayVerdict(e, W)
      [] rule = "RULE-003" -> ScanVerdict(e, W)
      [] rule = "RULE-004" -> EscalationVerdict(e)
      [] rule = "RULE-005" -> SqlVerdict(e)
      [] rule = "RULE-006" -> ExfilVerdict(e, W)
      [] rule = "RULE-007" -> GeoVerdict(e, W)

WindowRules == DOMAIN Params
=============================================================================
