---------------------------- MODULE EventSchema ----------------------------
(***************************************************************************)
(* From a message on the topic to a row of security_events: the            *)
(* normalisation of schemas/event.py with the enumerations of              *)
(* schemas/enums.py, and the columns of models/event.py.                   *)
(*                                                                         *)
(* Text is kept as far as a rule, an identity or a column depends on it: a *)
(* name is a model value or one of Blank and Overlong, an action or a      *)
(* message the set of tell-tale features found in it.  A number is <<n>>,  *)
(* or <<>> when int() refuses the field.                                   *)
(***************************************************************************)
EXTENDS Integers, Sequences, FiniteSets

CONSTANTS
    Addresses,  \* IP addresses ipaddress.ip_address() accepts
    MaxBytes,   \* 2^63 - 1
    Day         \* 86400 seconds, in ticks of the clock

ASSUME DayAssumption == Day \in Nat

None == "none"
Blank == "  "            \* text that strip() leaves nothing of
Overlong == "overlong"   \* a text longer than its column; the mark of an action that is

SourceTypes == {"linux_server", "web_server", "firewall", "database", "application",
                "identity", "dns", "scheduler", "unknown"}
EventTypes ==
    {"authentication_success", "authentication_failure", "logout", "privilege_escalation",
     "firewall_allow", "firewall_deny", "connection_attempt", "dns_query", "network_flow",
     "http_request", "db_query", "db_error", "application_event", "scheduled_job",
     "config_change", "unknown"}
Statuses == {"success", "failure", "allowed", "denied", "blocked", "error", "info"}

-----------------------------------------------------------------------------
(* The validators of SecurityEvent. *)

\* strip(), cut off at the limit, nothing for what is blank.  The limit is 512
\* characters, so what is longer than its column stays Overlong.
Clip(s) == IF s = Blank THEN None ELSE s

\* Mutant: what is left of a blank name is kept.
ClipSourceOnly(s) == Clip(s)

\* The host names itself; one that does not is "unknown".
ClipSource(s) == IF Clip(s) = None THEN "unknown" ELSE Clip(s)

CoerceIp(ip) == IF ip \in Addresses THEN ip ELSE None
MaxPort == 65535
ValidatePort(port) == IF port # <<>> /\ port[1] \in 0..MaxPort THEN port ELSE <<>>
ValidateBytes(n) == IF n = <<>> \/ n[1] < 0 THEN 0
                    ELSE IF n[1] > MaxBytes THEN MaxBytes ELSE n[1]
CoerceEnum(v, Enum, default) == IF v \in Enum THEN v ELSE default
CoerceStatus(v) == IF v = None THEN None ELSE CoerceEnum(v, Statuses, "info")

\* A timestamp is an instant, nothing, or garbage, which stands for whatever a
\* validator raises on; nothing else rejects an event.
At(t) == [given |-> "instant", at |-> t]
NoTimestamp == [given |-> "nothing", at |-> 0]
Garbage == [given |-> "garbage", at |-> 0]
Accepted(raw) == raw.timestamp.given # "garbage"
NormalizeTimestamp(ts, now) ==
    IF ts.given = "nothing" \/ ts.at - now > Day THEN now ELSE ts.at

\* Mutant: an id that is no UUID is replaced by a new one.
EventIdOrNew(raw, fresh) ==
    IF raw.event_id.form = "uuid" THEN raw.event_id ELSE [form |-> "uuid4", n |-> fresh]

\* A UUID is kept, any other id is hashed to one (uuid5), an event without one
\* gets a new one (uuid4) each time it is read.
NoId == [form |-> "missing", n |-> 0]
EventId(raw, fresh) ==
    CASE raw.event_id.form = "uuid" -> raw.event_id
      [] raw.event_id.form = "text" -> [form |-> "uuid5", n |-> raw.event_id.n]
      [] raw.event_id.form = "missing" -> [form |-> "uuid4", n |-> fresh]

\* metadata, with the unknown fields of the message added where they do not
\* hide one of its own.
Missing == [user_role |-> None, query |-> {}, rows_returned |-> <<0>>]
Metadata(raw) == [key \in DOMAIN Missing |->
                     IF key \in DOMAIN raw.metadata THEN raw.metadata[key]
                     ELSE IF key \in DOMAIN raw.extra THEN raw.extra[key] ELSE Missing[key]]

FromRaw(raw, now, fresh) ==
    [event_id         |-> EventId(raw, fresh),
     timestamp        |-> NormalizeTimestamp(raw.timestamp, now),
     source           |-> ClipSource(raw.source),
     source_type      |-> CoerceEnum(raw.source_type, SourceTypes, "unknown"),
     event_type       |-> CoerceEnum(raw.event_type, EventTypes, "unknown"),
     source_ip        |-> CoerceIp(raw.source_ip),
     destination_ip   |-> CoerceIp(raw.destination_ip),
     destination_port |-> ValidatePort(raw.destination_port),
     username         |-> Clip(raw.username),
     service          |-> Clip(raw.service),
     action           |-> raw.action,
     message          |-> raw.message,
     status           |-> CoerceStatus(raw.status),
     bytes_out        |-> ValidateBytes(raw.bytes_out),
     metadata         |-> Metadata(raw)]

-----------------------------------------------------------------------------
(* The row. *)

RowFromEvent(e) == [id |-> e.event_id, source |-> e.source, username |-> e.username,
                    service |-> e.service, action |-> e.action]

\* source is not null; source, username and action are VARCHAR(255), service is
\* VARCHAR(128).  Every other column holds what its validator lets through:
\* addresses have no IPv6 scope id here, texts no character PostgreSQL refuses.
Fits(row) ==
    /\ row.source # None
    /\ Overlong \notin {row.source, row.username, row.service} \cup row.action
=============================================================================
