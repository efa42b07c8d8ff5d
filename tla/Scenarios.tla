----------------------------- MODULE Scenarios -----------------------------
(***************************************************************************)
(* What the simulator puts on the topic: the attack instances of           *)
(* simulator/scenarios/ and the background of generators/normal.py.  All   *)
(* events of an instance are stamped when it is generated, however long    *)
(* they then wait to be sent.                                              *)
(***************************************************************************)
EXTENDS EventSchema

CONSTANTS
    Users,         \* the pool of accounts, a sequence
    HomeOf,        \* _USER_HOME_IP: the workstation of each account
    SecondOf,      \* the second device of each account
    InternalIps, ExternalIps, AttackIp,
    FirewallPorts, \* the ports background flows go to, a set
    ScanPorts,     \* the ports a scan draws, a sequence
    Sizes,         \* by scenario, how many events an instance has
    Chunk          \* bytes_out of a chunk of an exfiltration: {least, most}

Catalogue == {"ssh_brute_force", "credential_attack", "port_scan", "privilege_escalation",
              "data_exfiltration", "sql_attack", "web_attack"}

ASSUME SizesAssumption == \E S \in SUBSET Catalogue : Sizes \in [S -> Nat]

Members(seq) == {seq[i] : i \in DOMAIN seq}

\* make_event: a message whose other fields are empty; its uuid4 is the number
\* under which it is sent.
MakeEvent(now, source_type, event_type, status) ==
    [event_id |-> NoId, timestamp |-> At(now), source |-> source_type,
     source_type |-> source_type, event_type |-> event_type, status |-> status,
     source_ip |-> None, destination_ip |-> None, destination_port |-> <<>>,
     username |-> None, service |-> None, action |-> {"text"}, message |-> {"text"}, bytes_out |-> <<0>>,
     metadata |-> [user_role |-> "user"], extra |-> <<>>]

Login(now, source_type, ok, user, ip) ==
    [MakeEvent(now, source_type,
               IF ok THEN "authentication_success" ELSE "authentication_failure",
               IF ok THEN "success" ELSE "failure")
        EXCEPT !.source_ip = ip, !.username = user]

-----------------------------------------------------------------------------
(* The attack scenarios.  A draw per event is a rotation here, a draw per  *)
(* instance a choice.                                                      *)

\* 15 to 32 failures from one address, every third as root, then often a breach.
SshBruteForce(now, n) ==
    LET user(i) == IF (i - 1) % 3 = 0 THEN "root" ELSE Users[1 + (i % 2)]
        spree == [i \in 1..n |-> Login(now, "linux_server", FALSE, user(i), AttackIp)]
    IN  {spree, Append(spree, Login(now, "linux_server", TRUE, Users[1], AttackIp))}

\* One address, 12 to 24 accounts, once in a while a lucky hit.
CredentialAttack(now, n) ==
    LET spray == [i \in 1..n |-> Login(now, "identity", FALSE, Users[i], AttackIp)]
    IN  {spray, Append(spray, Login(now, "identity", TRUE, Users[1], AttackIp))}

\* 25 to 60 ports of one host, most of them blocked.
PortScan(now, n) ==
    LET probe(i) == IF i % 7 = 1 THEN MakeEvent(now, "firewall", "connection_attempt", "failure")
                    ELSE MakeEvent(now, "firewall", "firewall_deny", "denied")
    IN  {[i \in 1..n |-> [probe(i) EXCEPT !.source_ip = AttackIp,
                                          !.destination_port = <<ScanPorts[i]>>]]}

\* A login, then administrative commands that the host reports.
PrivilegeEscalation(now, n) ==
    {[i \in 1..n |-> IF i = 1 THEN Login(now, "linux_server", TRUE, user, AttackIp)
                     ELSE [MakeEvent(now, "linux_server", "privilege_escalation", "failure")
                              EXCEPT !.source_ip = AttackIp, !.username = user,
                                     !.action = {"text", "command"},
                                     !.message = {"text", "command"}]]
        : user \in {Users[1]}}

\* 120 to 900 MiB to one destination, in chunks of about the same size.
DataExfiltration(now, n) ==
    {[i \in 1..n |-> [MakeEvent(now, "application", "network_flow", "allowed")
                         EXCEPT !.source_ip = AttackIp, !.destination_ip = "outside",
                                !.destination_port = <<443>>, !.bytes_out = <<bytes>>]]
        : bytes \in Chunk}

\* The patterns of RULE-005 each of _MALICIOUS_QUERIES matches; the stacked
\* DROP has no quote before its semicolon and matches none.
MaliciousQueries ==
    {{"text", "tautology", "bulk_read"}, {"text", "union"}, {"text"}, {"text", "schema"},
     {"text", "file_access"}, {"text", "sleep"}, {"text", "stacked"},
     {"text", "tautology", "file_access", "bulk_read"}}
RowCounts == {0, 12000}
Injected(now, type, q, rows) ==
    [MakeEvent(now, "database", type, "success")
        EXCEPT !.source_ip = AttackIp, !.username = "svc_api", !.message = q,
               !.metadata = [query |-> q, rows_returned |-> <<rows>>]]
SqlAttack(now, n) ==
    {[i \in 1..n |-> Injected(now, type, q, rows)]
        : type \in {"db_error", "db_query"}, q \in MaliciousQueries, rows \in RowCounts}

\* Probes of a web server; a path may hold a word like "passwd".
WebAttack(now, n) ==
    {[i \in 1..n |-> [MakeEvent(now, "web_server", "http_request", "error")
                         EXCEPT !.source_ip = AttackIp, !.destination_port = <<443>>,
                                !.action = {"text", "command"}, !.bytes_out = <<1>>]]}

Names == DOMAIN Sizes
Instances(name, now) ==
    LET n == Sizes[name] IN
    CASE name = "ssh_brute_force" -> SshBruteForce(now, n)
      [] name = "credential_attack" -> CredentialAttack(now, n)
      [] name = "port_scan" -> PortScan(now, n)
      [] name = "privilege_escalation" -> PrivilegeEscalation(now, n)
      [] name = "data_exfiltration" -> DataExfiltration(now, n)
      [] name = "sql_attack" -> SqlAttack(now, n)
      [] name = "web_attack" -> WebAttack(now, n)

-----------------------------------------------------------------------------
(* The background. *)

\* Mutant: the addresses are drawn from the whole network.
UserIpsAnywhere(user) == {HomeOf[user], SecondOf[user]} \cup InternalIps

\* An account works from its workstation and now and then a second device.
UserIps(user) == {HomeOf[user], SecondOf[user]}

SshLogin(now) ==
    UNION {{Login(now, "linux_server", ok, u, ip) : ok \in BOOLEAN, ip \in UserIps(u)}
               : u \in Members(Users)}
IdpEvent(now) ==
    UNION {{Login(now, "identity", ok, u, ip) : ok \in BOOLEAN, ip \in UserIps(u)}
               : u \in Members(Users)}
HttpRequest(now) ==
    {[MakeEvent(now, "web_server", "http_request", "success")
        EXCEPT !.source_ip = ip, !.destination_port = <<443>>, !.bytes_out = <<1>>]
        : ip \in InternalIps \cup ExternalIps}
DbQuery(now) ==
    {[MakeEvent(now, "database", "db_query", "success")
        EXCEPT !.source_ip = ip, !.username = "svc_api",
               !.metadata = [query |-> {"text"}, rows_returned |-> <<120>>]]
        : ip \in InternalIps}
Flow(now, type, ip, port) ==
    [MakeEvent(now, "firewall", type, "allowed")
        EXCEPT !.source_ip = ip, !.destination_ip = "inside", !.destination_port = <<port>>,
               !.bytes_out = <<1>>]
Firewall(now) ==
    {Flow(now, type, ip, port)
        : type \in {"firewall_allow", "firewall_deny"}, port \in FirewallPorts,
          ip \in InternalIps \cup ExternalIps}
Dns(now) ==
    {[MakeEvent(now, "dns", "dns_query", "success")
        EXCEPT !.source_ip = ip, !.destination_port = <<53>>] : ip \in InternalIps}
AppEvent(now) ==
    {[MakeEvent(now, "application", "application_event", "success") EXCEPT !.username = u]
        : u \in Members(Users)}
SignOff(now, u, ip) ==
    [MakeEvent(now, "linux_server", "logout", "success") EXCEPT !.source_ip = ip, !.username = u]
Logout(now) ==
    {SignOff(now, u, ip) : u \in Members(Users), ip \in InternalIps}
ScheduledJob(now) ==
    {[MakeEvent(now, "scheduler", "scheduled_job", "success") EXCEPT !.username = "cron"]}

\* normal_event: the mix.
NormalEvent(now) ==
    SshLogin(now) \cup IdpEvent(now) \cup HttpRequest(now) \cup DbQuery(now) \cup Firewall(now)
        \cup Dns(now) \cup AppEvent(now) \cup Logout(now) \cup ScheduledJob(now)
=============================================================================
