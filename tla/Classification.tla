--------------------------- MODULE Classification ---------------------------
(***************************************************************************)
(* How a session becomes a verdict: the protocol handlers log the lines a  *)
(* visitor sends, extract_session_features reads them one by one           *)
(* (features/session.py), evaluate_rules finds the rules of                *)
(* default_rules.yaml whose conditions all hold (rules/engine.py), and     *)
(* summarize_rule_evaluation turns the matches into a score, a level, an   *)
(* actor, an intent and the actions to take (scoring/session.py).  While   *)
(* an SSH shell is open LiveSessionClassifier judges it with six of the    *)
(* rules and slows it down or alerts (realtime.py, ssh_server.py).         *)
(*                                                                         *)
(* A line is a record: `part`, where in its handler it may be sent;        *)
(* `name`, its first word; `arg`, the word a rule can tell apart (a user,  *)
(* a password, a product, a scheme); `has`, which of the extractor's       *)
(* patterns find something in it.  Times are in half seconds, confidences  *)
(* and votes in hundredths, rates and averages rounded down (every rule    *)
(* compares them with a whole number).                                     *)
(*                                                                         *)
(* The specification is VerdictSpec, so that a module may extend this one  *)
(* together with the listener whose sessions it judges.                    *)
(***************************************************************************)
EXTENDS Integers, FiniteSets, FiniteSetsExt

CONSTANTS Protocols,         \* of "tcp_shell", "telnet", "ftp", "http"
          Lines,             \* the lines visitors may send over each of them
          Gaps,              \* half seconds between two lines
          ConnectionCounts,  \* what the database may count for the address
          MaxLines,          \* bound: lines logged in a session
          MaxAttempts,       \* bound: MAX_LOGIN_ATTEMPTS of Telnet
          MaxTicks           \* bound: live classifications of a session

None == -1

ASSUME LinesAssumption == Lines \in [Protocols -> SUBSET
    [part : STRING, name : STRING, arg : STRING, has : SUBSET STRING]]

VARIABLES protocol, at, tries,  \* the handler, and where it is
          seen,                 \* what the extractor's loop has gathered
          clock, decoys,        \* time since the start; decoys surfaced
          ticks, live, delay, alerted,  \* LiveSessionClassifier and its callback
          final,                \* the verdict on the finished session
          sent                  \* history: the lines logged so far

verdictVars == <<protocol, at, tries, seen, clock, decoys, ticks, live, delay,
          alerted, final, sent>>
liveVars == <<ticks, live, delay, alerted>>

-----------------------------------------------------------------------------
(* extract_session_features: the loop's variables and its body.            *)

NothingSeen ==
    [count |-> 0, names |-> {}, first |-> None, last |-> None, auth |-> 0,
     pending |-> {}, tried |-> {}, discovery |-> 0, sensitive |-> 0,
     products |-> {}, schemes |-> {}, flags |-> {}]

Discovery == {"hostname", "id", "ls", "netstat", "ps", "pwd", "ss", "uname", "whoami"}
Exits == {"exit", "logout", "quit"}
Requests == {"get", "post", "head", "put", "delete"}
Methods == Requests \cup {"connect", "options", "patch", "trace"}

(* Mutant: a password line counts as a command. *)
CredentialIsLogin(l) == "login" \in l.has
Credential(l) == l.has \cap {"login", "password"} # {}

\* The login halves of a line: a username (one at most) waits for its
\* password, and the pair is complete when one comes.  FTP sends both as USER
\* and PASS.
IsUser(p, l) == IF p = "ftp" THEN l.name = "user" /\ l.arg # "" ELSE "login" \in l.has
IsPassword(p, l) == IF p = "ftp" THEN l.name = "pass" /\ l.arg # "" ELSE "password" \in l.has

Pending(f, p, l) ==
    IF IsUser(p, l) THEN {l.arg} ELSE IF IsPassword(p, l) THEN {} ELSE f.pending

\* Over HTTP a form body counts even without a readable pair; a query string
\* or an Authorization header only with one.
HttpLogins(l) ==
    IF l.name = "post" THEN IF "form" \in l.has THEN 1 ELSE 0
    ELSE IF l.name \in {"get", "authorization:"} /\ "pair" \in l.has THEN 1 ELSE 0

Logins(p, l) ==
    (IF l.name \in {"user", "pass"} \/ Credential(l) THEN 1 ELSE 0)
        + (IF p = "http" THEN HttpLogins(l) ELSE 0)

\* An echo that prints to the screen and nowhere else.
PlainEcho(l) == l.name = "echo" /\ "elsewhere" \notin l.has

\* What one line adds to the yes/no features.
Flags(p, l) ==
    {x \in {"fetch", "run", "keys", "binary"} : x \in l.has /\ ~Credential(l)}
    \cup (IF Credential(l) THEN {}
          ELSE IF PlainEcho(l) THEN {"echo"}
          ELSE IF l.name \notin Exits THEN {"other"} ELSE {})
    \cup (IF l.name \in Exits THEN {"exit"} ELSE {})
    \cup (IF p = "ftp" THEN l.has \cap {"otherProtocol"} ELSE {})
    \cup (IF p = "http" /\ l.name = "user-agent:" THEN l.has \cap {"scanner"} ELSE {})
    \cup (IF p = "http" /\ l.name \in Methods
          THEN (l.has \cap {"inject"})
               \cup (IF "target" \notin l.has THEN {}
                     ELSE IF l.name = "connect" \/ "absolute" \in l.has THEN {"proxy"}
                     ELSE l.has \cap {"traversal"})
          ELSE {})

Sensitive(p, l) ==
    /\ "sensitive" \in l.has
    /\ l.name = "cat" \/ (p = "http" /\ l.name \in Requests)

(* Mutant: only the last command name is kept. *)
LastName(f, l) == {l.name}
Names(f, l) == f.names \cup {l.name}

Observe(f, p, l, now) ==
    [count |-> f.count + 1,
     names |-> Names(f, l),
     first |-> IF f.first = None THEN now ELSE f.first,
     last |-> now,
     auth |-> f.auth + Logins(p, l),
     pending |-> IF p = "http" THEN {} ELSE Pending(f, p, l),
     tried |-> f.tried \cup (IF p # "http" /\ IsPassword(p, l)
                             THEN {<<user, l.arg>> : user \in f.pending} ELSE {}),
     discovery |-> f.discovery + (IF l.name \in Discovery THEN 1 ELSE 0),
     sensitive |-> f.sensitive + (IF Sensitive(p, l) THEN 1 ELSE 0),
     products |-> f.products \cup (IF p = "http" /\ l.name \in Methods
                                      /\ "target" \in l.has /\ l.arg # ""
                                   THEN {l.arg} ELSE {}),
     schemes |-> f.schemes \cup (IF p = "http" /\ l.name = "authorization:"
                                 THEN {l.arg} ELSE {}),
     flags |-> f.flags \cup Flags(p, l)]

\* A session of no measurable duration counts as one second long.
CommandsPerMinute(count, halves) ==
    IF halves > 0 THEN (count * 120) \div halves ELSE count * 60

AverageInterval(f) ==
    IF f.count < 2 THEN None ELSE (f.last - f.first) \div (2 * (f.count - 1))

Features(f, p, halves, surfaced, connections) ==
    [protocol |-> p,
     command_count |-> f.count,
     commands_per_minute |-> CommandsPerMinute(f.count, halves),
     unique_command_count |-> Cardinality(f.names),
     repeated_command_count |-> f.count - Cardinality(f.names),
     discovery_command_count |-> f.discovery,
     sensitive_file_read_count |-> f.sensitive,
     decoy_files_surfaced_count |-> surfaced,
     exit_command_present |-> "exit" \in f.flags,
     average_inter_command_interval_seconds |-> AverageInterval(f),
     command_names |-> f.names,
     auth_attempt_count |-> f.auth,
     telnet_credentials_tried |-> IF p = "telnet" THEN f.tried ELSE {},
     ftp_other_protocol_probe |-> "otherProtocol" \in f.flags,
     http_known_scanner_user_agent |-> "scanner" \in f.flags,
     http_command_injection_attempt |-> "inject" \in f.flags,
     http_path_traversal_attempt |-> "traversal" \in f.flags,
     http_proxy_request |-> "proxy" \in f.flags,
     http_probe_targets |-> f.products,
     http_auth_schemes |-> f.schemes,
     remote_fetch_and_run_attempt |-> {"fetch", "run"} \subseteq f.flags,
     authorized_keys_write_attempt |-> "keys" \in f.flags,
     system_binary_read_attempt |-> "binary" \in f.flags,
     login_check_only |-> /\ p = "tcp_shell" /\ f.tried # {}
                          /\ "echo" \in f.flags /\ "other" \notin f.flags,
     connection_count_from_same_ip |-> connections]

-----------------------------------------------------------------------------
(* evaluate_rules over default_rules.yaml.                                 *)

Is(field, value) == [field |-> field, op |-> "equals", value |-> value]
AtLeast(field, n) == [field |-> field, op |-> "gte", value |-> n]
AtMost(field, n) == [field |-> field, op |-> "lte", value |-> n]
HasAny(field, S) == [field |-> field, op |-> "contains_any", value |-> S]

Rule(pos, id, actor, confidence, risk, tags, conditions) ==
    [pos |-> pos, id |-> id, actor |-> actor, confidence |-> confidence,
     risk |-> risk, tags |-> tags, conditions |-> conditions]

Tools == {"sqlmap", "nikto", "hydra", "nmap", "masscan", "metasploit", "msfconsole",
          "gobuster", "dirb", "dirsearch", "wfuzz", "burpsuite", "john", "hashcat"}
MiraiPairs == {<<"root", "vizxv">>, <<"root", "xc3511">>, <<"root", "zte521">>}
NotInjected == Is("http_command_injection_attempt", FALSE)

GeneralRules ==
    {Rule(1, "automated_discovery_burst", "automated_scanner", 72, 35, <<"T1087", "T1082">>,
          {AtLeast("commands_per_minute", 20), AtLeast("discovery_command_count", 3),
           Is("exit_command_present", FALSE)}),
     Rule(2, "sensitive_file_probe", "commodity_bot", 78, 55, <<"T1005", "T1552.001">>,
          {AtLeast("sensitive_file_read_count", 1), AtLeast("decoy_files_surfaced_count", 1)}),
     Rule(3, "repeat_connections_same_ip", "brute_force_bot", 75, 55, <<"T1110">>,
          {AtLeast("connection_count_from_same_ip", 5)}),
     Rule(4, "authentication_attempt", "brute_force_bot", 70, 55, <<"T1110">>,
          {AtLeast("auth_attempt_count", 2)}),
     Rule(11, "interactive_low_and_slow", "skilled_human_operator", 64, 45, <<"T1059">>,
          {AtLeast("average_inter_command_interval_seconds", 2),
           AtLeast("unique_command_count", 3), AtLeast("command_count", 4)})}

ShellRules ==
    {Rule(5, "script_kiddie_tool_names", "script_kiddie", 70, 40, <<"T1595", "T1190">>,
          {Is("protocol", "tcp_shell"), HasAny("command_names", Tools)}),
     Rule(6, "ssh_remote_payload_fetch_and_run", "commodity_bot", 90, 90, <<"T1105">>,
          {Is("protocol", "tcp_shell"), Is("remote_fetch_and_run_attempt", TRUE)}),
     Rule(7, "ssh_authorized_key_install", "commodity_bot", 90, 90, <<"T1098.004">>,
          {Is("protocol", "tcp_shell"), Is("authorized_keys_write_attempt", TRUE)}),
     Rule(8, "ssh_system_binary_read", "commodity_bot", 80, 65, <<"T1082">>,
          {Is("protocol", "tcp_shell"), Is("system_binary_read_attempt", TRUE)}),
     Rule(9, "ssh_login_check", "brute_force_bot", 80, 60, <<"T1110.001">>,
          {Is("protocol", "tcp_shell"), Is("login_check_only", TRUE)}),
     Rule(10, "scripted_probe_with_clean_exit", "script_kiddie", 60, 30, <<"T1082", "T1087">>,
          {Is("protocol", "tcp_shell"), AtLeast("discovery_command_count", 2),
           AtLeast("repeated_command_count", 1), Is("exit_command_present", TRUE),
           AtMost("command_count", 8)})}

LoginRules ==
    {Rule(12, "ftp_banner_probe_no_credentials", "automated_scanner", 55, 20, <<"T1595">>,
          {Is("protocol", "ftp"), Is("auth_attempt_count", 0), AtLeast("command_count", 1),
           Is("ftp_other_protocol_probe", FALSE)}),
     Rule(13, "ftp_other_protocol_probe", "automated_scanner", 80, 20, <<"T1046">>,
          {Is("protocol", "ftp"), Is("ftp_other_protocol_probe", TRUE)}),
     Rule(14, "ftp_automated_credential_burst", "brute_force_bot", 75, 50, <<"T1110">>,
          {Is("protocol", "ftp"), AtLeast("auth_attempt_count", 2),
           AtLeast("commands_per_minute", 120)}),
     Rule(15, "telnet_banner_probe_no_credentials", "automated_scanner", 55, 20, <<"T1595">>,
          {Is("protocol", "telnet"), Is("auth_attempt_count", 0), AtLeast("command_count", 1)}),
     Rule(16, "telnet_automated_credential_burst", "brute_force_bot", 80, 55, <<"T1110">>,
          {Is("protocol", "telnet"), AtLeast("auth_attempt_count", 2),
           AtLeast("commands_per_minute", 120)}),
     Rule(17, "mirai_iot_credential_burst", "commodity_bot", 85, 65, <<"T1078.001">>,
          {Is("protocol", "telnet"), HasAny("telnet_credentials_tried", MiraiPairs)})}

HttpRules ==
    {Rule(18, "http_sensitive_path_probe", "commodity_bot", 70, 45, <<"T1552.001">>,
          {Is("protocol", "http"), AtLeast("sensitive_file_read_count", 1),
           Is("http_path_traversal_attempt", FALSE)}),
     Rule(19, "http_credential_harvest_attempt", "brute_force_bot", 72, 50, <<"T1110">>,
          {Is("protocol", "http"), AtLeast("auth_attempt_count", 1)}),
     Rule(20, "http_known_scanner_user_agent", "automated_scanner", 75, 40, <<"T1595">>,
          {Is("protocol", "http"), Is("http_known_scanner_user_agent", TRUE)}),
     Rule(21, "http_command_injection", "commodity_bot", 90, 80, <<"T1190", "T1105">>,
          {Is("protocol", "http"), Is("http_command_injection_attempt", TRUE)}),
     Rule(22, "http_path_traversal", "automated_scanner", 80, 60, <<"T1190">>,
          {Is("protocol", "http"), Is("http_path_traversal_attempt", TRUE)}),
     Rule(23, "http_open_proxy_probe", "automated_scanner", 80, 35, <<"T1090">>,
          {Is("protocol", "http"), Is("http_proxy_request", TRUE)}),
     Rule(24, "http_hikvision_camera_probe", "automated_scanner", 85, 35, <<"T1595.002">>,
          {Is("protocol", "http"), HasAny("http_probe_targets", {"hikvision_camera"}), NotInjected}),
     Rule(25, "http_geoserver_probe", "automated_scanner", 80, 35, <<"T1595.002">>,
          {Is("protocol", "http"), HasAny("http_probe_targets", {"geoserver"}), NotInjected}),
     Rule(26, "http_ai_server_probe", "automated_scanner", 80, 35, <<"T1595.002">>,
          {Is("protocol", "http"), HasAny("http_probe_targets", {"mcp_server", "ai_model_api"}),
           NotInjected}),
     Rule(27, "http_winrm_probe", "automated_scanner", 80, 35, <<"T1592">>,
          {Is("protocol", "http"), HasAny("http_probe_targets", {"winrm"}), NotInjected}),
     Rule(28, "http_windows_signin_probe", "automated_scanner", 80, 35, <<"T1592">>,
          {Is("protocol", "http"), HasAny("http_auth_schemes", {"ntlm", "negotiate"})})}

Rules == GeneralRules \cup ShellRules \cup LoginRules \cup HttpRules
LiveRules == {r \in Rules : r.id \in
    {"automated_discovery_burst", "sensitive_file_probe", "repeat_connections_same_ip",
     "authentication_attempt", "script_kiddie_tool_names", "interactive_low_and_slow"}}

ConditionMatches(features, c) ==
    LET actual == features[c.field]
    IN  CASE c.op = "equals" -> actual = c.value
          [] c.op = "gte" -> actual # None /\ actual >= c.value
          [] c.op = "lte" -> actual # None /\ actual <= c.value
          [] c.op = "contains_any" -> c.value \cap actual # {}

EvaluateRules(features, rules) ==
    {r \in rules : \A c \in r.conditions : ConditionMatches(features, c)}

-----------------------------------------------------------------------------
(* summarize_rule_evaluation: from the set of matched rules to a verdict.  *)

HighRiskScore == 65
Actors == {"automated_scanner", "brute_force_bot", "commodity_bot", "script_kiddie",
           "skilled_human_operator"}
ActorOrder == [automated_scanner |-> 1, brute_force_bot |-> 2, commodity_bot |-> 3,
               script_kiddie |-> 4, skilled_human_operator |-> 5]
SubTechniques == {"T1552.001", "T1098.004", "T1110.001", "T1078.001", "T1595.002"}
Level == [none |-> 0, low |-> 1, medium |-> 2, high |-> 3, critical |-> 4]

Total(op(_), S) == MapThenSumSet(op, S)
TagsOf(r) == {r.tags[i] : i \in DOMAIN r.tags}

\* Python's round: to the nearest, a half to the even neighbour.
Round(n, d) ==
    LET q == n \div d
        r == n % d
    IN  IF 2 * r < d THEN q ELSE IF 2 * r > d THEN q + 1 ELSE q + (q % 2)

CombinedRiskScore(matches) ==
    LET Weight(r) == r.risk * r.confidence
        Confidence(r) == r.confidence
    IN  Round(Total(Weight, matches), Total(Confidence, matches))

Decisive(matches) == {r \in matches : r.risk >= HighRiskScore}
(* Mutant: the generic rules vote as well. *)
EveryoneVotes(matches) == matches
Voters(matches) == IF Decisive(matches) # {} THEN Decisive(matches) ELSE matches

ActorVote(matches) ==
    LET Confidence(r) == r.confidence
        votes == [a \in Actors |-> Total(Confidence, {r \in Voters(matches) : r.actor = a})]
    IN  CHOOSE a \in Actors : \A b \in Actors \ {a} :
            \/ votes[a] > votes[b]
            \/ votes[a] = votes[b] /\ ActorOrder[a] > ActorOrder[b]

RiskLevel(score) ==
    IF score >= 85 THEN "critical"
    ELSE IF score >= HighRiskScore THEN "high"
    ELSE IF score >= 40 THEN "medium"
    ELSE IF score >= 1 THEN "low" ELSE "none"

\* The tag that heads the list: the riskiest rule's, a sub-technique before a
\* general one, then the order of the rule file.
Rank(r, i) ==
    (100 - r.risk) * 1000 + (IF r.tags[i] \in SubTechniques THEN 0 ELSE 500) + r.pos * 10 + i
LeadTag(matches) ==
    LET places == UNION {{<<r, i>> : i \in DOMAIN r.tags} : r \in matches}
        first == CHOOSE x \in places : \A y \in places : Rank(x[1], x[2]) <= Rank(y[1], y[2])
    IN  first[1].tags[first[2]]

\* _behavior_stage_and_intent, as the pair of the two.
StageAndIntent(matches, features) ==
    LET tags == UNION {TagsOf(r) : r \in Voters(matches)}
    IN  IF "T1105" \in tags THEN <<"execution", "payload_delivery">>
        ELSE IF "T1098.004" \in tags THEN <<"persistence", "persistence">>
        ELSE IF tags \cap {"T1552.001", "T1110", "T1110.001", "T1078.001"} # {}
        THEN <<"credential_access", "credential_theft">>
        ELSE IF "T1005" \in tags THEN <<"collection", "data_access">>
        ELSE IF "T1190" \in tags THEN <<"execution", "vulnerability_exploitation">>
        ELSE IF tags \cap {"T1087", "T1082", "T1595", "T1595.002", "T1592", "T1090", "T1046"} # {}
        THEN <<"discovery", "reconnaissance">>
        ELSE IF "T1059" \in tags THEN <<"execution", "interactive_operation">>
        ELSE IF features.sensitive_file_read_count > 0 THEN <<"collection", "data_access">>
        ELSE IF features.discovery_command_count > 0 THEN <<"discovery", "reconnaissance">>
        ELSE IF \E r \in matches : r.id = "interactive_low_and_slow"
        THEN <<"execution", "interactive_operation">>
        ELSE <<"none", "unknown">>

\* delay_seconds of the deception action, in half seconds; 0 is no action.
DeceptionDelay(level) ==
    CASE level = "medium" -> 1 [] level = "high" -> 2 [] level = "critical" -> 4 [] OTHER -> 0

Recommendation(level, stage, intent, surfaced) ==
    IF level \in {"high", "critical"} THEN "escalate_incident_review"
    ELSE IF intent = "credential_theft" THEN "rotate_exposed_credentials"
    ELSE IF intent = "vulnerability_exploitation" THEN "increase_source_monitoring"
    ELSE IF stage = "collection" /\ surfaced > 0 THEN "review_decoy_exposure"
    ELSE IF stage = "discovery" THEN "increase_source_monitoring"
    ELSE IF stage = "execution" THEN "preserve_session_transcript"
    ELSE "increase_source_monitoring"

Status(features, matches) ==
    IF features.command_count < 2
    THEN IF matches # {} THEN "partial" ELSE "insufficient_data"
    ELSE IF matches # {} THEN "complete" ELSE "partial"

NoVerdict ==
    [ids |-> {}, status |-> "insufficient_data", actor |-> "None", risk |-> 0,
     level |-> "none", stage |-> "none", intent |-> "unknown", delay |-> 0,
     alert |-> FALSE, recommendation |-> "None", lead |-> "None"]

Summarize(matches, features) ==
    IF matches = {} THEN [NoVerdict EXCEPT !.status = Status(features, matches)]
    ELSE LET score == CombinedRiskScore(matches)
             level == RiskLevel(score)
             stage == StageAndIntent(matches, features)
         IN  [ids |-> {r.id : r \in matches},
              status |-> Status(features, matches),
              actor |-> ActorVote(matches),
              risk |-> score,
              level |-> level,
              stage |-> stage[1],
              intent |-> stage[2],
              delay |-> DeceptionDelay(level),
              alert |-> level \in {"medium", "high", "critical"},
              recommendation |-> Recommendation(level, stage[1], stage[2],
                                                features.decoy_files_surfaced_count),
              lead |-> LeadTag(matches)]

\* classify_session; a live verdict is always "partial".
ClassifySession(rules, connections, active) ==
    LET features == Features(seen, protocol, clock, decoys, connections)
        summary == Summarize(EvaluateRules(features, rules), features)
    IN  IF active THEN [summary EXCEPT !.status = "partial"] ELSE summary

-----------------------------------------------------------------------------
(* The handlers, as far as what they log and in which order.               *)

First == [tcp_shell |-> "user", telnet |-> "user", ftp |-> "first", http |-> "first"]

VerdictInit ==
    /\ protocol \in Protocols
    /\ at = First[protocol]
    /\ tries = 0 /\ seen = NothingSeen /\ clock = 0 /\ decoys = 0
    /\ ticks = 0 /\ live = NoVerdict /\ delay = 0 /\ alerted = -1
    /\ final = NoVerdict /\ sent = {}

\* log_command, after a pause; once the session has ended nothing is logged.
LogCommand(l, gap) ==
    /\ seen.count < MaxLines
    /\ l.part = at
    /\ clock' = clock + gap
    /\ seen' = Observe(seen, protocol, l, clock + gap)
    /\ sent' = sent \cup {l}
    /\ UNCHANGED <<protocol, liveVars, final>>

\* The username and password of an SSH or Telnet login, logged as what they
\* are; a blank one is not logged.  SSH gets both at once and accepts them,
\* Telnet asks for one after the other and again after every refusal.
AfterPassword ==
    IF protocol = "tcp_shell" THEN "shell"
    ELSE IF tries + 1 < MaxAttempts THEN "user" ELSE "end"

Login ==
    /\ at \in {"user", "password"}
    /\ \/ \E l \in Lines[protocol], gap \in Gaps :
             /\ (IF at = "user" THEN "login" ELSE "password") \in l.has
             /\ protocol = "tcp_shell" /\ at = "password" => gap = 0
             /\ LogCommand(l, gap)
       \/ UNCHANGED <<protocol, seen, sent, clock, liveVars, final>>
    /\ at' = IF at = "user" THEN "password" ELSE AfterPassword
    /\ tries' = IF at = "password" THEN tries + 1 ELSE tries
    /\ UNCHANGED decoys

\* A line typed in the shell.  It may bring a decoy to the screen; exit ends
\* the session.
ShellLine(l, gap) ==
    /\ at = "shell" /\ LogCommand(l, gap)
    /\ at' = IF l.name \in Exits THEN "end" ELSE "shell"
    /\ decoys' \in IF l.name \in {"cat", "ls"} THEN {decoys, 1} ELSE {decoys}
    /\ UNCHANGED tries

\* One USER and one PASS line, or whatever came instead of them.
FtpLine(l, gap) ==
    /\ protocol = "ftp" /\ LogCommand(l, gap)
    /\ at' = IF at = "first" /\ l.name = "user" THEN "second" ELSE "end"
    /\ UNCHANGED <<tries, decoys>>

\* The request line, then its headers at the same moment.
HttpLine(l, gap) ==
    /\ protocol = "http" /\ LogCommand(l, gap)
    /\ at = "headers" => gap = 0
    /\ at' = IF at = "body" THEN "end" ELSE "headers"
    /\ UNCHANGED <<tries, decoys>>

\* Only a POST is read on to its body.
HttpHeadersEnd ==
    /\ at = "headers"
    /\ at' = IF "post" \in seen.names THEN "body" ELSE "end"
    /\ UNCHANGED <<protocol, tries, seen, sent, clock, decoys, liveVars, final>>

\* LiveSessionClassifier.run wakes up: classify the open session, and let
\* handle_live_classification slow it down and alert once per higher level.
LiveTick ==
    /\ at = "shell" /\ ticks < MaxTicks
    /\ ticks' = ticks + 1
    /\ live' = ClassifySession(LiveRules, None, TRUE)
    /\ delay' = IF live'.delay > delay THEN live'.delay ELSE delay
    /\ alerted' = IF live'.alert /\ Level[live'.level] > alerted
                  THEN Level[live'.level] ELSE alerted
    /\ UNCHANGED <<protocol, at, tries, seen, sent, clock, decoys, final>>

\* The connection ends, wherever it was, and the stored record is classified
\* with the count of the address's connections, if the database gave one.
EndSession(connections) ==
    /\ at # "closed" /\ at' = "closed"
    /\ final' = ClassifySession(Rules, connections, FALSE)
    /\ UNCHANGED <<protocol, tries, seen, sent, clock, decoys, liveVars>>

VerdictNext ==
    \/ Login
    \/ \E l \in Lines[protocol], gap \in Gaps :
          ShellLine(l, gap) \/ FtpLine(l, gap) \/ HttpLine(l, gap)
    \/ HttpHeadersEnd
    \/ LiveTick
    \/ \E n \in ConnectionCounts : EndSession(n)

VerdictSpec == VerdictInit /\ [][VerdictNext]_verdictVars

-----------------------------------------------------------------------------
VerdictTypeOK ==
    /\ protocol \in Protocols /\ sent \subseteq Lines[protocol]
    /\ at \in {"user", "password", "shell", "first", "second", "headers", "body", "end", "closed"}
    /\ tries \in 0..MaxAttempts /\ seen.count \in 0..MaxLines /\ decoys \in {0, 1}
    /\ final.risk \in 0..100 /\ live.risk \in 0..100
    /\ final.actor \in Actors \cup {"None"} /\ alerted \in -1..4 /\ delay \in {0, 1, 2, 4}

Final == {r \in Rules : r.id \in final.ids}
\* The commands of a shell.  A typed line that begins with login: or password:
\* is read as half of a login, whoever wrote it.
Typed == {l \in sent : l.part = "shell" /\ ~Credential(l)}

\* A download and its start, on whatever typed lines and in whatever order.
FetchedAndRun ==
    /\ protocol = "tcp_shell"
    /\ \E l \in Typed : "fetch" \in l.has
    /\ \E l \in Typed : "run" \in l.has

\* The intent (_behavior_stage_and_intent): a login that a serious session
\* needed does not make it credential theft, unless a serious rule is about
\* credentials, and a download and its start are the delivery of a payload
\* whatever came with them.  Something is always recommended.
IntentDecides ==
    at = "closed" =>
        /\ Decisive(Final) # {} => final.recommendation # "None"
        /\ Decisive(Final) # {} /\ final.intent = "credential_theft" =>
              \E r \in Decisive(Final) : "T1078.001" \in TagsOf(r)
        /\ FetchedAndRun => final.intent = "payload_delivery"

\* A rule that rates a session high on its own speaks for it, whatever the
\* generic rules add (_actor_vote, _tags_by_seriousness): it names the actor,
\* the intent is its own, its tag leads, and no mix of weaker matches averages
\* the score below the level that alerts.
SeriousDecides ==
    /\ VerdictTypeOK
    /\ at = "closed" /\ Decisive(Final) # {} =>
          /\ final.alert
          /\ \E r \in Decisive(Final) : final.actor = r.actor
          /\ \E r \in Decisive(Final) : final.lead \in TagsOf(r)
    /\ at = "closed" /\ FetchedAndRun => final.actor = "commodity_bot"
    /\ IntentDecides

\* Typed commands that print something to the screen and do nothing else,
\* with or without an exit.
OnlyEchoes ==
    /\ \E l \in Typed : PlainEcho(l)
    /\ \A l \in Typed : PlainEcho(l) \/ l.name \in Exits

\* ssh_login_check names the sessions that logged in with a name and a password
\* and then did nothing but print something to the screen, and no others
\* (features/session.py, login_check_only): no command before or after the
\* echo is overlooked, and no credential is taken for a command.
LoginCheckExact ==
    at = "closed" =>
        /\ "ssh_login_check" \in final.ids =>
              /\ protocol = "tcp_shell" /\ OnlyEchoes
              /\ \E l \in sent : "login" \in l.has
              /\ \E l \in sent : "password" \in l.has
        /\ /\ protocol = "tcp_shell" /\ OnlyEchoes
           /\ \E l \in sent : l.part = "user"
           /\ \E l \in sent : l.part = "password"
           => "ssh_login_check" \in final.ids

\* What the live classifier alerted on is in the stored verdict as well: a
\* live match of a rule about something the visitor did (not about pace or
\* about not having left yet) is never withdrawn by what came after it, and
\* the delay only ever grows.
LiveEvidenceStands ==
    /\ at = "closed" =>
          live.ids \ {"automated_discovery_burst", "interactive_low_and_slow"} \subseteq final.ids
    /\ delay >= live.delay /\ (live.alert => alerted >= Level[live.level])
=============================================================================
