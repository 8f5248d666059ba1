--------------------------- MODULE SshServerProofs ---------------------------
(***************************************************************************)
(* The SSH listener for any number of connections, channels and commands:  *)
(* its slots are exact, each connection is logged once, and its record     *)
(* tells truthfully whether it reached a shell.  The inductive invariant   *)
(* is SshInv.                                                              *)
(*                                                                         *)
(* The second part is about the verdicts of the sessions it logs: what     *)
(* LiveSessionClassifier alerted on while a shell was open stays in the    *)
(* stored verdict, ssh_login_check is exact, and a rule rated high decides *)
(* the intent; and one rule about Telnet never matches.  Those theorems    *)
(* are about Classification, for any lines, pauses, connection counts and  *)
(* bounds; the verdict reads nothing of the listener's state.              *)
(***************************************************************************)
EXTENDS SshServer, Classification, FiniteSetTheorems, TLAPS

HasShell(c) == \E h \in Channels : ConnOf[h] = c /\ shell[h] # "none"

(* The stage is "shell" from the first handle_shell on, and only a         *)
(* connection that was let in has one.                                     *)
StageInv ==
    \A c \in Conns :
        /\ stage[c] = "shell" <=> HasShell(c)
        /\ stage[c] # "none" => phase[c] \in {"open", "lost"}

(* One line for each connection that was finalized, with its stage; and    *)
(* both ends of a connection finalize it.                                  *)
LogInv ==
    \A c \in Conns :
        /\ writes[c] = IF finalized[c] THEN 1 ELSE 0
        /\ stage[c] # "none" /\ phase[c] = "lost" => finalized[c]
        /\ (\E h \in Channels : ConnOf[h] = c /\ shell[h] = "done") => finalized[c]
        /\ record[c] # NoRecord => /\ record[c].stage = stage[c]
                                   /\ stage[c] = "shell" \/ phase[c] = "lost"

(* Once shutdown has come to its aborts nobody is admitted, and when it is *)
(* over nobody is left.                                                    *)
ListenerInv ==
    /\ listener \in {"aborting", "down"} =>
           \A c \in Conns : phase[c] \in Open => c \in aborted
    /\ listener = "down" => \A c \in Conns : phase[c] \notin Open

SshInv == SlotsExact /\ StageInv /\ LogInv /\ ListenerInv

(* What a connection closes with is a stage other than "shell".            *)
LEMMA StageAtCloseType ==
    ASSUME NEW c, NEW loss PROVE StageAtClose(c, loss) \in Stages \ {"shell"}
BY DEF StageAtClose, Stages

(* Releasing a slot never goes below zero.                                 *)
LEMMA MaxZero ==
    ASSUME NEW n \in Nat
    PROVE  Max({0, n - 1}) = IF n = 0 THEN 0 ELSE n - 1
<1>. DEFINE m == IF n = 0 THEN 0 ELSE n - 1
<1>1. m \in {0, n - 1} /\ \A x \in {0, n - 1} : m >= x
  OBVIOUS
<1>2. \A k \in {0, n - 1} : (\A x \in {0, n - 1} : k >= x) => k = m
  OBVIOUS
<1>. HIDE DEF m
<1>3. Max({0, n - 1}) = m
  BY <1>1, <1>2 DEF Max
<1>. QED
  BY <1>3 DEF m

(* What _finalize writes is a record.                                      *)
LEMMA FinalizeType ==
    ASSUME TypeOK, NEW c \in Conns, NEW reason \in Reasons, NEW st \in Stages,
           NEW n \in 0..MaxCommands, Finalize(c, reason, st, n)
    PROVE  /\ finalized' \in [Conns -> BOOLEAN]
           /\ record' \in [Conns -> {NoRecord} \cup
                             [reason : Reasons, stage : Stages, commands : 0..MaxCommands]]
           /\ writes' \in [Conns -> Nat]
<1>1. [reason |-> reason, stage |-> st, commands |-> n]
         \in [reason : Reasons, stage : Stages, commands : 0..MaxCommands]
  OBVIOUS
<1>. DEFINE Records == [reason : Reasons, stage : Stages, commands : 0..MaxCommands]
            new == [reason |-> reason, stage |-> st, commands |-> n]
<1>2. new \in Records /\ record \in [Conns -> {NoRecord} \cup Records]
  BY <1>1 DEF TypeOK
<1>3. \/ UNCHANGED <<finalized, record, writes>>
      \/ /\ finalized' = [finalized EXCEPT ![c] = TRUE]
         /\ record' = [record EXCEPT ![c] = new]
         /\ writes' = [writes EXCEPT ![c] = @ + 1]
  BY DEF Finalize
<1>. HIDE DEF Records, new
<1>4. record' \in [Conns -> {NoRecord} \cup Records]
  BY <1>2, <1>3
<1>5. finalized \in [Conns -> BOOLEAN] /\ writes \in [Conns -> Nat]
  BY DEF TypeOK
<1>6. finalized' \in [Conns -> BOOLEAN]
  BY <1>3, <1>5
<1>7. writes' \in [Conns -> Nat]
  BY <1>3, <1>5
<1>. QED
  BY <1>4, <1>6, <1>7 DEF Records

(* Every step keeps the types.                                             *)
LEMMA TypeStep ==
    ASSUME TypeOK, StageInv, [Next]_vars
    PROVE  TypeOK'
<1>. USE SshConstants DEF TypeOK, Open, listenerVars, slotVars, connVars, shellVars,
         logVars
<1>1. ASSUME NEW c \in Conns, Admit(c) PROVE TypeOK'
  BY <1>1 DEF Admit
<1>2. ASSUME NEW c \in Conns, Refuse(c) PROVE TypeOK'
  BY <1>2 DEF Refuse
<1>3. ASSUME NEW c \in Conns, Version(c) PROVE TypeOK'
  BY <1>3 DEF Version
<1>4. ASSUME NEW c \in Conns, BeginAuth(c) PROVE TypeOK'
  BY <1>4 DEF BeginAuth
<1>5. ASSUME NEW c \in Conns, NEW n \in 0..2, ValidatePassword(c, n) PROVE TypeOK'
  BY <1>5 DEF ValidatePassword
<1>6. ASSUME NEW c \in Conns, PasswordAccepted(c) PROVE TypeOK'
  BY <1>6 DEF PasswordAccepted
<1>7. ASSUME NEW c \in Conns, NEW loss \in Losses, ConnectionLost(c, loss) PROVE TypeOK'
  <2>1. StageClosed(c, loss) \in Stages
    BY StageAtCloseType DEF StageClosed
  <2>2. EndReasonAtClose(c, loss) \in Reasons
    BY DEF EndReasonAtClose, Reasons
  <2>3. Max({0, count - 1}) \in Nat
    <3>1. count \in Nat
      OBVIOUS
    <3>2. Max({0, count - 1}) = IF count = 0 THEN 0 ELSE count - 1
      BY <3>1, MaxZero
    <3>. QED
      BY <3>1, <3>2
  <2>4. /\ finalized' \in [Conns -> BOOLEAN] /\ writes' \in [Conns -> Nat]
        /\ record' \in [Conns -> {NoRecord} \cup
                          [reason : Reasons, stage : Stages, commands : 0..MaxCommands]]
    BY <1>7, <2>1, <2>2, FinalizeType DEF ConnectionLost
  <2>. QED
    BY <1>7, <2>1, <2>3, <2>4 DEF ConnectionLost
<1>8. ASSUME NEW c \in Conns, RefusedLost(c) PROVE TypeOK'
  BY <1>8 DEF RefusedLost
<1>9. ASSUME NEW h \in Channels, OpenShell(h) PROVE TypeOK'
  BY <1>9 DEF OpenShell, Stages
<1>10. ASSUME NEW h \in Channels, Command(h) PROVE TypeOK'
  BY <1>10 DEF Command
<1>11. ASSUME NEW h \in Channels, NEW reason \in Reasons, LastCommand(h, reason) PROVE TypeOK'
  BY <1>11 DEF LastCommand
<1>12. ASSUME NEW h \in Channels, NEW reason \in Reasons, ShellEnds(h, reason) PROVE TypeOK'
  BY <1>12 DEF ShellEnds
<1>13. ASSUME NEW h \in Channels, ShellFinish(h) PROVE TypeOK'
  <2>1. ConnOf[h] \in Conns /\ stage[ConnOf[h]] = "shell"
    BY <1>13 DEF ShellFinish, StageInv, HasShell
  <2>2. /\ finalized' \in [Conns -> BOOLEAN] /\ writes' \in [Conns -> Nat]
        /\ record' \in [Conns -> {NoRecord} \cup
                          [reason : Reasons, stage : Stages, commands : 0..MaxCommands]]
    BY <1>13, <2>1, FinalizeType DEF ShellFinish, Stages
  <2>. QED
    BY <1>13, <2>1, <2>2 DEF ShellFinish
<1>14. ASSUME Close PROVE TypeOK'
  BY <1>14 DEF Close
<1>15. ASSUME Abort PROVE TypeOK'
  BY <1>15 DEF Abort
<1>16. ASSUME Down PROVE TypeOK'
  BY <1>16 DEF Down
<1>17. CASE UNCHANGED vars
  BY <1>17 DEF vars
<1>. QED
  BY <1>1, <1>2, <1>3, <1>4, <1>5, <1>6, <1>7, <1>8, <1>9, <1>10, <1>11, <1>12, <1>13, <1>14, <1>15,
     <1>16, <1>17 DEF Next

(* Stages and shells go together.                                          *)
LEMMA StageStep ==
    ASSUME TypeOK, StageInv, [Next]_vars
    PROVE  StageInv'
<1>. USE SshConstants DEF TypeOK, StageInv, HasShell, Open, listenerVars, slotVars, connVars, shellVars,
         logVars
<1>1. ASSUME NEW c \in Conns, Admit(c) PROVE StageInv'
  BY <1>1 DEF Admit
<1>2. ASSUME NEW c \in Conns, Refuse(c) PROVE StageInv'
  BY <1>2 DEF Refuse
<1>3. ASSUME NEW c \in Conns, Version(c) PROVE StageInv'
  BY <1>3 DEF Version
<1>4. ASSUME NEW c \in Conns, BeginAuth(c) PROVE StageInv'
  BY <1>4 DEF BeginAuth
<1>5. ASSUME NEW c \in Conns, NEW n \in 0..2, ValidatePassword(c, n) PROVE StageInv'
  BY <1>5 DEF ValidatePassword
<1>6. ASSUME NEW c \in Conns, PasswordAccepted(c) PROVE StageInv'
  BY <1>6 DEF PasswordAccepted
<1>7. ASSUME NEW c \in Conns, NEW loss \in Losses, ConnectionLost(c, loss) PROVE StageInv'
  <2>1. StageClosed(c, loss) = "shell" <=> stage[c] = "shell"
    BY StageAtCloseType DEF StageClosed
  <2>. QED
    BY <1>7, <2>1 DEF ConnectionLost
<1>8. ASSUME NEW c \in Conns, RefusedLost(c) PROVE StageInv'
  BY <1>8 DEF RefusedLost
<1>9. ASSUME NEW h \in Channels, OpenShell(h) PROVE StageInv'
  BY <1>9 DEF OpenShell
<1>10. ASSUME NEW h \in Channels, Command(h) PROVE StageInv'
  BY <1>10 DEF Command
<1>11. ASSUME NEW h \in Channels, NEW reason \in Reasons, LastCommand(h, reason) PROVE StageInv'
  BY <1>11 DEF LastCommand
<1>12. ASSUME NEW h \in Channels, NEW reason \in Reasons, ShellEnds(h, reason) PROVE StageInv'
  BY <1>12 DEF ShellEnds
<1>13. ASSUME NEW h \in Channels, ShellFinish(h) PROVE StageInv'
  BY <1>13 DEF ShellFinish
<1>14. ASSUME Close PROVE StageInv'
  BY <1>14 DEF Close
<1>15. ASSUME Abort PROVE StageInv'
  BY <1>15 DEF Abort
<1>16. ASSUME Down PROVE StageInv'
  BY <1>16 DEF Down
<1>17. CASE UNCHANGED vars
  BY <1>17 DEF vars
<1>. QED
  BY <1>1, <1>2, <1>3, <1>4, <1>5, <1>6, <1>7, <1>8, <1>9, <1>10, <1>11, <1>12, <1>13, <1>14, <1>15,
     <1>16, <1>17 DEF Next

(* Each connection is finalized once.                                      *)
LEMMA LogStep ==
    ASSUME TypeOK, StageInv, LogInv, [Next]_vars
    PROVE  LogInv'
<1>. USE SshConstants DEF TypeOK, LogInv, Finalize, listenerVars, slotVars, connVars, shellVars, logVars
<1>1. ASSUME NEW c \in Conns, Admit(c) PROVE LogInv'
  BY <1>1 DEF Admit
<1>2. ASSUME NEW c \in Conns, Refuse(c) PROVE LogInv'
  BY <1>2 DEF Refuse
<1>3. ASSUME NEW c \in Conns, Version(c) PROVE LogInv'
  BY <1>3 DEF Version
<1>4. ASSUME NEW c \in Conns, BeginAuth(c) PROVE LogInv'
  BY <1>4 DEF BeginAuth
<1>5. ASSUME NEW c \in Conns, NEW n \in 0..2, ValidatePassword(c, n) PROVE LogInv'
  BY <1>5 DEF ValidatePassword
<1>6. ASSUME NEW c \in Conns, PasswordAccepted(c) PROVE LogInv'
  BY <1>6 DEF PasswordAccepted
<1>7. ASSUME NEW c \in Conns, NEW loss \in Losses, ConnectionLost(c, loss) PROVE LogInv'
  <2>1. /\ phase' = [phase EXCEPT ![c] = "lost"]
        /\ stage' = [stage EXCEPT ![c] = StageClosed(c, loss)]
        /\ UNCHANGED shell
        /\ phase[c] # "lost"
    BY <1>7 DEF ConnectionLost, Open
  <2>2. stage[c] = "none" \/ StageClosed(c, loss) = stage[c]
    BY DEF StageClosed
  <2>3. CASE finalized[c]
    BY <1>7, <2>1, <2>2, <2>3 DEF ConnectionLost, StageInv
  <2>4. CASE ~finalized[c]
    BY <1>7, <2>1, <2>4 DEF ConnectionLost
  <2>. QED
    BY <2>3, <2>4
<1>8. ASSUME NEW c \in Conns, RefusedLost(c) PROVE LogInv'
  BY <1>8 DEF RefusedLost, StageInv
<1>9. ASSUME NEW h \in Channels, OpenShell(h) PROVE LogInv'
  BY <1>9 DEF OpenShell, StageInv
<1>10. ASSUME NEW h \in Channels, Command(h) PROVE LogInv'
  BY <1>10 DEF Command
<1>11. ASSUME NEW h \in Channels, NEW reason \in Reasons, LastCommand(h, reason) PROVE LogInv'
  BY <1>11 DEF LastCommand
<1>12. ASSUME NEW h \in Channels, NEW reason \in Reasons, ShellEnds(h, reason) PROVE LogInv'
  BY <1>12 DEF ShellEnds
<1>13. ASSUME NEW h \in Channels, ShellFinish(h) PROVE LogInv'
  <2>1. ConnOf[h] \in Conns /\ stage[ConnOf[h]] = "shell"
    BY <1>13 DEF ShellFinish, StageInv, HasShell
  <2>. QED
    BY <1>13, <2>1 DEF ShellFinish
<1>14. ASSUME Close PROVE LogInv'
  BY <1>14 DEF Close
<1>15. ASSUME Abort PROVE LogInv'
  BY <1>15 DEF Abort
<1>16. ASSUME Down PROVE LogInv'
  BY <1>16 DEF Down
<1>17. CASE UNCHANGED vars
  BY <1>17 DEF vars
<1>. QED
  BY <1>1, <1>2, <1>3, <1>4, <1>5, <1>6, <1>7, <1>8, <1>9, <1>10, <1>11, <1>12, <1>13, <1>14, <1>15,
     <1>16, <1>17 DEF Next

(* Shutdown aborts whoever is left.                                        *)
LEMMA ListenerStep ==
    ASSUME TypeOK, SlotsExact, ListenerInv, [Next]_vars
    PROVE  ListenerInv'
<1>. USE SshConstants DEF TypeOK, ListenerInv, Open, listenerVars, slotVars, connVars, shellVars, logVars
<1>1. ASSUME NEW c \in Conns, Admit(c) PROVE ListenerInv'
  BY <1>1 DEF Admit
<1>2. ASSUME NEW c \in Conns, Refuse(c) PROVE ListenerInv'
  BY <1>2 DEF Refuse
<1>3. ASSUME NEW c \in Conns, Version(c) PROVE ListenerInv'
  BY <1>3 DEF Version
<1>4. ASSUME NEW c \in Conns, BeginAuth(c) PROVE ListenerInv'
  BY <1>4 DEF BeginAuth
<1>5. ASSUME NEW c \in Conns, NEW n \in 0..2, ValidatePassword(c, n) PROVE ListenerInv'
  BY <1>5 DEF ValidatePassword
<1>6. ASSUME NEW c \in Conns, PasswordAccepted(c) PROVE ListenerInv'
  BY <1>6 DEF PasswordAccepted
<1>7. ASSUME NEW c \in Conns, NEW loss \in Losses, ConnectionLost(c, loss) PROVE ListenerInv'
  BY <1>7 DEF ConnectionLost
<1>8. ASSUME NEW c \in Conns, RefusedLost(c) PROVE ListenerInv'
  BY <1>8 DEF RefusedLost
<1>9. ASSUME NEW h \in Channels, OpenShell(h) PROVE ListenerInv'
  BY <1>9 DEF OpenShell
<1>10. ASSUME NEW h \in Channels, Command(h) PROVE ListenerInv'
  BY <1>10 DEF Command
<1>11. ASSUME NEW h \in Channels, NEW reason \in Reasons, LastCommand(h, reason) PROVE ListenerInv'
  BY <1>11 DEF LastCommand
<1>12. ASSUME NEW h \in Channels, NEW reason \in Reasons, ShellEnds(h, reason) PROVE ListenerInv'
  BY <1>12 DEF ShellEnds
<1>13. ASSUME NEW h \in Channels, ShellFinish(h) PROVE ListenerInv'
  BY <1>13 DEF ShellFinish
<1>14. ASSUME Close PROVE ListenerInv'
  BY <1>14 DEF Close
<1>15. ASSUME Abort PROVE ListenerInv'
  BY <1>15 DEF Abort, SlotsExact
<1>16. ASSUME Down PROVE ListenerInv'
  BY <1>16 DEF Down
<1>17. CASE UNCHANGED vars
  BY <1>17 DEF vars
<1>. QED
  BY <1>1, <1>2, <1>3, <1>4, <1>5, <1>6, <1>7, <1>8, <1>9, <1>10, <1>11, <1>12, <1>13, <1>14, <1>15,
     <1>16, <1>17 DEF Next

(* A slot is taken and given back with the connection that holds it.       *)
LEMMA SlotsStep ==
    ASSUME SlotsExact, TypeOK', [Next]_vars
    PROVE  SlotsExact'
<1>. DEFINE Slots == /\ active = {c \in Conns : phase[c] \in Open}
                     /\ count = Cardinality(active)
                     /\ count <= MaxConnections
<1>. USE SshConstants DEF SlotsExact, TypeOK, Open, listenerVars, slotVars, connVars
<1>1. IsFiniteSet(active)
  BY FS_Subset
<1>2. ASSUME NEW c \in Conns, Admit(c) PROVE Slots'
  <2>1. c \notin active /\ active' = active \cup {c}
    BY <1>2 DEF Admit
  <2>2. Cardinality(active') = count + 1
    BY <1>1, <2>1, FS_AddElement
  <2>3. active' = {d \in Conns : phase'[d] \in Open}
    BY <1>2, <2>1 DEF Admit
  <2>. QED
    BY <1>2, <2>2, <2>3 DEF Admit
<1>3. ASSUME NEW c \in Conns, NEW loss \in Losses, ConnectionLost(c, loss) PROVE Slots'
  <2>1. c \in active /\ active' = active \ {c}
    BY <1>3 DEF ConnectionLost
  <2>2. Cardinality(active') = count - 1 /\ count # 0
    BY <1>1, <2>1, FS_RemoveElement, FS_EmptySet
  <2>3. count' = count - 1
    <3>1. count \in Nat
      OBVIOUS
    <3>2. Max({0, count - 1}) = IF count = 0 THEN 0 ELSE count - 1
      BY <3>1, MaxZero
    <3>. QED
      BY <1>3, <2>2, <3>2 DEF ConnectionLost
  <2>4. active' = {d \in Conns : phase'[d] \in Open}
    BY <1>3, <2>1 DEF ConnectionLost
  <2>. QED
    BY <2>2, <2>3, <2>4
<1>4. ASSUME UNCHANGED <<count, active>>,
             \A c \in Conns : phase'[c] \in Open <=> phase[c] \in Open
      PROVE  Slots'
  BY <1>4
<1>5. ASSUME NEW c \in Conns, \/ Refuse(c) \/ Version(c) \/ BeginAuth(c) \/ PasswordAccepted(c)
                             \/ RefusedLost(c) \/ \E n \in 0..2 : ValidatePassword(c, n)
      PROVE  Slots'
  <2>1. /\ UNCHANGED <<count, active>>
        /\ \A d \in Conns : phase'[d] \in Open <=> phase[d] \in Open
    BY <1>5 DEF Refuse, Version, BeginAuth, PasswordAccepted, RefusedLost, ValidatePassword
  <2>. QED
    BY <1>4, <2>1
<1>6. ASSUME NEW h \in Channels, NEW reason \in Reasons,
             \/ OpenShell(h) \/ Command(h) \/ LastCommand(h, reason) \/ ShellEnds(h, reason)
             \/ ShellFinish(h)
      PROVE  Slots'
  BY <1>4, <1>6 DEF OpenShell, Command, LastCommand, ShellEnds, ShellFinish
<1>7. CASE Close \/ Abort \/ Down \/ UNCHANGED vars
  BY <1>4, <1>7 DEF Close, Abort, Down, vars
<1>8. Slots'
  BY <1>2, <1>3, <1>5, <1>6, <1>7 DEF Next, Reasons
<1>. QED
  BY <1>8

(* The initial states satisfy every part of the invariant.                 *)
LEMMA InitInv == Init => SshInv
<1>. SUFFICES ASSUME Init PROVE SshInv
  OBVIOUS
<1>1. Cardinality({}) = 0
  BY FS_EmptySet
<1>2. SlotsExact
  BY <1>1, SshConstants DEF Init, SlotsExact, TypeOK, Open, Reasons
<1>. QED
  BY <1>2 DEF Init, SshInv, StageInv, HasShell, LogInv, ListenerInv

(* The invariant is inductive.                                             *)
LEMMA SshStep == SshInv /\ [Next]_vars => SshInv'
<1>. SUFFICES ASSUME SshInv, [Next]_vars PROVE SshInv'
  OBVIOUS
<1>1. TypeOK
  BY DEF SshInv, SlotsExact
<1>. QED
  BY <1>1, TypeStep, SlotsStep, StageStep, LogStep, ListenerStep DEF SshInv

(* The invariant holds in every reachable state.                           *)
THEOREM SshInvHolds == Spec => []SshInv
BY InitInv, SshStep, PTL DEF Spec

(* However connections are admitted, refused, lost and aborted, the count  *)
(* is the number of those being served, and never above the limit.         *)
THEOREM SlotsAreExact == Spec => []SlotsExact
<1>1. SshInv => SlotsExact
  BY DEF SshInv
<1>. QED
  BY <1>1, SshInvHolds, PTL

(* With any number of shells over a connection, whichever of them and of   *)
(* connection_lost comes first, its session is logged once.                *)
THEOREM EachIsLoggedOnce == Spec => []LoggedOnce
<1>1. SshInv => LoggedOnce
  BY DEF SshInv, LogInv, StageInv, ListenerInv, LoggedOnce, Open
<1>. QED
  BY <1>1, SshInvHolds, PTL

(* A record says "shell" exactly for the connections that opened one.      *)
THEOREM RecordsAreTruthful == Spec => []StageTruthful
<1>1. SshInv => StageTruthful
  BY DEF SshInv, LogInv, StageInv, HasShell, StageTruthful
<1>. QED
  BY <1>1, SshInvHolds, PTL

-----------------------------------------------------------------------------
(* The verdict on a session.                                               *)

(* The ids of the rules that hold of some features.                        *)
Ids(f, rules) == {r.id : r \in EvaluateRules(f, rules)}

(* The five rules that the properties are about, each the only one with    *)
(* its id.                                                                 *)
FileProbe ==
    Rule(2, "sensitive_file_probe", "commodity_bot", 78, 55, <<"T1005", "T1552.001">>,
        {AtLeast("sensitive_file_read_count", 1),
         AtLeast("decoy_files_surfaced_count", 1)})
Repeat ==
    Rule(3, "repeat_connections_same_ip", "brute_force_bot", 75, 55, <<"T1110">>,
        {AtLeast("connection_count_from_same_ip", 5)})
Attempts ==
    Rule(4, "authentication_attempt", "brute_force_bot", 70, 55, <<"T1110">>,
        {AtLeast("auth_attempt_count", 2)})
ToolNames ==
    Rule(5, "script_kiddie_tool_names", "script_kiddie", 70, 40, <<"T1595", "T1190">>,
        {Is("protocol", "tcp_shell"), HasAny("command_names", Tools)})
LoginCheck ==
    Rule(9, "ssh_login_check", "brute_force_bot", 80, 60, <<"T1110.001">>,
        {Is("protocol", "tcp_shell"), Is("login_check_only", TRUE)})

(* No two rules share one of these ids.                                    *)
LEMMA RuleOfId ==
    ASSUME NEW r \in Rules
    PROVE  /\ r.id = "sensitive_file_probe" => r = FileProbe
           /\ r.id = "repeat_connections_same_ip" => r = Repeat
           /\ r.id = "authentication_attempt" => r = Attempts
           /\ r.id = "script_kiddie_tool_names" => r = ToolNames
           /\ r.id = "ssh_login_check" => r = LoginCheck
<1>. USE DEF FileProbe, Repeat, Attempts, ToolNames, LoginCheck
<1>1. \A pos, id, actor, confidence, risk, tags, conditions :
         Rule(pos, id, actor, confidence, risk, tags, conditions).id = id
  BY DEF Rule
<1>2. CASE r \in GeneralRules
  BY <1>1, <1>2 DEF GeneralRules
<1>3. CASE r \in ShellRules
  BY <1>1, <1>3 DEF ShellRules
<1>4. CASE r \in LoginRules
  BY <1>1, <1>4 DEF LoginRules
<1>5. CASE r \in HttpRules
  BY <1>1, <1>5 DEF HttpRules
<1>. QED
  BY <1>2, <1>3, <1>4, <1>5 DEF Rules

(* A rule that is the only one with its id is named when its conditions    *)
(* hold.                                                                   *)
LEMMA NamedWhenHolds ==
    ASSUME NEW f, NEW rules, NEW r \in rules, \A q \in rules : q.id = r.id => q = r
    PROVE  r.id \in Ids(f, rules) <=> \A c \in r.conditions : ConditionMatches(f, c)
BY DEF Ids, EvaluateRules

(* What the conditions of the five rules say.                              *)
LEMMA WhenNamed ==
    ASSUME NEW f, NEW rules \in {Rules, LiveRules}
    PROVE  /\ "sensitive_file_probe" \in Ids(f, rules) <=>
                 /\ f.sensitive_file_read_count # -1 /\ f.sensitive_file_read_count >= 1
                 /\ f.decoy_files_surfaced_count # -1 /\ f.decoy_files_surfaced_count >= 1
           /\ "repeat_connections_same_ip" \in Ids(f, rules) <=>
                 f.connection_count_from_same_ip # -1 /\ f.connection_count_from_same_ip >= 5
           /\ "authentication_attempt" \in Ids(f, rules) <=>
                 f.auth_attempt_count # -1 /\ f.auth_attempt_count >= 2
           /\ "script_kiddie_tool_names" \in Ids(f, rules) <=>
                 f.protocol = "tcp_shell" /\ Tools \cap f.command_names # {}
           /\ "ssh_login_check" \in Ids(f, rules) <=>
                 /\ LoginCheck \in rules
                 /\ f.protocol = "tcp_shell" /\ f.login_check_only = TRUE
<1>1. /\ FileProbe.id = "sensitive_file_probe" /\ Repeat.id = "repeat_connections_same_ip"
      /\ Attempts.id = "authentication_attempt" /\ ToolNames.id = "script_kiddie_tool_names"
      /\ LoginCheck.id = "ssh_login_check"
  BY DEF FileProbe, Repeat, Attempts, ToolNames, LoginCheck, Rule
<1>2. {FileProbe, Repeat, Attempts, ToolNames, LoginCheck} \subseteq Rules
  BY DEF FileProbe, Repeat, Attempts, ToolNames, LoginCheck, Rules, GeneralRules,
     ShellRules
<1>3. {FileProbe, Repeat, Attempts, ToolNames} \subseteq rules /\ rules \subseteq Rules
  BY <1>1, <1>2 DEF LiveRules
<1>a. \A field, n : ConditionMatches(f, AtLeast(field, n))
                        <=> f[field] # -1 /\ f[field] >= n
  BY DEF ConditionMatches, AtLeast, None
<1>b. \A field, value : ConditionMatches(f, Is(field, value)) <=> f[field] = value
  BY DEF ConditionMatches, Is
<1>c. \A field, S : ConditionMatches(f, HasAny(field, S)) <=> S \cap f[field] # {}
  BY DEF ConditionMatches, HasAny
<1>4. "sensitive_file_probe" \in Ids(f, rules) <=>
         /\ f.sensitive_file_read_count # -1 /\ f.sensitive_file_read_count >= 1
         /\ f.decoy_files_surfaced_count # -1 /\ f.decoy_files_surfaced_count >= 1
  <2>1. FileProbe.conditions = {AtLeast("sensitive_file_read_count", 1),
                                AtLeast("decoy_files_surfaced_count", 1)}
    BY DEF FileProbe, Rule
  <2>2. \A q \in rules : q.id = FileProbe.id => q = FileProbe
    BY <1>1, <1>3, RuleOfId
  <2>. QED
    BY <1>1, <1>3, <1>a, <2>1, <2>2, NamedWhenHolds
<1>5. "repeat_connections_same_ip" \in Ids(f, rules) <=>
         f.connection_count_from_same_ip # -1 /\ f.connection_count_from_same_ip >= 5
  <2>1. Repeat.conditions = {AtLeast("connection_count_from_same_ip", 5)}
    BY DEF Repeat, Rule
  <2>2. \A q \in rules : q.id = Repeat.id => q = Repeat
    BY <1>1, <1>3, RuleOfId
  <2>. QED
    BY <1>1, <1>3, <1>a, <2>1, <2>2, NamedWhenHolds
<1>6. "authentication_attempt" \in Ids(f, rules) <=>
         f.auth_attempt_count # -1 /\ f.auth_attempt_count >= 2
  <2>1. Attempts.conditions = {AtLeast("auth_attempt_count", 2)}
    BY DEF Attempts, Rule
  <2>2. \A q \in rules : q.id = Attempts.id => q = Attempts
    BY <1>1, <1>3, RuleOfId
  <2>. QED
    BY <1>1, <1>3, <1>a, <2>1, <2>2, NamedWhenHolds
<1>7. "script_kiddie_tool_names" \in Ids(f, rules) <=>
         f.protocol = "tcp_shell" /\ Tools \cap f.command_names # {}
  <2>1. ToolNames.conditions = {Is("protocol", "tcp_shell"),
                                HasAny("command_names", Tools)}
    BY DEF ToolNames, Rule
  <2>2. \A q \in rules : q.id = ToolNames.id => q = ToolNames
    BY <1>1, <1>3, RuleOfId
  <2>. QED
    BY <1>1, <1>3, <1>b, <1>c, <2>1, <2>2, NamedWhenHolds
<1>8. "ssh_login_check" \in Ids(f, rules) <=>
         LoginCheck \in rules /\ f.protocol = "tcp_shell" /\ f.login_check_only = TRUE
  <2>1. LoginCheck.conditions = {Is("protocol", "tcp_shell"),
                                 Is("login_check_only", TRUE)}
    BY DEF LoginCheck, Rule
  <2>2. \A q \in rules : q.id = LoginCheck.id => q = LoginCheck
    BY <1>1, <1>3, RuleOfId
  <2>3. LoginCheck \notin rules => LoginCheck.id \notin Ids(f, rules)
    BY <2>2 DEF Ids, EvaluateRules
  <2>4. LoginCheck \in rules => (LoginCheck.id \in Ids(f, rules) <=>
            \A c \in LoginCheck.conditions : ConditionMatches(f, c))
    BY <2>2, NamedWhenHolds
  <2>5. (\A c \in LoginCheck.conditions : ConditionMatches(f, c))
            <=> f["protocol"] = "tcp_shell" /\ f["login_check_only"] = TRUE
    BY <1>b, <2>1
  <2>. QED
    BY <1>1, <2>3, <2>4, <2>5
<1>. QED
  BY <1>4, <1>5, <1>6, <1>7, <1>8

(* The levels of summarize_rule_evaluation.                                *)
Levels == {"none", "low", "medium", "high", "critical"}

(* A verdict names the rules that hold of the session's features, and its  *)
(* delay and level are among those of the code.                            *)
LEMMA VerdictOf ==
    ASSUME NEW rules, NEW n, NEW open \in BOOLEAN
    PROVE  LET v == ClassifySession(rules, n, open)
               f == Features(seen, protocol, clock, decoys, n)
           IN  v.ids = Ids(f, rules) /\ v.level \in Levels /\ v.delay \in 0..4
<1> DEFINE f == Features(seen, protocol, clock, decoys, n)
           matches == EvaluateRules(f, rules)
           s == Summarize(matches, f)
           v == ClassifySession(rules, n, open)
<1>1. \A score : RiskLevel(score) \in Levels
  BY DEF RiskLevel, Levels
<1>2. \A level \in Levels : DeceptionDelay(level) \in 0..4
  BY DEF DeceptionDelay, Levels
<1>3. s.ids = {r.id : r \in matches} /\ s.level \in Levels /\ s.delay \in 0..4
  <2>. HIDE DEF f, matches
  <2>1. CASE matches = {}
    <3>1. s = [NoVerdict EXCEPT !.status = Status(f, matches)]
      BY <2>1 DEF Summarize
    <3>2. s.ids = {} /\ s.level = "none" /\ s.delay = 0
      BY <3>1 DEF NoVerdict
    <3>. QED
      BY <2>1, <3>2 DEF Levels
  <2>2. CASE matches # {}
    <3>1. /\ s.ids = {r.id : r \in matches}
          /\ s.level = RiskLevel(CombinedRiskScore(matches))
          /\ s.delay = DeceptionDelay(s.level)
      BY <2>2 DEF Summarize
    <3>. QED
      BY <1>1, <1>2, <3>1
  <2>. QED
    BY <2>1, <2>2
<1>4. v = IF open THEN [s EXCEPT !.status = "partial"] ELSE s
  BY DEF ClassifySession
<1>5. v.ids = s.ids /\ v.level = s.level /\ v.delay = s.delay
  <2>. HIDE DEF s
  <2>. QED
    BY <1>4
<1>. QED
  BY <1>3, <1>5 DEF Ids

(* What the verdicts rest on: the counts only grow, an alert and its delay *)
(* are remembered, and a live verdict names a rule about something the     *)
(* visitor did only while what it did is still counted.                    *)
LiveIds == {"automated_discovery_burst", "sensitive_file_probe", "repeat_connections_same_ip",
            "authentication_attempt", "script_kiddie_tool_names", "interactive_low_and_slow"}
PaceIds == {"automated_discovery_burst", "interactive_low_and_slow"}

CountsInv ==
    /\ seen.auth \in Nat /\ seen.sensitive \in Nat /\ decoys \in {0, 1}
    /\ delay \in Int /\ alerted \in Int /\ live.delay \in 0..4 /\ live.level \in Levels

AlertInv ==
    delay >= live.delay /\ (live.alert => alerted >= Level[live.level])

LiveIdsInv ==
    /\ live.ids \subseteq LiveIds \ {"repeat_connections_same_ip"}
    /\ "sensitive_file_probe" \in live.ids => seen.sensitive >= 1 /\ decoys >= 1
    /\ "authentication_attempt" \in live.ids => seen.auth >= 2
    /\ "script_kiddie_tool_names" \in live.ids =>
           protocol = "tcp_shell" /\ Tools \cap seen.names # {}

EvidenceInv ==
    /\ CountsInv /\ AlertInv /\ LiveIdsInv
    /\ at = "closed" => live.ids \ PaceIds \subseteq final.ids

(* What the extractor remembers of an SSH transcript, against the lines    *)
(* themselves.  A password that comes after a username finds it waiting,   *)
(* and every line but a credential is a command.                           *)
LoginInv ==
    /\ at \in {"user", "password", "shell", "end", "closed"}
    /\ at = "user" => sent = {}
    /\ at = "password" => /\ \A l \in sent : l.part = "user"
                          /\ sent # {} => seen.pending # {}
    /\ (\E l \in sent : l.part = "user") /\ (\E l \in sent : l.part = "password")
           => seen.tried # {}
    /\ \A l \in sent : l.part = "shell" \/ Credential(l)
    /\ seen.pending # {} => \E l \in sent : "login" \in l.has
    /\ seen.tried # {} => /\ \E l \in sent : "login" \in l.has
                          /\ \E l \in sent : "password" \in l.has

CommandsInv ==
    /\ "echo" \in seen.flags <=>
           \E l \in sent : ~Credential(l) /\ PlainEcho(l)
    /\ "other" \in seen.flags <=>
           \E l \in sent : /\ ~Credential(l) /\ ~PlainEcho(l)
                           /\ l.name \notin Exits

TranscriptInv ==
    /\ protocol = "tcp_shell" => LoginInv /\ CommandsInv
    /\ at = "closed" =>
           ("ssh_login_check" \in final.ids <=>
                /\ protocol = "tcp_shell" /\ seen.tried # {}
                /\ "echo" \in seen.flags /\ "other" \notin seen.flags)


(* What the features say of what the extractor gathered.                   *)
LEMMA FeaturesOf ==
    ASSUME NEW n
    PROVE  LET f == Features(seen, protocol, clock, decoys, n)
           IN  /\ f.protocol = protocol /\ f.command_names = seen.names
               /\ f.sensitive_file_read_count = seen.sensitive
               /\ f.decoy_files_surfaced_count = decoys
               /\ f.auth_attempt_count = seen.auth
               /\ f.connection_count_from_same_ip = n
               /\ f.login_check_only <=> /\ protocol = "tcp_shell" /\ seen.tried # {}
                                         /\ "echo" \in seen.flags /\ "other" \notin seen.flags
               /\ f.login_check_only \in BOOLEAN
BY DEF Features

(* The rule ids of a verdict, from what the extractor gathered.            *)
LEMMA NamedBySeen ==
    ASSUME NEW rules \in {Rules, LiveRules}, NEW n, NEW open \in BOOLEAN,
           CountsInv
    PROVE  LET ids == ClassifySession(rules, n, open).ids
           IN  /\ "sensitive_file_probe" \in ids <=> seen.sensitive >= 1 /\ decoys >= 1
               /\ "repeat_connections_same_ip" \in ids <=> n # -1 /\ n >= 5
               /\ "authentication_attempt" \in ids <=> seen.auth >= 2
               /\ "script_kiddie_tool_names" \in ids <=>
                     protocol = "tcp_shell" /\ Tools \cap seen.names # {}
               /\ "ssh_login_check" \in ids <=>
                     /\ LoginCheck \in rules
                     /\ protocol = "tcp_shell" /\ seen.tried # {}
                     /\ "echo" \in seen.flags /\ "other" \notin seen.flags
<1> DEFINE f == Features(seen, protocol, clock, decoys, n)
<1>1. ClassifySession(rules, n, open).ids = Ids(f, rules)
  BY VerdictOf
<1>2. /\ f.protocol = protocol /\ f.command_names = seen.names
      /\ f.sensitive_file_read_count = seen.sensitive
      /\ f.decoy_files_surfaced_count = decoys
      /\ f.auth_attempt_count = seen.auth
      /\ f.connection_count_from_same_ip = n
      /\ f.login_check_only = TRUE <=> /\ protocol = "tcp_shell" /\ seen.tried # {}
                                       /\ "echo" \in seen.flags /\ "other" \notin seen.flags
  BY FeaturesOf
<1>. HIDE DEF f
<1>3. seen.sensitive # -1 /\ decoys # -1 /\ seen.auth # -1
  BY DEF CountsInv
<1> DEFINE ids == Ids(f, rules)
<1>4. /\ "sensitive_file_probe" \in ids <=> seen.sensitive >= 1 /\ decoys >= 1
      /\ "repeat_connections_same_ip" \in ids <=> n # -1 /\ n >= 5
      /\ "authentication_attempt" \in ids <=> seen.auth >= 2
  BY <1>2, <1>3, WhenNamed
<1>5. "script_kiddie_tool_names" \in ids <=>
         protocol = "tcp_shell" /\ Tools \cap seen.names # {}
  BY <1>2, WhenNamed
<1>6. "ssh_login_check" \in ids <=>
         /\ LoginCheck \in rules
         /\ protocol = "tcp_shell" /\ seen.tried # {}
         /\ "echo" \in seen.flags /\ "other" \notin seen.flags
  BY <1>2, WhenNamed
<1>. QED
  BY <1>1, <1>4, <1>5, <1>6

(* A live verdict names only live rules, and it does not count the         *)
(* connections.                                                            *)
LEMMA LiveNames ==
    ASSUME CountsInv
    PROVE  /\ ClassifySession(LiveRules, None, TRUE).ids
                  \subseteq LiveIds \ {"repeat_connections_same_ip"}
<1> DEFINE f == Features(seen, protocol, clock, decoys, None)
<1>1. ClassifySession(LiveRules, None, TRUE).ids
          = Ids(f, LiveRules)
  BY VerdictOf
<1>2. Ids(f, LiveRules) \subseteq LiveIds
  BY DEF Ids, EvaluateRules, LiveRules, LiveIds
<1>3. "repeat_connections_same_ip" \notin
          ClassifySession(LiveRules, None, TRUE).ids
  BY NamedBySeen DEF None
<1>. QED
  BY <1>1, <1>2, <1>3

(* What one line adds to what the extractor gathered.                      *)
LEMMA ObserveAdds ==
    ASSUME NEW f, NEW p, NEW l, NEW now, f.auth \in Nat, f.sensitive \in Nat
    PROVE  LET g == Observe(f, p, l, now)
           IN  /\ g.auth \in Nat /\ g.auth >= f.auth
               /\ g.sensitive \in Nat /\ g.sensitive >= f.sensitive
               /\ f.names \subseteq g.names
<1> DEFINE g == Observe(f, p, l, now)
<1>1. /\ g.auth = f.auth + Logins(p, l)
      /\ g.sensitive = f.sensitive + (IF Sensitive(p, l) THEN 1 ELSE 0)
      /\ g.names = Names(f, l)
  BY DEF Observe
<1>2. Logins(p, l) \in Nat
  <2>1. HttpLogins(l) \in Nat
    BY DEF HttpLogins
  <2>. QED
    BY <2>1 DEF Logins
<1>3. f.names \subseteq Names(f, l)
  BY DEF Names
<1>. HIDE DEF g
<1>4. g.auth \in Nat /\ g.auth >= f.auth /\ g.sensitive \in Nat /\ g.sensitive >= f.sensitive
  BY <1>1, <1>2
<1>5. f.names \subseteq g.names
  BY <1>1, <1>3
<1>. QED
  BY <1>4, <1>5 DEF g

(* A line of a shell session adds to the login halves and to the two       *)
(* flags of a login check.                                                 *)
LEMMA ObserveShell ==
    ASSUME NEW f, NEW l, NEW now
    PROVE  LET g == Observe(f, "tcp_shell", l, now)
           IN  /\ "login" \in l.has => g.pending # {}
               /\ g.pending # {} => f.pending # {} \/ "login" \in l.has
               /\ f.tried \subseteq g.tried
               /\ "password" \in l.has /\ f.pending # {} => g.tried # {}
               /\ g.tried # {} => f.tried # {} \/ ("password" \in l.has /\ f.pending # {})
               /\ "echo" \in g.flags <=> \/ "echo" \in f.flags
                                         \/ ~Credential(l) /\ PlainEcho(l)
               /\ "other" \in g.flags <=> \/ "other" \in f.flags
                                          \/ /\ ~Credential(l) /\ ~PlainEcho(l)
                                             /\ l.name \notin Exits
<1> DEFINE g == Observe(f, "tcp_shell", l, now)
           pairs == IF IsPassword("tcp_shell", l)
                    THEN {<<user, l.arg>> : user \in f.pending} ELSE {}
<1>1. /\ g.pending = Pending(f, "tcp_shell", l)
      /\ g.tried = f.tried \cup pairs
      /\ g.flags = f.flags \cup Flags("tcp_shell", l)
  BY DEF Observe
<1>2. /\ IsUser("tcp_shell", l) <=> "login" \in l.has
      /\ IsPassword("tcp_shell", l) <=> "password" \in l.has
  BY DEF IsUser, IsPassword
<1>3. pairs # {} <=> "password" \in l.has /\ f.pending # {}
  BY <1>2
<1>4. /\ "echo" \in Flags("tcp_shell", l) <=>
             ~Credential(l) /\ PlainEcho(l)
      /\ "other" \in Flags("tcp_shell", l) <=>
             /\ ~Credential(l) /\ ~PlainEcho(l)
             /\ l.name \notin Exits
  BY DEF Flags
<1>. HIDE DEF g, pairs
<1>5. /\ "login" \in l.has => g.pending # {}
      /\ g.pending # {} => f.pending # {} \/ "login" \in l.has
  BY <1>1, <1>2 DEF Pending
<1>6. /\ f.tried \subseteq g.tried
      /\ "password" \in l.has /\ f.pending # {} => g.tried # {}
      /\ g.tried # {} => f.tried # {} \/ ("password" \in l.has /\ f.pending # {})
  BY <1>1, <1>3
<1>7. /\ "echo" \in g.flags <=> \/ "echo" \in f.flags
                                \/ ~Credential(l) /\ PlainEcho(l)
      /\ "other" \in g.flags <=> \/ "other" \in f.flags
                                 \/ /\ ~Credential(l) /\ ~PlainEcho(l)
                                    /\ l.name \notin Exits
  <2>1. \A x : x \in g.flags <=> x \in f.flags \/ x \in Flags("tcp_shell", l)
    BY <1>1
  <2>2. "echo" \in g.flags <=> "echo" \in f.flags \/ "echo" \in Flags("tcp_shell", l)
    BY <2>1
  <2>3. "other" \in g.flags <=> "other" \in f.flags \/ "other" \in Flags("tcp_shell", l)
    BY <2>1
  <2>. QED
    BY <1>4, <2>2, <2>3, Zenon
<1>. QED
  BY <1>5, <1>6, <1>7, Zenon DEF g

(* A step that logs a line or moves on in the transcript: a line is added  *)
(* to what the extractor gathered, or nothing is.                          *)
Heard ==
    /\ \/ UNCHANGED <<seen, sent>>
       \/ \E l, now : /\ seen' = Observe(seen, protocol, l, now)
                      /\ sent' = sent \cup {l}
    /\ protocol' = protocol /\ decoys' \in {decoys, 1} /\ at' # "closed"
    /\ UNCHANGED <<liveVars, final>>

(* A step hears something, is a live classification, or closes the         *)
(* session.                                                                *)
LEMMA StepKinds ==
    ASSUME [VerdictNext]_verdictVars
    PROVE  \/ Heard
           \/ LiveTick
           \/ \E n \in ConnectionCounts : EndSession(n)
           \/ UNCHANGED verdictVars
<1>. DEFINE Log == /\ \E l, now : /\ seen' = Observe(seen, protocol, l, now)
                                  /\ sent' = sent \cup {l}
                   /\ UNCHANGED <<protocol, liveVars, final>>
<1>1. \A l, gap : LogCommand(l, gap) => Log
  BY DEF LogCommand
<1>. HIDE DEF Log
<1>2. ASSUME Login PROVE Heard
  <2>1. \/ Log
        \/ UNCHANGED <<protocol, seen, sent, clock, liveVars, final>>
    BY <1>1, <1>2 DEF Login
  <2>2. at' # "closed" /\ decoys' = decoys
    BY <1>2 DEF Login, AfterPassword
  <2>. QED
    BY <2>1, <2>2 DEF Heard, Log
<1>3. ASSUME NEW l, NEW gap, ShellLine(l, gap) PROVE Heard
  BY <1>1, <1>3 DEF ShellLine, Heard, Log
<1>4. ASSUME NEW l, NEW gap, FtpLine(l, gap) PROVE Heard
  BY <1>1, <1>4 DEF FtpLine, Heard, Log
<1>5. ASSUME NEW l, NEW gap, HttpLine(l, gap) PROVE Heard
  BY <1>1, <1>5 DEF HttpLine, Heard, Log
<1>6. ASSUME HttpHeadersEnd PROVE Heard
  BY <1>6 DEF HttpHeadersEnd, Heard
<1>. QED
  BY <1>2, <1>3, <1>4, <1>5, <1>6 DEF VerdictNext

(* What was counted once stays counted.                                    *)
LEMMA HeardGrows ==
    ASSUME CountsInv, Heard
    PROVE  /\ seen'.auth \in Nat /\ seen'.auth >= seen.auth
           /\ seen'.sensitive \in Nat /\ seen'.sensitive >= seen.sensitive
           /\ seen.names \subseteq seen'.names
           /\ decoys' \in {0, 1} /\ decoys' >= decoys
<1>1. seen.auth \in Nat /\ seen.sensitive \in Nat /\ decoys \in {0, 1}
  BY DEF CountsInv
<1>2. decoys' \in {0, 1} /\ decoys' >= decoys
  BY <1>1 DEF Heard
<1>3. /\ seen'.auth \in Nat /\ seen'.auth >= seen.auth
      /\ seen'.sensitive \in Nat /\ seen'.sensitive >= seen.sensitive
      /\ seen.names \subseteq seen'.names
  <2>1. CASE UNCHANGED seen
    BY <1>1, <2>1
  <2>2. CASE \E l, now : seen' = Observe(seen, protocol, l, now)
    BY <1>1, <2>2, ObserveAdds
  <2>. QED
    BY <2>1, <2>2 DEF Heard
<1>. QED
  BY <1>2, <1>3

(* Before the first line nothing was heard and nobody was alerted.         *)
LEMMA EvidenceInit ==
    ASSUME VerdictInit PROVE EvidenceInv
<1>1. /\ seen.auth = 0 /\ seen.sensitive = 0 /\ decoys = 0 /\ delay = 0 /\ alerted = -1
  BY DEF VerdictInit, NothingSeen
<1>2. live.ids = {} /\ live.delay = 0 /\ live.level = "none" /\ live.alert = FALSE
  BY DEF VerdictInit, NoVerdict
<1>. QED
  BY <1>1, <1>2 DEF EvidenceInv, CountsInv, AlertInv, LiveIdsInv, Levels

(* Nothing the visitor did is forgotten by a later line, a later live      *)
(* verdict or the close.                                                   *)
LEMMA EvidenceStep ==
    ASSUME EvidenceInv, [VerdictNext]_verdictVars
    PROVE  EvidenceInv'
<1>. USE DEF EvidenceInv
<1>1. CASE Heard
  <2>1. UNCHANGED <<live, delay, alerted, final>> /\ protocol' = protocol /\ at' # "closed"
    BY <1>1 DEF Heard, liveVars
  <2>2. /\ seen'.auth \in Nat /\ seen'.auth >= seen.auth
        /\ seen'.sensitive \in Nat /\ seen'.sensitive >= seen.sensitive
        /\ seen.names \subseteq seen'.names
        /\ decoys' \in {0, 1} /\ decoys' >= decoys
    BY <1>1, HeardGrows
  <2>3. CountsInv' /\ AlertInv'
    BY <2>1, <2>2 DEF CountsInv, AlertInv
  <2>4. LiveIdsInv'
    <3>1. seen.auth \in Nat /\ seen.sensitive \in Nat /\ decoys \in {0, 1}
      BY DEF CountsInv
    <3>2. "sensitive_file_probe" \in live'.ids => seen'.sensitive >= 1 /\ decoys' >= 1
      BY <2>1, <2>2, <3>1 DEF LiveIdsInv
    <3>3. "authentication_attempt" \in live'.ids => seen'.auth >= 2
      BY <2>1, <2>2, <3>1 DEF LiveIdsInv
    <3>4. "script_kiddie_tool_names" \in live'.ids =>
              protocol' = "tcp_shell" /\ Tools \cap seen'.names # {}
      BY <2>1, <2>2 DEF LiveIdsInv
    <3>. QED
      BY <2>1, <3>2, <3>3, <3>4 DEF LiveIdsInv
  <2>. QED
    BY <2>1, <2>3, <2>4
<1>2. CASE LiveTick
  <2> DEFINE v == ClassifySession(LiveRules, None, TRUE)
  <2>1. /\ at' # "closed" /\ UNCHANGED <<protocol, seen, decoys>>
        /\ live' = v
        /\ delay' = IF live'.delay > delay THEN live'.delay ELSE delay
        /\ alerted' = IF live'.alert /\ Level[live'.level] > alerted
                      THEN Level[live'.level] ELSE alerted
    BY <1>2 DEF LiveTick
  <2>2. v.level \in Levels /\ v.delay \in 0..4
    BY VerdictOf
  <2>3. /\ v.ids \subseteq LiveIds \ {"repeat_connections_same_ip"}
        /\ "sensitive_file_probe" \in v.ids => seen.sensitive >= 1 /\ decoys >= 1
        /\ "authentication_attempt" \in v.ids => seen.auth >= 2
        /\ "script_kiddie_tool_names" \in v.ids =>
               protocol = "tcp_shell" /\ Tools \cap seen.names # {}
    BY LiveNames, NamedBySeen
  <2>. HIDE DEF v
  <2>4. \A level \in Levels : Level[level] \in Int
    BY DEF Levels, Level
  <2>5. CountsInv'
    BY <2>1, <2>2, <2>4 DEF CountsInv
  <2>6. AlertInv'
    BY <2>1, <2>2, <2>4 DEF CountsInv, AlertInv
  <2>7. LiveIdsInv'
    BY <2>1, <2>3 DEF LiveIdsInv
  <2>. QED
    BY <2>1, <2>5, <2>6, <2>7
<1>3. ASSUME NEW n \in ConnectionCounts, EndSession(n) PROVE EvidenceInv'
  <2>1. /\ UNCHANGED <<protocol, seen, decoys, live, delay, alerted>>
        /\ final' = ClassifySession(Rules, n, FALSE)
    BY <1>3 DEF EndSession, liveVars
  <2>2. CountsInv' /\ AlertInv' /\ LiveIdsInv'
    BY <2>1 DEF CountsInv, AlertInv, LiveIdsInv
  <2>3. /\ "sensitive_file_probe" \in final'.ids <=> seen.sensitive >= 1 /\ decoys >= 1
        /\ "authentication_attempt" \in final'.ids <=> seen.auth >= 2
        /\ "script_kiddie_tool_names" \in final'.ids <=>
               protocol = "tcp_shell" /\ Tools \cap seen.names # {}
    BY <2>1, NamedBySeen
  <2>4. live'.ids \ PaceIds \subseteq final'.ids
    BY <2>1, <2>3 DEF LiveIdsInv, LiveIds, PaceIds
  <2>. QED
    BY <2>2, <2>4
<1>4. CASE UNCHANGED verdictVars
  BY <1>4 DEF verdictVars, liveVars, CountsInv, AlertInv, LiveIdsInv
<1>. QED
  BY <1>1, <1>2, <1>3, <1>4, StepKinds

(* What the live classifier alerted on stays in the stored verdict         *)
(* (realtime.py, ssh_server.py handle_live_classification).                *)
THEOREM LiveEvidence == VerdictSpec => []LiveEvidenceStands
<1>1. VerdictInit => EvidenceInv
  BY EvidenceInit
<1>2. EvidenceInv /\ [VerdictNext]_verdictVars => EvidenceInv'
  BY EvidenceStep
<1>3. EvidenceInv => LiveEvidenceStands
  BY DEF EvidenceInv, AlertInv, PaceIds, LiveEvidenceStands
<1>. QED
  BY <1>1, <1>2, <1>3, PTL DEF VerdictSpec

(* Before the first line the transcript is empty.                          *)
LEMMA TranscriptInit ==
    ASSUME VerdictInit PROVE TranscriptInv
<1>1. /\ sent = {} /\ seen.tried = {} /\ seen.pending = {} /\ seen.flags = {}
      /\ final.ids = {} /\ (protocol = "tcp_shell" => at = "user")
  BY DEF VerdictInit, NothingSeen, NoVerdict, First
<1>2. LoginInv \/ protocol # "tcp_shell"
  BY <1>1 DEF LoginInv
<1>3. CommandsInv
  BY <1>1 DEF CommandsInv
<1>. QED
  BY <1>1, <1>2, <1>3 DEF TranscriptInv

(* A line of a shell session, with the part of the session it belongs to.  *)
Line(l) ==
    /\ l.part = at /\ sent' = sent \cup {l}
    /\ \E now : seen' = Observe(seen, "tcp_shell", l, now)

(* The steps of a shell session that is not closed.                        *)
LoginStep ==
    /\ \/ UNCHANGED <<seen, sent>>
       \/ \E l : /\ (IF at = "user" THEN "login" ELSE "password") \in l.has
                 /\ Line(l)
    /\ \/ at = "user" /\ at' = "password"
       \/ at = "password" /\ at' = "shell"

TypedStep == at = "shell" /\ at' \in {"shell", "end"} /\ \E l : Line(l)

(* The steps of a shell session: a half of the login, a typed line, its    *)
(* end, or nothing of the transcript.                                      *)
LEMMA ShellSteps ==
    ASSUME protocol = "tcp_shell", LoginInv, VerdictNext
    PROVE  /\ protocol' = protocol
           /\ \/ LoginStep \/ TypedStep
              \/ UNCHANGED <<at, seen, sent>>
              \/ at' = "closed" /\ UNCHANGED <<seen, sent>>
<1>1. \A l, gap : LogCommand(l, gap) => Line(l) /\ protocol' = protocol
  <2>. SUFFICES ASSUME NEW l, NEW gap, LogCommand(l, gap)
                PROVE  Line(l) /\ protocol' = protocol
    OBVIOUS
  <2>. QED
    BY DEF LogCommand, Line
<1>2. ASSUME Login PROVE LoginStep /\ protocol' = protocol
  <2>1. /\ \/ UNCHANGED <<seen, sent>> /\ protocol' = protocol
           \/ \E l : /\ (IF at = "user" THEN "login" ELSE "password") \in l.has
                     /\ Line(l) /\ protocol' = protocol
    BY <1>1, <1>2 DEF Login
  <2>2. \/ at = "user" /\ at' = "password"
        \/ at = "password" /\ at' = "shell"
    BY <1>2 DEF Login, AfterPassword
  <2>. QED
    BY <2>1, <2>2 DEF LoginStep
<1>3. ASSUME NEW l, NEW gap, ShellLine(l, gap) PROVE TypedStep /\ protocol' = protocol
  BY <1>1, <1>3 DEF ShellLine, TypedStep
<1>4. ASSUME NEW l, NEW gap, FtpLine(l, gap) \/ HttpLine(l, gap) PROVE FALSE
  BY <1>4 DEF FtpLine, HttpLine
<1>5. ~HttpHeadersEnd
  BY DEF HttpHeadersEnd, LoginInv
<1>6. ASSUME LiveTick PROVE UNCHANGED <<at, seen, sent, protocol>>
  BY <1>6 DEF LiveTick
<1>7. ASSUME NEW n, EndSession(n) PROVE at' = "closed" /\ UNCHANGED <<seen, sent, protocol>>
  BY <1>7 DEF EndSession
<1>. QED
  BY <1>2, <1>3, <1>4, <1>5, <1>6, <1>7 DEF VerdictNext

(* Each line of a shell session keeps the flags equal to the lines.        *)
LEMMA CommandsLine ==
    ASSUME CommandsInv, NEW l, Line(l) PROVE CommandsInv'
<1>1. PICK now : seen' = Observe(seen, "tcp_shell", l, now)
  BY DEF Line
<1>2. sent' = sent \cup {l}
  BY DEF Line
<1>3. /\ "echo" \in seen'.flags <=> \/ "echo" \in seen.flags
                                    \/ ~Credential(l) /\ PlainEcho(l)
      /\ "other" \in seen'.flags <=> \/ "other" \in seen.flags
                                     \/ /\ ~Credential(l) /\ ~PlainEcho(l)
                                        /\ l.name \notin Exits
  BY <1>1, ObserveShell
<1>. QED
  BY <1>2, <1>3 DEF CommandsInv

(* What a line leaves of the login halves.                                 *)
LEMMA LoginLine ==
    ASSUME NEW l, Line(l)
    PROVE  /\ "login" \in l.has => seen'.pending # {}
           /\ seen'.pending # {} => seen.pending # {} \/ "login" \in l.has
           /\ seen.tried # {} => seen'.tried # {}
           /\ "password" \in l.has /\ seen.pending # {} => seen'.tried # {}
           /\ seen'.tried # {} => seen.tried # {} \/ ("password" \in l.has /\ seen.pending # {})
<1>1. PICK now : seen' = Observe(seen, "tcp_shell", l, now)
  BY DEF Line
<1>. QED
  BY <1>1, ObserveShell

(* A line with either half of a login is no command.                       *)
LEMMA CredentialLine ==
    ASSUME NEW l, "login" \in l.has \/ "password" \in l.has
    PROVE  Credential(l)
BY DEF Credential

(* A typed line keeps what the extractor remembers of the login.           *)
LEMMA LoginTyped ==
    ASSUME LoginInv, TypedStep PROVE LoginInv'
<1>1. PICK l : Line(l)
  BY DEF TypedStep
<1>2. sent' = sent \cup {l} /\ l.part = "shell" /\ at' \in {"shell", "end"}
  BY <1>1 DEF Line, TypedStep
<1>. QED
  BY <1>1, <1>2, LoginLine DEF LoginInv

(* A logged or a blank half of the login keeps it too: SSH logs the        *)
(* username before the password.                                           *)
LEMMA LoginLogged ==
    ASSUME LoginInv, LoginStep PROVE LoginInv'
<1>1. CASE UNCHANGED <<seen, sent>>
  BY <1>1 DEF LoginInv, LoginStep
<1>2. CASE \E l : (IF at = "user" THEN "login" ELSE "password") \in l.has /\ Line(l)
  <2>1. PICK l : (IF at = "user" THEN "login" ELSE "password") \in l.has /\ Line(l)
    BY <1>2
  <2>2. sent' = sent \cup {l} /\ l.part = at
    BY <2>1 DEF Line
  <2>3. Credential(l)
    BY <2>1, CredentialLine
  <2>4. CASE at = "user" /\ at' = "password"
    BY <2>1, <2>2, <2>3, <2>4, LoginLine DEF LoginInv
  <2>5. CASE at = "password" /\ at' = "shell"
    BY <2>1, <2>2, <2>3, <2>5, LoginLine DEF LoginInv
  <2>. QED
    BY <2>4, <2>5 DEF LoginStep
<1>. QED
  BY <1>1, <1>2 DEF LoginStep

(* Every step of a shell session keeps its transcript understood.          *)
LEMMA ShellTranscript ==
    ASSUME protocol = "tcp_shell", LoginInv, CommandsInv, [VerdictNext]_verdictVars
    PROVE  LoginInv' /\ CommandsInv'
<1>1. CASE LoginStep
  <2>1. CommandsInv'
    BY <1>1, CommandsLine DEF LoginStep, CommandsInv
  <2>. QED
    BY <1>1, <2>1, LoginLogged
<1>2. CASE TypedStep
  BY <1>2, LoginTyped, CommandsLine DEF TypedStep
<1>3. CASE UNCHANGED <<seen, sent>> /\ (at' = at \/ at' = "closed")
  BY <1>3 DEF LoginInv, CommandsInv
<1>4. CASE UNCHANGED verdictVars
  BY <1>3, <1>4 DEF verdictVars
<1>. QED
  BY <1>1, <1>2, <1>3, <1>4, ShellSteps

(* Every step keeps the transcript understood, and the close classifies    *)
(* what was heard to the end.                                              *)
LEMMA TranscriptStep ==
    ASSUME EvidenceInv, TranscriptInv, [VerdictNext]_verdictVars
    PROVE  TranscriptInv'
<1>. DEFINE Checked(ids) ==
         "ssh_login_check" \in ids <=>
             /\ protocol = "tcp_shell" /\ seen.tried # {}
             /\ "echo" \in seen.flags /\ "other" \notin seen.flags
<1>1. protocol' = protocol
  BY StepKinds DEF Heard, LiveTick, EndSession, verdictVars
<1>2. protocol' = "tcp_shell" => LoginInv' /\ CommandsInv'
  BY <1>1, ShellTranscript DEF TranscriptInv
<1>3. ASSUME at' = "closed"
      PROVE  /\ UNCHANGED seen
             /\ Checked(final'.ids)
  <2>1. ~Heard /\ ~LiveTick
    BY <1>3 DEF Heard, LiveTick
  <2>2. ASSUME NEW n \in ConnectionCounts, EndSession(n)
        PROVE  UNCHANGED seen /\ Checked(final'.ids)
    <3>1. UNCHANGED seen /\ final' = ClassifySession(Rules, n, FALSE)
      BY <2>2 DEF EndSession
    <3>2. LoginCheck \in Rules
      BY DEF LoginCheck, Rules, ShellRules
    <3>. QED
      BY <3>1, <3>2, NamedBySeen DEF EvidenceInv
  <2>3. CASE UNCHANGED verdictVars
    BY <1>3, <2>3 DEF verdictVars, TranscriptInv
  <2>. QED
    BY <2>1, <2>2, <2>3, StepKinds
<1>. QED
  BY <1>1, <1>2, <1>3 DEF TranscriptInv

(* ssh_login_check names the sessions that logged in and did nothing but   *)
(* print to the screen, and no others (features/session.py                 *)
(* login_check_only, default_rules.yaml).                                  *)
THEOREM LoginChecks == VerdictSpec => []LoginCheckExact
<1>1. VerdictInit => EvidenceInv /\ TranscriptInv
  BY EvidenceInit, TranscriptInit
<1>2. EvidenceInv /\ TranscriptInv /\ [VerdictNext]_verdictVars
          => EvidenceInv' /\ TranscriptInv'
  BY EvidenceStep, TranscriptStep
<1>3. ASSUME EvidenceInv, TranscriptInv PROVE LoginCheckExact
  <2>. SUFFICES ASSUME at = "closed", protocol = "tcp_shell"
                PROVE  LoginCheckExact
    BY <1>3 DEF LoginCheckExact, TranscriptInv
  <2>1. LoginInv /\ CommandsInv
    BY <1>3 DEF TranscriptInv
  <2>2. OnlyEchoes <=> "echo" \in seen.flags /\ "other" \notin seen.flags
    BY <2>1 DEF LoginInv, CommandsInv, OnlyEchoes, Typed
  <2>3. "ssh_login_check" \in final.ids <=> seen.tried # {} /\ OnlyEchoes
    BY <1>3, <2>2 DEF TranscriptInv
  <2>. QED
    BY <2>1, <2>3 DEF LoginInv, LoginCheckExact
<1>. QED
  BY <1>1, <1>2, <1>3, PTL DEF VerdictSpec

(* The five rules that decide alone.                                       *)
Payload ==
    Rule(6, "ssh_remote_payload_fetch_and_run", "commodity_bot", 90, 90, <<"T1105">>,
         {Is("protocol", "tcp_shell"), Is("remote_fetch_and_run_attempt", TRUE)})
KeyInstall ==
    Rule(7, "ssh_authorized_key_install", "commodity_bot", 90, 90, <<"T1098.004">>,
         {Is("protocol", "tcp_shell"), Is("authorized_keys_write_attempt", TRUE)})
BinaryRead ==
    Rule(8, "ssh_system_binary_read", "commodity_bot", 80, 65, <<"T1082">>,
         {Is("protocol", "tcp_shell"), Is("system_binary_read_attempt", TRUE)})
Mirai ==
    Rule(17, "mirai_iot_credential_burst", "commodity_bot", 85, 65, <<"T1078.001">>,
         {Is("protocol", "telnet"), HasAny("telnet_credentials_tried", MiraiPairs)})
CommandInjection ==
    Rule(21, "http_command_injection", "commodity_bot", 90, 80, <<"T1190", "T1105">>,
         {Is("protocol", "http"), Is("http_command_injection_attempt", TRUE)})
DecisiveIds == {"ssh_remote_payload_fetch_and_run", "ssh_authorized_key_install",
                "ssh_system_binary_read", "mirai_iot_credential_burst", "http_command_injection"}

(* No other rule is rated high.                                            *)
LEMMA HighRisk ==
    ASSUME NEW r \in Rules, r.risk >= HighRiskScore PROVE r.id \in DecisiveIds
<1>. USE DEF DecisiveIds, HighRiskScore
<1>1. \A pos, id, actor, confidence, risk, tags, conditions :
         /\ Rule(pos, id, actor, confidence, risk, tags, conditions).id = id
         /\ Rule(pos, id, actor, confidence, risk, tags, conditions).risk = risk
  BY DEF Rule
<1>2. CASE r \in GeneralRules
  BY <1>1, <1>2 DEF GeneralRules
<1>3. CASE r \in LoginRules
  BY <1>1, <1>3 DEF LoginRules
<1>4. CASE r \in HttpRules
  BY <1>1, <1>4 DEF HttpRules
<1>5. CASE r \in ShellRules
  BY <1>1, <1>5 DEF ShellRules
<1>. QED
  BY <1>2, <1>3, <1>4, <1>5 DEF Rules

(* And no other has one of their ids.                                      *)
LEMMA DecisiveOfId ==
    ASSUME NEW r \in Rules
    PROVE  /\ r.id = "ssh_remote_payload_fetch_and_run" => r = Payload
           /\ r.id = "ssh_authorized_key_install" => r = KeyInstall
           /\ r.id = "ssh_system_binary_read" => r = BinaryRead
           /\ r.id = "mirai_iot_credential_burst" => r = Mirai
           /\ r.id = "http_command_injection" => r = CommandInjection
<1>. USE DEF Payload, KeyInstall, BinaryRead, Mirai, CommandInjection
<1>1. \A pos, id, actor, confidence, risk, tags, conditions :
         Rule(pos, id, actor, confidence, risk, tags, conditions).id = id
  BY DEF Rule
<1>2. CASE r \in GeneralRules
  BY <1>1, <1>2 DEF GeneralRules
<1>3. CASE r \in ShellRules
  BY <1>1, <1>3 DEF ShellRules
<1>4. CASE r \in LoginRules
  BY <1>1, <1>4 DEF LoginRules
<1>5. CASE r \in HttpRules
  BY <1>1, <1>5 DEF HttpRules
<1>. QED
  BY <1>2, <1>3, <1>4, <1>5 DEF Rules

(* What makes an intent credential theft.                                  *)
CredentialTags == {"T1552.001", "T1110", "T1110.001", "T1078.001"}

(* Of these only the default credentials of Mirai are about credentials.   *)
LEMMA DecisiveTags ==
    ASSUME NEW r \in Rules, r.risk >= HighRiskScore, NEW t \in TagsOf(r) \cap CredentialTags
    PROVE  t = "T1078.001"
<1>1. r \in {Payload, KeyInstall, BinaryRead, Mirai, CommandInjection}
  BY HighRisk, DecisiveOfId DEF DecisiveIds
<1>2. \A pos, id, actor, confidence, risk, tags, conditions :
         Rule(pos, id, actor, confidence, risk, tags, conditions).tags = tags
  BY DEF Rule
<1>3. /\ Payload.tags = <<"T1105">> /\ KeyInstall.tags = <<"T1098.004">>
      /\ BinaryRead.tags = <<"T1082">> /\ Mirai.tags = <<"T1078.001">>
      /\ CommandInjection.tags = <<"T1190", "T1105">>
  BY <1>2 DEF Payload, KeyInstall, BinaryRead, Mirai, CommandInjection
<1>4. PICK i \in DOMAIN r.tags : t = r.tags[i]
  BY DEF TagsOf
<1>5. CASE r = CommandInjection
  <2>1. t \in {"T1190", "T1105"}
    BY <1>3, <1>4, <1>5
  <2>. QED
    BY <2>1 DEF CredentialTags
<1>6. CASE r # CommandInjection
  <2>1. t \in {"T1105", "T1098.004", "T1082", "T1078.001"}
    BY <1>1, <1>3, <1>4, <1>6
  <2>. QED
    BY <2>1 DEF CredentialTags
<1>. QED
  BY <1>5, <1>6

(* The rules a verdict names are those that matched, as far as they decide *)
(* alone.                                                                  *)
LEMMA DecisiveNamed ==
    ASSUME NEW matches \in SUBSET Rules
    PROVE  Decisive({r \in Rules : r.id \in {q.id : q \in matches}}) = Decisive(matches)
<1>1. ASSUME NEW r \in Rules, NEW q \in Rules, r.id = q.id, r.risk >= HighRiskScore
      PROVE  q = r
  <2>1. r.id \in DecisiveIds
    BY <1>1, HighRisk
  <2>. QED
    BY <1>1, <2>1, DecisiveOfId DEF DecisiveIds
<1>. QED
  BY <1>1 DEF Decisive

(* The intent of a verdict follows the rules that decide alone.            *)
LEMMA IntentOfMatches ==
    ASSUME NEW matches \in SUBSET Rules, NEW f, Decisive(matches) # {}
    PROVE  LET s == Summarize(matches, f)
           IN  /\ s.recommendation # "None"
               /\ s.intent = "credential_theft" =>
                     \E r \in Decisive(matches) : "T1078.001" \in TagsOf(r)
               /\ Payload \in matches => s.intent = "payload_delivery"
<1> DEFINE s == Summarize(matches, f)
           level == RiskLevel(CombinedRiskScore(matches))
           found == StageAndIntent(matches, f)
           tags == UNION {TagsOf(r) : r \in Decisive(matches)}
<1>1. /\ s.recommendation = Recommendation(level, found[1], found[2], f.decoy_files_surfaced_count)
      /\ s.intent = found[2]
  <2>1. matches # {}
    BY DEF Decisive
  <2>. HIDE DEF level, found
  <2>. QED
    BY <2>1 DEF Summarize, level, found
<1>2. \A l, st, i, n : Recommendation(l, st, i, n) # "None"
  BY DEF Recommendation
<1>3. Voters(matches) = Decisive(matches)
  BY DEF Voters
<1>4. found[2] = "credential_theft" => tags \cap CredentialTags # {}
  BY <1>3 DEF StageAndIntent, CredentialTags
<1>5. "T1105" \in tags => found[2] = "payload_delivery"
  BY <1>3 DEF StageAndIntent
<1>6. Payload \in matches => "T1105" \in tags
  <2>1. Payload.risk = 90 /\ Payload.tags = <<"T1105">>
    BY DEF Payload, Rule
  <2>2. "T1105" \in TagsOf(Payload)
    BY <2>1 DEF TagsOf
  <2>3. Payload \in matches => Payload \in Decisive(matches)
    BY <2>1 DEF Decisive, HighRiskScore
  <2>. QED
    BY <2>2, <2>3
<1>7. tags \cap CredentialTags # {} =>
          \E r \in Decisive(matches) : "T1078.001" \in TagsOf(r)
  BY DecisiveTags DEF Decisive
<1>. HIDE DEF s, found, tags, level
<1>8. /\ s.recommendation # "None"
      /\ s.intent = "credential_theft" =>
            \E r \in Decisive(matches) : "T1078.001" \in TagsOf(r)
      /\ Payload \in matches => s.intent = "payload_delivery"
  BY <1>1, <1>2, <1>4, <1>5, <1>6, <1>7
<1>. QED
  BY <1>8 DEF s

(* A download and its start are remembered, and the verdict on a closed    *)
(* session has the intent they decide.                                     *)
FetchInv ==
    protocol = "tcp_shell" =>
        \A x \in {"fetch", "run"} :
            (\E l \in sent : ~Credential(l) /\ x \in l.has) => x \in seen.flags

VerdictIntent ==
    /\ Decisive(Final) # {} => final.recommendation # "None"
    /\ Decisive(Final) # {} /\ final.intent = "credential_theft" =>
          \E r \in Decisive(Final) : "T1078.001" \in TagsOf(r)
    /\ protocol = "tcp_shell" /\ {"fetch", "run"} \subseteq seen.flags =>
          final.intent = "payload_delivery"

IntentInv == FetchInv /\ (at = "closed" => VerdictIntent)

(* A line adds its download or start to what was seen.                     *)
LEMMA FetchSeen ==
    ASSUME FetchInv, Heard PROVE FetchInv'
<1>. SUFFICES ASSUME protocol = "tcp_shell", NEW x \in {"fetch", "run"},
                     NEW k \in sent', ~Credential(k), x \in k.has
              PROVE  x \in seen'.flags
  BY DEF FetchInv, Heard
<1>1. CASE UNCHANGED <<seen, sent>>
  BY <1>1 DEF FetchInv
<1>2. CASE \E l, now : /\ seen' = Observe(seen, protocol, l, now)
                       /\ sent' = sent \cup {l}
  <2>1. PICK l, now : seen' = Observe(seen, protocol, l, now) /\ sent' = sent \cup {l}
    BY <1>2
  <2>2. seen'.flags = seen.flags \cup Flags(protocol, l)
    BY <2>1 DEF Observe
  <2>3. CASE k \in sent
    BY <2>2, <2>3 DEF FetchInv
  <2>4. CASE k = l
    <3>1. x \in Flags(protocol, l)
      BY <2>4 DEF Flags
    <3>. QED
      BY <2>2, <3>1
  <2>. QED
    BY <2>1, <2>3, <2>4
<1>. QED
  BY <1>1, <1>2 DEF Heard

(* The close gives the verdict its intent.                                 *)
LEMMA CloseIntent ==
    ASSUME NEW n, EndSession(n) PROVE VerdictIntent'
<1> DEFINE f == Features(seen, protocol, clock, decoys, n)
           matches == EvaluateRules(f, Rules)
<1>1. UNCHANGED <<protocol, seen>> /\ final' = Summarize(matches, f)
  BY DEF EndSession, ClassifySession
<1>2. matches \in SUBSET Rules
  BY DEF EvaluateRules
<1>3. final'.ids = {q.id : q \in matches}
  <2>1. final' = ClassifySession(Rules, n, FALSE)
    BY DEF EndSession
  <2>. QED
    BY <2>1, VerdictOf DEF Ids
<1>4. protocol = "tcp_shell" /\ {"fetch", "run"} \subseteq seen.flags => Payload \in matches
  <2>1. Payload \in Rules
    BY DEF Payload, Rules, ShellRules
  <2>2. Payload.conditions
            = {Is("protocol", "tcp_shell"), Is("remote_fetch_and_run_attempt", TRUE)}
    BY DEF Payload, Rule
  <2>3. \A field, value : ConditionMatches(f, Is(field, value)) <=> f[field] = value
    BY DEF ConditionMatches, Is
  <2>4. /\ f["protocol"] = protocol
        /\ f["remote_fetch_and_run_attempt"] = ({"fetch", "run"} \subseteq seen.flags)
    BY DEF Features
  <2>. HIDE DEF f
  <2>. QED
    BY <2>1, <2>2, <2>3, <2>4 DEF EvaluateRules
<1>5. Payload \in matches => Decisive(matches) # {}
  BY DEF Decisive, Payload, Rule, HighRiskScore
<1>. HIDE DEF f, matches
<1>6. Decisive(Final)' = Decisive(matches)
  <2>1. Final' = {r \in Rules : r.id \in {q.id : q \in matches}}
    BY <1>3 DEF Final
  <2>2. Decisive(Final)' = Decisive(Final')
    BY DEF Decisive
  <2>. QED
    BY <1>2, <2>1, <2>2, DecisiveNamed
<1>7. Decisive(matches) # {} =>
          /\ final'.recommendation # "None"
          /\ final'.intent = "credential_theft" =>
                \E r \in Decisive(matches) : "T1078.001" \in TagsOf(r)
          /\ Payload \in matches => final'.intent = "payload_delivery"
  BY <1>1, <1>2, IntentOfMatches
<1>. QED
  BY <1>1, <1>4, <1>5, <1>6, <1>7 DEF VerdictIntent

(* Every step keeps the download and the start, and a closed session is    *)
(* touched by nothing but another close.                                   *)
LEMMA IntentStep ==
    ASSUME IntentInv, [VerdictNext]_verdictVars PROVE IntentInv'
<1>1. CASE Heard
  BY <1>1, FetchSeen DEF IntentInv, Heard
<1>2. CASE LiveTick
  BY <1>2 DEF LiveTick, IntentInv, FetchInv
<1>3. ASSUME NEW n \in ConnectionCounts, EndSession(n) PROVE IntentInv'
  <2>1. VerdictIntent'
    BY <1>3, CloseIntent
  <2>2. FetchInv'
    BY <1>3 DEF EndSession, IntentInv, FetchInv
  <2>. QED
    BY <2>1, <2>2 DEF IntentInv
<1>4. CASE UNCHANGED verdictVars
  BY <1>4 DEF verdictVars, IntentInv, FetchInv, VerdictIntent, Final
<1>. QED
  BY <1>1, <1>2, <1>3, <1>4, StepKinds

(* A rule rated high decides the intent of the stored verdict alone, and a *)
(* download with its start is the delivery of a payload                    *)
(* (scoring/session.py _behavior_stage_and_intent).                        *)
THEOREM IntentIsDecided == VerdictSpec => []IntentDecides
<1>1. VerdictInit => IntentInv
  <2>. SUFFICES ASSUME VerdictInit PROVE IntentInv
    OBVIOUS
  <2>1. sent = {} /\ seen.flags = {} /\ final.ids = {}
    BY DEF VerdictInit, NothingSeen, NoVerdict
  <2>2. Final = {} /\ Decisive(Final) = {}
    BY <2>1 DEF Final, Decisive
  <2>. QED
    BY <2>1, <2>2 DEF IntentInv, FetchInv, VerdictIntent
<1>2. IntentInv /\ [VerdictNext]_verdictVars => IntentInv'
  BY IntentStep
<1>3. IntentInv => IntentDecides
  BY DEF IntentInv, FetchInv, VerdictIntent, IntentDecides, FetchedAndRun, Typed
<1>. QED
  BY <1>1, <1>2, <1>3, PTL DEF VerdictSpec
-----------------------------------------------------------------------------
(* A rule for Telnet that no record of the Telnet listener meets.          *)

TelnetProbe ==
    Rule(15, "telnet_banner_probe_no_credentials", "automated_scanner", 55, 20, <<"T1595">>,
        {Is("protocol", "telnet"), Is("auth_attempt_count", 0), AtLeast("command_count", 1)})

(* The stored verdict does not name that rule.                             *)
TelnetProbeUnnamed == "telnet_banner_probe_no_credentials" \notin final.ids

(* Every line of a Telnet session is counted as half of a login.           *)
TelnetInv ==
    /\ protocol = "telnet" =>
          /\ at \in {"user", "password", "end", "closed"}
          /\ seen.count \in Nat /\ seen.auth = seen.count
    /\ TelnetProbeUnnamed

(* No other rule has its id.                                               *)
LEMMA TelnetProbeOfId ==
    ASSUME NEW r \in Rules, r.id = "telnet_banner_probe_no_credentials"
    PROVE  r = TelnetProbe
<1>1. \A pos, id, actor, confidence, risk, tags, conditions :
         Rule(pos, id, actor, confidence, risk, tags, conditions).id = id
  BY DEF Rule
<1>2. CASE r \in GeneralRules
  BY <1>1, <1>2 DEF GeneralRules
<1>3. CASE r \in ShellRules
  BY <1>1, <1>3 DEF ShellRules
<1>4. CASE r \in LoginRules
  BY <1>1, <1>4 DEF LoginRules, TelnetProbe
<1>5. CASE r \in HttpRules
  BY <1>1, <1>5 DEF HttpRules
<1>. QED
  BY <1>2, <1>3, <1>4, <1>5 DEF Rules

(* A line with a credential is one command and one attempt.                *)
LEMMA TelnetLine ==
    ASSUME NEW f, NEW l, NEW now, f.count \in Nat, f.auth = f.count, Credential(l)
    PROVE  LET g == Observe(f, "telnet", l, now)
           IN  g.count \in Nat /\ g.auth = g.count
<1>1. Logins("telnet", l) = 1
  BY DEF Logins
<1>2. /\ Observe(f, "telnet", l, now).count = f.count + 1
      /\ Observe(f, "telnet", l, now).auth = f.auth + Logins("telnet", l)
  BY DEF Observe
<1>. QED
  BY <1>1, <1>2

(* When every command is an attempt, the rule does not hold.               *)
LEMMA TelnetVerdict ==
    ASSUME NEW n, protocol = "telnet" => seen.auth = seen.count
    PROVE  "telnet_banner_probe_no_credentials" \notin ClassifySession(Rules, n, FALSE).ids
<1> DEFINE f == Features(seen, protocol, clock, decoys, n)
<1>1. ClassifySession(Rules, n, FALSE).ids = Ids(f, Rules)
  BY VerdictOf
<1>2. f.protocol = protocol /\ f.auth_attempt_count = seen.auth /\ f.command_count = seen.count
  BY DEF Features
<1>. HIDE DEF f
<1>3. SUFFICES ASSUME NEW r \in Rules, r.id = "telnet_banner_probe_no_credentials",
                      \A c \in r.conditions : ConditionMatches(f, c)
               PROVE  FALSE
  BY <1>1 DEF Ids, EvaluateRules
<1>4. r.conditions = {Is("protocol", "telnet"), Is("auth_attempt_count", 0),
                      AtLeast("command_count", 1)}
  <2>1. r = TelnetProbe
    BY <1>3, TelnetProbeOfId
  <2>2. TelnetProbe.conditions = {Is("protocol", "telnet"), Is("auth_attempt_count", 0),
                                  AtLeast("command_count", 1)}
    BY DEF TelnetProbe, Rule
  <2>. QED
    BY <2>1, <2>2
<1>5. \A field, value : ConditionMatches(f, Is(field, value)) <=> f[field] = value
  BY DEF ConditionMatches, Is
<1>6. \A field, k : ConditionMatches(f, AtLeast(field, k)) => f[field] >= k
  BY DEF ConditionMatches, AtLeast
<1>7. f.protocol = "telnet" /\ f.auth_attempt_count = 0 /\ f.command_count >= 1
  BY <1>3, <1>4, <1>5, <1>6
<1>. QED
  BY <1>2, <1>7

(* The Telnet handler logs nothing but user names and passwords.           *)
LEMMA TelnetStep ==
    ASSUME TelnetInv, [VerdictNext]_verdictVars
    PROVE  TelnetInv'
<1>1. ASSUME Login PROVE TelnetInv'
  <2>1. final' = final /\ protocol' = protocol
    BY <1>1 DEF Login, LogCommand
  <2>2. ASSUME protocol = "telnet"
        PROVE  /\ at' \in {"user", "password", "end", "closed"}
               /\ seen'.count \in Nat /\ seen'.auth = seen'.count
    <3>1. at' \in {"user", "password", "end"}
      BY <1>1, <2>2 DEF Login, AfterPassword
    <3>2. CASE UNCHANGED seen
      BY <2>2, <3>1, <3>2 DEF TelnetInv
    <3>3. CASE \E l, now : Credential(l) /\ seen' = Observe(seen, "telnet", l, now)
      BY <2>2, <3>1, <3>3, TelnetLine DEF TelnetInv
    <3>4. \/ UNCHANGED seen
          \/ \E l, now : Credential(l) /\ seen' = Observe(seen, "telnet", l, now)
      BY <1>1, <2>2 DEF Login, LogCommand, Credential
    <3>. QED
      BY <3>2, <3>3, <3>4
  <2>. QED
    BY <2>1, <2>2 DEF TelnetInv, TelnetProbeUnnamed
<1>2. ASSUME NEW l, NEW gap, ShellLine(l, gap) PROVE TelnetInv'
  BY <1>2 DEF ShellLine, LogCommand, TelnetInv, TelnetProbeUnnamed
<1>3. ASSUME NEW l, NEW gap, FtpLine(l, gap) \/ HttpLine(l, gap) PROVE TelnetInv'
  BY <1>3 DEF FtpLine, HttpLine, LogCommand, TelnetInv, TelnetProbeUnnamed
<1>4. ASSUME HttpHeadersEnd PROVE TelnetInv'
  BY <1>4 DEF HttpHeadersEnd, TelnetInv, TelnetProbeUnnamed
<1>5. ASSUME LiveTick PROVE TelnetInv'
  BY <1>5 DEF LiveTick, TelnetInv, TelnetProbeUnnamed
<1>6. ASSUME NEW n, EndSession(n) PROVE TelnetInv'
  <2>1. final' = ClassifySession(Rules, n, FALSE)
    BY <1>6 DEF EndSession
  <2>2. TelnetProbeUnnamed'
    BY <2>1, TelnetVerdict DEF TelnetInv, TelnetProbeUnnamed
  <2>. QED
    BY <1>6, <2>2 DEF EndSession, TelnetInv
<1>7. CASE UNCHANGED verdictVars
  BY <1>7 DEF verdictVars, TelnetInv, TelnetProbeUnnamed
<1>. QED
  BY <1>1, <1>2, <1>3, <1>4, <1>5, <1>6, <1>7 DEF VerdictNext

(* No session that the Telnet listener records, nor any other, is ever     *)
(* named by telnet_banner_probe_no_credentials: the handler logs only user *)
(* names and passwords, each of which counts as an attempt, and a visitor  *)
(* who sends neither leaves a record without commands                      *)
(* (telnet_handler.py run, default_rules.yaml).                            *)
THEOREM TelnetProbeNeverNamed == VerdictSpec => []TelnetProbeUnnamed
<1>1. VerdictInit => TelnetInv
  <2>. SUFFICES ASSUME VerdictInit PROVE TelnetInv
    OBVIOUS
  <2>1. final.ids = {} /\ seen.count = 0 /\ seen.auth = 0
    BY DEF VerdictInit, NoVerdict, NothingSeen
  <2>2. protocol = "telnet" => at = "user"
    BY DEF VerdictInit, First
  <2>. QED
    BY <2>1, <2>2 DEF TelnetInv, TelnetProbeUnnamed
<1>2. TelnetInv /\ [VerdictNext]_verdictVars => TelnetInv'
  BY TelnetStep
<1>3. TelnetInv => TelnetProbeUnnamed
  BY DEF TelnetInv
<1>. QED
  BY <1>1, <1>2, <1>3, PTL DEF VerdictSpec
=============================================================================
