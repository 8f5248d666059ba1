------------------------------ MODULE SshServer ------------------------------
(***************************************************************************)
(* The SSH listener: connections admitted up to a limit, the login every   *)
(* client passes, the fake shells opened over a connection, and the one    *)
(* record a connection leaves in the session log, written by whichever of  *)
(* connection_lost and handle_shell comes first                            *)
(* (honeypot/network/ssh_server.py; asyncssh is modelled by the callbacks  *)
(* it makes).                                                              *)
(*                                                                         *)
(* Everything runs on one event loop, so a step ends at an await.  A       *)
(* client may open several channels over one connection, one after the     *)
(* other or at the same time; asyncssh runs handle_shell for each.         *)
(***************************************************************************)
EXTENDS Naturals, FiniteSets, FiniteSetsExt

CONSTANTS Conns,          \* client connections
          Channels,       \* session channels
          ConnOf,         \* the connection each channel is opened over
          MaxConnections, \* max_connections
          MaxCommands,    \* bound: lines logged per connection
          NoRecord        \* nothing in the session log

ASSUME SshConstants ==
    /\ ConnOf \in [Channels -> Conns]
    /\ MaxConnections \in Nat \ {0} /\ MaxCommands \in Nat
    /\ IsFiniteSet(Conns)

VARIABLES
    waits,      \* Python 3.12 and later: Server.wait_closed waits for clients
    listener,   \* "listening", and how far shutdown() has come
    aborted,    \* the connections shutdown() aborts
    count,      \* _active_count
    active,     \* _active_connections
    phase,      \* how far each connection has come
    stage,      \* session.end_stage
    typed,      \* entries of session.commands
    shell,      \* where each handle_shell is
    why,        \* the end_reason it has found
    endReason,  \* server.end_reason
    finalized,  \* server._finalized
    record,     \* the session's line in the log
    writes      \* history: lines written to the log for it

listenerVars == <<waits, listener, aborted>>
connVars  == <<phase, stage, typed>>
slotVars  == <<count, active>>
shellVars == <<shell, why>>
logVars   == <<endReason, finalized, record, writes>>
vars == <<listenerVars, slotVars, connVars, shellVars, logVars>>

Reasons == {"disconnect", "timeout", "error", "logout", "shutdown"}

(* How asyncssh says a connection ended. *)
Losses == {"closed", "timeout", "not_ssh", "kex_failed", "protocol_error"}

(* A connection that holds a session. *)
Open == {"made", "version", "auth", "password", "open"}

Init ==
    /\ waits \in BOOLEAN
    /\ listener = "listening"
    /\ aborted = {}
    /\ count = 0
    /\ active = {}
    /\ phase = [c \in Conns |-> "away"]
    /\ stage = [c \in Conns |-> "none"]
    /\ typed = [c \in Conns |-> 0]
    /\ shell = [h \in Channels |-> "none"]
    /\ why = [h \in Channels |-> "disconnect"]
    /\ endReason = [c \in Conns |-> "disconnect"]
    /\ finalized = [c \in Conns |-> FALSE]
    /\ record = [c \in Conns |-> NoRecord]
    /\ writes = [c \in Conns |-> 0]

-----------------------------------------------------------------------------
(* Mutant: every caller writes the record. *)
FinalizeAgain(c, reason, st, n) ==
    /\ finalized' = [finalized EXCEPT ![c] = TRUE]
    /\ record' = [record EXCEPT ![c] = [reason |-> reason, stage |-> st, commands |-> n]]
    /\ writes' = [writes EXCEPT ![c] = @ + 1]

(* _finalize: the first caller writes the record. *)
Finalize(c, reason, st, n) ==
    \/ finalized[c] /\ UNCHANGED <<finalized, record, writes>>
    \/ /\ ~finalized[c]
       /\ finalized' = [finalized EXCEPT ![c] = TRUE]
       /\ record' = [record EXCEPT ![c] = [reason |-> reason, stage |-> st, commands |-> n]]
       /\ writes' = [writes EXCEPT ![c] = @ + 1]

(* connection_made: admitted, or refused and aborted at once. *)
Admit(c) ==
    /\ listener = "listening" /\ phase[c] = "away"
    /\ count < MaxConnections
    /\ count' = count + 1
    /\ active' = active \cup {c}
    /\ phase' = [phase EXCEPT ![c] = "made"]
    /\ UNCHANGED <<listenerVars, stage, typed, shellVars, logVars>>

Refuse(c) ==
    /\ listener = "listening" /\ phase[c] = "away"
    /\ count >= MaxConnections
    /\ phase' = [phase EXCEPT ![c] = "refused"]
    /\ UNCHANGED <<listenerVars, slotVars, stage, typed, shellVars, logVars>>

(* The client's version line arrives. *)
Version(c) ==
    /\ phase[c] = "made"
    /\ phase' = [phase EXCEPT ![c] = "version"]
    /\ UNCHANGED <<listenerVars, slotVars, stage, typed, shellVars, logVars>>

BeginAuth(c) ==
    /\ phase[c] = "version"
    /\ phase' = [phase EXCEPT ![c] = "auth"]
    /\ UNCHANGED <<listenerVars, slotVars, stage, typed, shellVars, logVars>>

(* validate_password logs the user name and the password that are not      *)
(* blank, and accepts them after a delay.                                  *)
ValidatePassword(c, n) ==
    /\ phase[c] = "auth"
    /\ typed[c] + n <= MaxCommands
    /\ phase' = [phase EXCEPT ![c] = "password"]
    /\ typed' = [typed EXCEPT ![c] = @ + n]
    /\ UNCHANGED <<listenerVars, slotVars, stage, shellVars, logVars>>

PasswordAccepted(c) ==
    /\ phase[c] = "password"
    /\ phase' = [phase EXCEPT ![c] = "open"]
    /\ UNCHANGED <<listenerVars, slotVars, stage, typed, shellVars, logVars>>

-----------------------------------------------------------------------------
(* handle_shell begins. *)
OpenShell(h) ==
    LET c == ConnOf[h] IN
    /\ phase[c] = "open" /\ shell[h] = "none"
    /\ shell' = [shell EXCEPT ![h] = "running"]
    /\ stage' = [stage EXCEPT ![c] = "shell"]
    /\ UNCHANGED <<listenerVars, slotVars, phase, typed, why, logVars>>

(* engine.process: a line is logged and answered, and the next one is read. *)
Command(h) ==
    LET c == ConnOf[h] IN
    /\ shell[h] = "running" /\ phase[c] = "open"
    /\ typed[c] < MaxCommands
    /\ typed' = [typed EXCEPT ![c] = @ + 1]
    /\ UNCHANGED <<listenerVars, slotVars, phase, stage, shellVars, logVars>>

(* The one command of `ssh host command`, or `exit`: logged, and the last. *)
LastCommand(h, reason) ==
    LET c == ConnOf[h] IN
    /\ shell[h] = "running" /\ phase[c] = "open"
    /\ typed[c] < MaxCommands
    /\ reason \in {"disconnect", "logout"}
    /\ typed' = [typed EXCEPT ![c] = @ + 1]
    /\ shell' = [shell EXCEPT ![h] = "finishing"]
    /\ why' = [why EXCEPT ![h] = reason]
    /\ UNCHANGED <<listenerVars, slotVars, phase, stage, logVars>>

(* The shell ends with nothing typed: end of input, the read timeout, an   *)
(* error, or the event loop cancelling what is left when the program ends. *)
ShellEnds(h, reason) ==
    /\ shell[h] = "running"
    /\ reason # "logout"
    /\ reason = "shutdown" => listener = "down"
    /\ shell' = [shell EXCEPT ![h] = "finishing"]
    /\ why' = [why EXCEPT ![h] = reason]
    /\ UNCHANGED <<listenerVars, slotVars, connVars, logVars>>

(* After the live classifier's task has been awaited: the end reason is    *)
(* noted, the session finalized and the channel closed.                    *)
ShellFinish(h) ==
    LET c == ConnOf[h] IN
    /\ shell[h] = "finishing"
    /\ shell' = [shell EXCEPT ![h] = "done"]
    /\ endReason' = [endReason EXCEPT ![c] = why[h]]
    /\ Finalize(c, why[h], stage[c], typed[c])
    /\ UNCHANGED <<listenerVars, slotVars, connVars, why>>

-----------------------------------------------------------------------------
(* _stage_at_close *)
StageAtClose(c, loss) ==
    CASE loss = "not_ssh" -> "not_ssh"
      [] loss = "kex_failed" -> "key_exchange_failed"
      [] OTHER -> CASE phase[c] = "made" -> "no_version"
                    [] phase[c] = "version" -> "before_auth"
                    [] phase[c] = "auth" -> "auth_without_password"
                    [] OTHER -> "after_password"

(* Mutant: the stage is worked out again for every connection that ends. *)
StageClosedAlways(c, loss) == StageAtClose(c, loss)

(* connection_lost keeps the stage of a session that opened a shell. *)
StageClosed(c, loss) == IF stage[c] = "none" THEN StageAtClose(c, loss) ELSE stage[c]

(* _end_reason_at_close *)
EndReasonAtClose(c, loss) ==
    CASE loss = "closed" -> endReason[c]
      [] loss = "timeout" -> "timeout"
      [] OTHER -> "error"

(* The losses asyncssh can report at each phase. *)
Possible(c, loss) ==
    /\ loss = "not_ssh" => phase[c] = "made"
    /\ loss = "kex_failed" => phase[c] = "version"

(* connection_lost of an admitted connection. *)
ConnectionLost(c, loss) ==
    /\ phase[c] \in Open /\ Possible(c, loss)
    /\ phase' = [phase EXCEPT ![c] = "lost"]
    /\ count' = Max({0, count - 1})
    /\ active' = active \ {c}
    /\ stage' = [stage EXCEPT ![c] = StageClosed(c, loss)]
    /\ Finalize(c, EndReasonAtClose(c, loss), StageClosed(c, loss), typed[c])
    /\ UNCHANGED <<listenerVars, typed, shellVars, endReason>>

(* Mutant: a refused connection gives back a slot it never had. *)
RefusedLostReleases(c) ==
    /\ phase[c] = "refused"
    /\ phase' = [phase EXCEPT ![c] = "lost"]
    /\ count' = Max({0, count - 1})
    /\ active' = active \ {c}
    /\ UNCHANGED <<listenerVars, stage, typed, shellVars, logVars>>

(* connection_lost of a refused one: it has no slot and no session. *)
RefusedLost(c) ==
    /\ phase[c] = "refused"
    /\ phase' = [phase EXCEPT ![c] = "lost"]
    /\ UNCHANGED <<listenerVars, slotVars, stage, typed, shellVars, logVars>>

-----------------------------------------------------------------------------
(* shutdown(): stop accepting... *)
Close ==
    /\ listener = "listening"
    /\ listener' = "closed"
    /\ UNCHANGED <<waits, aborted, slotVars, connVars, shellVars, logVars>>

(* Mutant: the connections are aborted only once there are none. *)
AbortNone ==
    /\ listener = "closed" /\ active = {}
    /\ listener' = "aborting"
    /\ aborted' = {}
    /\ UNCHANGED <<waits, slotVars, connVars, shellVars, logVars>>

(* ... wait_closed() returns, and every connection left is aborted ... *)
Abort ==
    /\ listener = "closed"
    /\ waits => active = {}
    /\ listener' = "aborting"
    /\ aborted' = active
    /\ UNCHANGED <<waits, slotVars, connVars, shellVars, logVars>>

(* ... and waited for. *)
Down ==
    /\ listener = "aborting"
    /\ \A c \in aborted : phase[c] = "lost"
    /\ listener' = "down"
    /\ UNCHANGED <<waits, aborted, slotVars, connVars, shellVars, logVars>>

Next ==
    \/ \E c \in Conns :
          \/ Admit(c) \/ Refuse(c) \/ Version(c) \/ BeginAuth(c)
          \/ \E n \in 0..2 : ValidatePassword(c, n)
          \/ PasswordAccepted(c)
          \/ \E loss \in Losses : ConnectionLost(c, loss)
          \/ RefusedLost(c)
    \/ \E h \in Channels :
          \/ OpenShell(h) \/ Command(h)
          \/ \E reason \in Reasons : LastCommand(h, reason) \/ ShellEnds(h, reason)
          \/ ShellFinish(h)
    \/ Close \/ Abort \/ Down

Spec == Init /\ [][Next]_vars

(* A read in the shell times out (READ_TIMEOUT), the event loop resumes    *)
(* what is ready, and asyncssh closes what shutdown() aborts.  Nothing     *)
(* makes a client close its connection.                                    *)
FairSpec ==
    /\ Spec
    /\ \A h \in Channels : /\ WF_vars(\E reason \in Reasons : ShellEnds(h, reason))
                           /\ WF_vars(ShellFinish(h))
    /\ \A c \in Conns : WF_vars(c \in aborted /\ ConnectionLost(c, "closed"))
    /\ WF_vars(Abort) /\ WF_vars(Down)

-----------------------------------------------------------------------------
Stages == {"shell", "not_ssh", "key_exchange_failed", "no_version", "before_auth",
           "auth_without_password", "after_password"}

(* Type of the state. *)
TypeOK ==
    /\ waits \in BOOLEAN
    /\ listener \in {"listening", "closed", "aborting", "down"}
    /\ aborted \subseteq Conns
    /\ count \in Nat /\ active \subseteq Conns
    /\ phase \in [Conns -> Open \cup {"away", "refused", "lost"}]
    /\ stage \in [Conns -> Stages \cup {"none"}]
    /\ typed \in [Conns -> 0..MaxCommands]
    /\ shell \in [Channels -> {"none", "running", "finishing", "done"}]
    /\ why \in [Channels -> Reasons]
    /\ endReason \in [Conns -> Reasons]
    /\ finalized \in [Conns -> BOOLEAN]
    /\ record \in [Conns -> {NoRecord} \cup
                     [reason : Reasons, stage : Stages, commands : 0..MaxCommands]]
    /\ writes \in [Conns -> Nat]

(* The limit counts exactly the connections that are being served: none is *)
(* counted twice, released twice or released without having been admitted  *)
(* (_admit, _release, _admitted).                                          *)
SlotsExact ==
    /\ TypeOK
    /\ active = {c \in Conns : phase[c] \in Open}
    /\ count = Cardinality(active)
    /\ count <= MaxConnections

(* "Log the session exactly once, however the connection ended"            *)
(* (_finalize): never twice, and never missing once the connection is gone *)
(* or one of its shells has finished; and none is left to be logged once   *)
(* shutdown() has returned, when the pipeline stops taking sessions (main).*)
LoggedOnce ==
    \A c \in Conns :
        /\ writes[c] <= 1
        /\ stage[c] # "none" /\ phase[c] = "lost" => writes[c] = 1
        /\ (\E h \in Channels : ConnOf[h] = c /\ shell[h] = "done") => writes[c] = 1
        /\ listener = "down" /\ stage[c] # "none" => writes[c] = 1

(* A connection that opened a shell is recorded as having reached it,      *)
(* however it ended; one that did not is never recorded as having.         *)
StageTruthful ==
    \A c \in Conns : record[c] # NoRecord =>
        (record[c].stage = "shell" <=> \E h \in Channels : ConnOf[h] = c /\ shell[h] # "none")

(* Nothing waits for a client for ever: a shell gets its session logged    *)
(* even if the client keeps its connection open (handle_shell's read       *)
(* timeout and cleanup), and shutdown ("Stop accepting clients and close   *)
(* active sessions") ends, where wait_closed does not wait for clients.    *)
EverythingEnds ==
    /\ \A h \in Channels : shell[h] = "running" ~> finalized[ConnOf[h]]
    /\ listener = "closed" /\ ~waits ~> listener = "down"
=============================================================================
