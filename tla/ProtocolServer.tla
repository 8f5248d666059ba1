---------------------------- MODULE ProtocolServer ----------------------------
(***************************************************************************)
(* The HTTP, FTP and Telnet listeners: connections accepted up to a limit, *)
(* one handler task each, the conversation it holds, the record it leaves  *)
(* in the session log, and the shutdown that cancels it                    *)
(* (honeypot/network/protocol_server.py, telnet_handler.py, ftp_handler.py *)
(* and http_handler.py; the event loop is modelled by what it does to a    *)
(* task).                                                                  *)
(*                                                                         *)
(* Everything runs on one event loop, so a step ends at an await.  A task  *)
(* that is cancelled gets CancelledError at the await it is suspended in,  *)
(* and never runs at all when it had not begun.                            *)
(***************************************************************************)
EXTENDS Naturals, FiniteSets

CONSTANTS Conns,          \* client connections
          KindOf,         \* the protocol each one speaks
          MaxConnections, \* max_connections
          MaxAttempts,    \* MAX_LOGIN_ATTEMPTS
          NoRecord        \* nothing in the session log

ASSUME ProtocolConstants ==
    /\ KindOf \in [Conns -> {"telnet", "ftp", "http"}]
    /\ MaxConnections \in Nat \ {0} /\ MaxAttempts \in Nat \ {0}
    /\ IsFiniteSet(Conns)

VARIABLES
    waits,     \* Python 3.12 and later: Server.wait_closed waits for clients
    server,    \* "listening", and how far shutdown has come
    tasks,     \* self.tasks
    snapshot,  \* the tasks shutdown() cancels and gathers
    at,        \* where each connection's handler is
    cancel,    \* task.cancel() was called and not yet delivered
    attempts,  \* login attempts made (Telnet)
    commands,  \* entries of session._commands
    reason,    \* end_reason
    record     \* the session's line in the log

serverVars  == <<waits, server, tasks, snapshot>>
sessionVars == <<attempts, commands, reason, record>>
vars == <<serverVars, at, cancel, sessionVars>>

Reasons == {"disconnect", "timeout", "error", "shutdown"}

ASSUME NoRecordAssumption == NoRecord \notin [reason : Reasons, commands : 0..(2 * MaxAttempts)]

(* The awaits of the three conversations. *)
Stages == {"drain", "login", "password", "user", "pass", "headers", "body"}

FirstStage(c) ==
    CASE KindOf[c] = "telnet" -> "drain" [] KindOf[c] = "ftp" -> "user" [] OTHER -> "headers"

Init ==
    /\ waits \in BOOLEAN
    /\ server = "listening"
    /\ tasks = {}
    /\ snapshot = {}
    /\ at = [c \in Conns |-> "away"]
    /\ cancel = [c \in Conns |-> FALSE]
    /\ attempts = [c \in Conns |-> 0]
    /\ commands = [c \in Conns |-> 0]
    /\ reason = [c \in Conns |-> "disconnect"]
    /\ record = [c \in Conns |-> NoRecord]

-----------------------------------------------------------------------------
(* A connection is accepted; its _handle_client has yet to run. *)
Accept(c) ==
    /\ server = "listening" /\ at[c] = "away"
    /\ at' = [at EXCEPT ![c] = "accepted"]
    /\ UNCHANGED <<serverVars, cancel, sessionVars>>

(* _handle_client: refused at the limit, or when no handler can be made... *)
Refuse(c) ==
    /\ at[c] = "accepted" /\ server # "over"
    /\ at' = [at EXCEPT ![c] = "refused"]
    /\ UNCHANGED <<serverVars, cancel, sessionVars>>

(* Mutant: the task joins the set when it starts. *)
HandleClientLate(c) ==
    /\ at[c] = "accepted" /\ server # "over"
    /\ Cardinality(tasks) < MaxConnections
    /\ at' = [at EXCEPT ![c] = "created"]
    /\ tasks' = tasks \cup {d \in Conns : at[d] \in Stages}
    /\ UNCHANGED <<waits, server, snapshot, cancel, sessionVars>>

(* ... or given a task, which the set counts from now on. *)
HandleClient(c) ==
    /\ at[c] = "accepted" /\ server # "over"
    /\ Cardinality(tasks) < MaxConnections
    /\ at' = [at EXCEPT ![c] = "created"]
    /\ tasks' = tasks \cup {c}
    /\ UNCHANGED <<waits, server, snapshot, cancel, sessionVars>>

(* The task's done callback. *)
Discard(c) ==
    /\ at[c] = "ended" /\ c \in tasks
    /\ tasks' = tasks \ {c}
    /\ UNCHANGED <<waits, server, snapshot, at, cancel, sessionVars>>

-----------------------------------------------------------------------------
(* handle() begins its conversation. *)
Start(c) ==
    /\ at[c] = "created" /\ ~cancel[c]
    /\ at' = [at EXCEPT ![c] = FirstStage(c)]
    /\ UNCHANGED <<serverVars, cancel, sessionVars>>

Talking(c) == at[c] \in Stages /\ ~cancel[c]

(* The conversation goes on, n more lines having been logged. *)
Continue(c, stage, n) ==
    /\ at' = [at EXCEPT ![c] = stage]
    /\ commands' = [commands EXCEPT ![c] = @ + n]
    /\ UNCHANGED <<serverVars, cancel, reason, record>>

(* The conversation is over: the finally clause closes the connection and  *)
(* waits for that.                                                         *)
Leave(c, why, n) ==
    /\ at' = [at EXCEPT ![c] = "closing"]
    /\ reason' = [reason EXCEPT ![c] = why]
    /\ commands' = [commands EXCEPT ![c] = @ + n]
    /\ UNCHANGED <<serverVars, cancel, record>>

(* _drain_iac: what the client sends at once, or nothing within 2 s. *)
Drain(c) ==
    /\ Talking(c) /\ at[c] = "drain"
    /\ Continue(c, "login", 0)
    /\ UNCHANGED attempts

(* A user name that is not blank is logged, then the password. *)
TelnetLogin(c, n) ==
    /\ Talking(c) /\ at[c] = "login"
    /\ Continue(c, "password", n)
    /\ UNCHANGED attempts

(* The password; every attempt is rejected, and the last one ends it. *)
TelnetPassword(c, n) ==
    /\ Talking(c) /\ at[c] = "password"
    /\ attempts' = [attempts EXCEPT ![c] = @ + 1]
    /\ IF attempts[c] + 1 < MaxAttempts THEN Continue(c, "login", n)
       ELSE Leave(c, "disconnect", n)

(* The first message: USER goes on to the password, anything else ends it. *)
FtpUser(c) ==
    /\ Talking(c) /\ at[c] = "user"
    /\ Continue(c, "pass", 1) \/ Leave(c, "disconnect", 1)
    /\ UNCHANGED attempts

FtpPass(c) ==
    /\ Talking(c) /\ at[c] = "pass"
    /\ Leave(c, "disconnect", 1)
    /\ UNCHANGED attempts

(* The request and the headers worth keeping; a POST goes on to its body. *)
HttpHeaders(c, n) ==
    /\ Talking(c) /\ at[c] = "headers"
    /\ Continue(c, "body", n) \/ Leave(c, "disconnect", n)
    /\ UNCHANGED attempts

HttpBody(c, n) ==
    /\ Talking(c) /\ at[c] = "body"
    /\ Leave(c, "disconnect", n)
    /\ UNCHANGED attempts

(* The client sends no more. *)
EndOfInput(c) ==
    /\ Talking(c) /\ at[c] # "drain"
    /\ Leave(c, "disconnect", 0)
    /\ UNCHANGED attempts

(* Mutant: the body of a POST is awaited without a timeout. *)
ReadTimeoutNotInBody(c) ==
    /\ Talking(c) /\ at[c] \notin {"drain", "body"}
    /\ Leave(c, "timeout", 0)
    /\ UNCHANGED attempts

(* Every read but the first of Telnet gives up after a timeout. *)
ReadTimeout(c) ==
    /\ Talking(c) /\ at[c] # "drain"
    /\ Leave(c, "timeout", 0)
    /\ UNCHANGED attempts

(* The connection breaks, or anything else raises: only Telnet takes a     *)
(* broken connection for a disconnect.                                     *)
Fails(c) ==
    /\ Talking(c)
    /\ \/ Leave(c, "error", 0)
       \/ KindOf[c] = "telnet" /\ Leave(c, "disconnect", 0)
    /\ UNCHANGED attempts

(* CancelledError in the conversation. *)
Cancelled(c) ==
    /\ at[c] \in Stages /\ cancel[c]
    /\ at' = [at EXCEPT ![c] = "closing"]
    /\ reason' = [reason EXCEPT ![c] = "shutdown"]
    /\ cancel' = [cancel EXCEPT ![c] = FALSE]
    /\ UNCHANGED <<serverVars, attempts, commands, record>>

(* The connection is closed: the session is finalized, logged and          *)
(* scheduled.                                                              *)
Closed(c) ==
    /\ at[c] = "closing" /\ ~cancel[c]
    /\ at' = [at EXCEPT ![c] = "ended"]
    /\ record' = [record EXCEPT ![c] = [reason |-> reason[c], commands |-> commands[c]]]
    /\ UNCHANGED <<serverVars, cancel, attempts, commands, reason>>

(* CancelledError while the connection closes, which "except Exception"    *)
(* lets through, or before the task began: nothing is logged.              *)
CancelledUnlogged(c) ==
    /\ at[c] \in {"created", "closing"} /\ cancel[c]
    /\ at' = [at EXCEPT ![c] = "ended"]
    /\ cancel' = [cancel EXCEPT ![c] = FALSE]
    /\ UNCHANGED <<serverVars, sessionVars>>

-----------------------------------------------------------------------------
(* shutdown(): the server stops listening... *)
Close ==
    /\ server = "listening"
    /\ server' = "closing"
    /\ UNCHANGED <<waits, tasks, snapshot, at, cancel, sessionVars>>

(* The connections wait_closed waits for, where it waits. *)
Running == {c \in Conns : at[c] \in Stages \cup {"created", "closing"}}

(* Mutant: a connection counts until it begins to close. *)
OpenNotClosing == {c \in Conns : at[c] \in Stages \cup {"accepted", "created"}}

OpenConnections == Running \cup {c \in Conns : at[c] = "accepted"}

CancelTasks(S) == cancel' = [c \in Conns |-> cancel[c] \/ c \in S \cap Running]

(* ... wait_closed returns and the tasks of the moment are cancelled ... *)
CancelAll ==
    /\ server = "closing"
    /\ waits => OpenConnections = {}
    /\ server' = "gathering"
    /\ snapshot' = tasks
    /\ CancelTasks(tasks)
    /\ UNCHANGED <<waits, tasks, at, sessionVars>>

(* ... and gathered. *)
Gathered ==
    /\ server = "gathering"
    /\ \A c \in snapshot : at[c] = "ended"
    /\ server' = "down"
    /\ UNCHANGED <<waits, tasks, snapshot, at, cancel, sessionVars>>

(* main returns: asyncio.run cancels every task that is left. *)
LoopEnds ==
    /\ server = "down"
    /\ server' = "over"
    /\ CancelTasks(Conns)
    /\ UNCHANGED <<waits, tasks, snapshot, at, sessionVars>>

Conversation(c) ==
    \/ Drain(c)
    \/ \E n \in 0..1 : \/ TelnetLogin(c, n) \/ TelnetPassword(c, n)
                     \/ HttpHeaders(c, n) \/ HttpBody(c, n)
    \/ FtpUser(c) \/ FtpPass(c)
    \/ EndOfInput(c) \/ Fails(c)

HandlerStep(c) ==
    \/ Start(c) \/ Conversation(c) \/ ReadTimeout(c)
    \/ Cancelled(c) \/ Closed(c) \/ CancelledUnlogged(c)

Next ==
    \/ \E c \in Conns : Accept(c) \/ Refuse(c) \/ HandleClient(c) \/ Discard(c) \/ HandlerStep(c)
    \/ Close \/ CancelAll \/ Gathered \/ LoopEnds

Spec == Init /\ [][Next]_vars

(* The event loop resumes what is ready: a read that times out, the end of *)
(* the 2 s drain, a task that was cancelled, a connection that closed (TCP *)
(* gives up on a peer that stays silent).  Nothing is expected of clients. *)
FairSpec ==
    /\ Spec
    /\ \A c \in Conns : /\ WF_vars(Start(c)) /\ WF_vars(Drain(c)) /\ WF_vars(ReadTimeout(c))
                        /\ WF_vars(Cancelled(c)) /\ WF_vars(Closed(c))
                        /\ WF_vars(CancelledUnlogged(c))
                        /\ WF_vars(Refuse(c) \/ HandleClient(c))
    /\ WF_vars(CancelAll) /\ WF_vars(Gathered) /\ WF_vars(LoopEnds)

-----------------------------------------------------------------------------
(* Type of the state. *)
TypeOK ==
    /\ waits \in BOOLEAN
    /\ server \in {"listening", "closing", "gathering", "down", "over"}
    /\ tasks \subseteq Conns /\ snapshot \subseteq Conns
    /\ at \in [Conns -> Stages \cup {"away", "accepted", "refused", "created", "closing", "ended"}]
    /\ cancel \in [Conns -> BOOLEAN]
    /\ attempts \in [Conns -> 0..MaxAttempts]
    /\ commands \in [Conns -> 0..(2 * MaxAttempts)]
    /\ reason \in [Conns -> Reasons]
    /\ record \in [Conns -> {NoRecord} \cup [reason : Reasons, commands : 0..(2 * MaxAttempts)]]

(* Never more conversations than the limit, though connections are         *)
(* accepted, checked, started and cleaned up in separate steps             *)
(* (_handle_client, the done callback).                                    *)
WithinLimit == TypeOK /\ Cardinality(Running) <= MaxConnections

(* A handler ends, whatever the client sends or does not send ("without    *)
(* letting one connection loop forever", telnet_handler.py), and so does   *)
(* shutdown().                                                             *)
EverythingEnds ==
    /\ \A c \in Conns : at[c] = "created" ~> at[c] = "ended"
    /\ server = "closing" ~> server = "down"

(* "Every completed session is logged" (README.md): a handler that has     *)
(* ended has left a record of whatever it captured.                        *)
CapturedIsLogged ==
    \A c \in Conns : at[c] = "ended" /\ commands[c] > 0 =>
        record[c] # NoRecord /\ record[c].commands = commands[c]

(* Where wait_closed waits for the clients, shutdown ("Stop accepting      *)
(* connections and cancel active handler tasks") loses nothing: no handler *)
(* is cancelled before it has logged what it captured, and none runs any   *)
(* more once shutdown has returned and the pipeline stops taking sessions. *)
WaitedLosesNothing ==
    waits => /\ CapturedIsLogged
             /\ server \in {"down", "over"} => Running = {}
=============================================================================
