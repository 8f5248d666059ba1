------------------------- MODULE ProtocolServerProofs -------------------------
(***************************************************************************)
(* The HTTP, FTP and Telnet listeners for any number of connections, any   *)
(* limit and any number of login attempts: the limit holds, and where      *)
(* wait_closed waits for the clients, shutdown loses nothing.  The         *)
(* inductive invariant is ListenerInv.                                     *)
(***************************************************************************)
EXTENDS ProtocolServer, FiniteSetTheorems, TLAPS

(* How many lines a conversation can have logged when it has come so far.  *)
Lines(c) ==
    /\ at[c] \in {"away", "accepted", "refused", "created", "drain"} =>
           attempts[c] = 0 /\ commands[c] = 0
    /\ at[c] \in {"login", "password"} => attempts[c] < MaxAttempts
    /\ at[c] = "login" => commands[c] <= 2 * attempts[c]
    /\ at[c] = "password" => commands[c] <= 2 * attempts[c] + 1
    /\ at[c] \in {"user", "headers"} => commands[c] = 0
    /\ at[c] \in {"pass", "body"} => commands[c] <= 1

TypeInv == TypeOK /\ \A c \in Conns : Lines(c)

(* A handler that runs is a task, and tasks are counted against the limit. *)
TasksInv == Running \subseteq tasks /\ Cardinality(tasks) <= MaxConnections

(* Where wait_closed waits nobody is left to cancel.                       *)
WaitInv ==
    waits => /\ \A c \in Conns : ~cancel[c]
             /\ server \notin {"listening", "closing"} => OpenConnections = {}
             /\ CapturedIsLogged

ListenerInv == TypeInv /\ TasksInv /\ WaitInv

(* Every step keeps the types.                                             *)
LEMMA TypeStep ==
    ASSUME TypeInv, [Next]_vars
    PROVE  TypeInv'
<1>. USE ProtocolConstants DEF TypeInv, TypeOK, Lines, Stages, Reasons, Talking, Continue, Leave, FirstStage,
         CancelTasks, serverVars, sessionVars
<1>1. ASSUME NEW c \in Conns, Accept(c) PROVE TypeInv'
  BY <1>1 DEF Accept
<1>2. ASSUME NEW c \in Conns, Refuse(c) PROVE TypeInv'
  BY <1>2 DEF Refuse
<1>3. ASSUME NEW c \in Conns, HandleClient(c) PROVE TypeInv'
  BY <1>3 DEF HandleClient
<1>4. ASSUME NEW c \in Conns, Discard(c) PROVE TypeInv'
  BY <1>4 DEF Discard
<1>5. ASSUME NEW c \in Conns, Start(c) PROVE TypeInv'
  BY <1>5 DEF Start
<1>6. ASSUME NEW c \in Conns, Drain(c) PROVE TypeInv'
  BY <1>6 DEF Drain
<1>7. ASSUME NEW c \in Conns, NEW n \in 0..1, TelnetLogin(c, n) PROVE TypeInv'
  BY <1>7 DEF TelnetLogin
<1>8. ASSUME NEW c \in Conns, NEW n \in 0..1, TelnetPassword(c, n) PROVE TypeInv'
  BY <1>8 DEF TelnetPassword
<1>9. ASSUME NEW c \in Conns, FtpUser(c) PROVE TypeInv'
  BY <1>9 DEF FtpUser
<1>10. ASSUME NEW c \in Conns, FtpPass(c) PROVE TypeInv'
  BY <1>10 DEF FtpPass
<1>11. ASSUME NEW c \in Conns, NEW n \in 0..1, HttpHeaders(c, n) PROVE TypeInv'
  BY <1>11 DEF HttpHeaders
<1>12. ASSUME NEW c \in Conns, NEW n \in 0..1, HttpBody(c, n) PROVE TypeInv'
  BY <1>12 DEF HttpBody
<1>13. ASSUME NEW c \in Conns, EndOfInput(c) PROVE TypeInv'
  BY <1>13 DEF EndOfInput
<1>14. ASSUME NEW c \in Conns, ReadTimeout(c) PROVE TypeInv'
  BY <1>14 DEF ReadTimeout
<1>15. ASSUME NEW c \in Conns, Fails(c) PROVE TypeInv'
  BY <1>15 DEF Fails
<1>16. ASSUME NEW c \in Conns, Cancelled(c) PROVE TypeInv'
  BY <1>16 DEF Cancelled
<1>17. ASSUME NEW c \in Conns, Closed(c) PROVE TypeInv'
  BY <1>17 DEF Closed
<1>18. ASSUME NEW c \in Conns, CancelledUnlogged(c) PROVE TypeInv'
  BY <1>18 DEF CancelledUnlogged
<1>19. ASSUME Close PROVE TypeInv'
  BY <1>19 DEF Close
<1>20. ASSUME CancelAll PROVE TypeInv'
  BY <1>20 DEF CancelAll
<1>21. ASSUME Gathered PROVE TypeInv'
  BY <1>21 DEF Gathered
<1>22. ASSUME LoopEnds PROVE TypeInv'
  BY <1>22 DEF LoopEnds
<1>23. CASE UNCHANGED vars
  BY <1>23 DEF vars
<1>. QED
  BY <1>1, <1>2, <1>3, <1>4, <1>5, <1>6, <1>7, <1>8, <1>9, <1>10, <1>11, <1>12, <1>13, <1>14, <1>15,
     <1>16, <1>17, <1>18, <1>19, <1>20, <1>21, <1>22, <1>23 DEF Next, HandlerStep, Conversation

(* Only _handle_client makes a task, and only below the limit.             *)
LEMMA TasksStep ==
    ASSUME TypeOK, TasksInv, [Next]_vars
    PROVE  TasksInv'
<1>. USE ProtocolConstants DEF TypeOK, TasksInv, Running, Stages, Talking, Continue, Leave, FirstStage,
         CancelTasks, serverVars, sessionVars
<1>0. IsFiniteSet(tasks)
  BY FS_Subset
<1>1. ASSUME NEW c \in Conns, Accept(c) PROVE TasksInv'
  BY <1>1 DEF Accept
<1>2. ASSUME NEW c \in Conns, Refuse(c) PROVE TasksInv'
  BY <1>2 DEF Refuse
<1>3. ASSUME NEW c \in Conns, HandleClient(c) PROVE TasksInv'
  <2>1. tasks' = tasks \cup {c} /\ Cardinality(tasks) < MaxConnections
    BY <1>3 DEF HandleClient
  <2>2. Cardinality(tasks') <= Cardinality(tasks) + 1 /\ Cardinality(tasks) \in Nat
    <3>1. Cardinality(tasks) \in Nat
      BY <1>0, FS_CardinalityType
    <3>2. Cardinality(tasks \cup {c}) = IF c \in tasks THEN Cardinality(tasks) ELSE Cardinality(tasks) + 1
      BY ONLY <1>0, FS_AddElement
    <3>. QED
      BY <2>1, <3>1, <3>2
  <2>3. Cardinality(tasks') <= MaxConnections
    <3>1. Cardinality(tasks') \in Nat
      BY <2>1, <1>0, FS_AddElement, FS_CardinalityType
    <3>. QED
      BY <2>1, <2>2, <3>1, ProtocolConstants
  <2>4. Running' \subseteq tasks'
    BY <1>3 DEF HandleClient
  <2>. QED
    BY <2>3, <2>4
<1>4. ASSUME NEW c \in Conns, Discard(c) PROVE TasksInv'
  <2>1. tasks' = tasks \ {c} /\ c \in tasks
    BY <1>4 DEF Discard
  <2>2. Cardinality(tasks') <= MaxConnections
    <3>1. tasks' \subseteq tasks
      BY <2>1
    <3>2. IsFiniteSet(tasks') /\ Cardinality(tasks') <= Cardinality(tasks)
      BY <3>1, <1>0, FS_Subset
    <3>3. Cardinality(tasks') \in Nat /\ Cardinality(tasks) \in Nat
      BY <3>2, <1>0, FS_CardinalityType
    <3>. QED
      BY <3>2, <3>3, ProtocolConstants
  <2>3. Running' \subseteq tasks'
    BY <1>4 DEF Discard
  <2>. QED
    BY <2>2, <2>3
<1>5. ASSUME NEW c \in Conns, Start(c) PROVE TasksInv'
  BY <1>5 DEF Start
<1>6. ASSUME NEW c \in Conns, Drain(c) PROVE TasksInv'
  BY <1>6 DEF Drain
<1>7. ASSUME NEW c \in Conns, NEW n \in 0..1, TelnetLogin(c, n) PROVE TasksInv'
  BY <1>7 DEF TelnetLogin
<1>8. ASSUME NEW c \in Conns, NEW n \in 0..1, TelnetPassword(c, n) PROVE TasksInv'
  BY <1>8 DEF TelnetPassword
<1>9. ASSUME NEW c \in Conns, FtpUser(c) PROVE TasksInv'
  BY <1>9 DEF FtpUser
<1>10. ASSUME NEW c \in Conns, FtpPass(c) PROVE TasksInv'
  BY <1>10 DEF FtpPass
<1>11. ASSUME NEW c \in Conns, NEW n \in 0..1, HttpHeaders(c, n) PROVE TasksInv'
  BY <1>11 DEF HttpHeaders
<1>12. ASSUME NEW c \in Conns, NEW n \in 0..1, HttpBody(c, n) PROVE TasksInv'
  BY <1>12 DEF HttpBody
<1>13. ASSUME NEW c \in Conns, EndOfInput(c) PROVE TasksInv'
  BY <1>13 DEF EndOfInput
<1>14. ASSUME NEW c \in Conns, ReadTimeout(c) PROVE TasksInv'
  BY <1>14 DEF ReadTimeout
<1>15. ASSUME NEW c \in Conns, Fails(c) PROVE TasksInv'
  BY <1>15 DEF Fails
<1>16. ASSUME NEW c \in Conns, Cancelled(c) PROVE TasksInv'
  BY <1>16 DEF Cancelled
<1>17. ASSUME NEW c \in Conns, Closed(c) PROVE TasksInv'
  BY <1>17 DEF Closed
<1>18. ASSUME NEW c \in Conns, CancelledUnlogged(c) PROVE TasksInv'
  BY <1>18 DEF CancelledUnlogged
<1>19. ASSUME Close PROVE TasksInv'
  BY <1>19 DEF Close
<1>20. ASSUME CancelAll PROVE TasksInv'
  BY <1>20 DEF CancelAll
<1>21. ASSUME Gathered PROVE TasksInv'
  BY <1>21 DEF Gathered
<1>22. ASSUME LoopEnds PROVE TasksInv'
  BY <1>22 DEF LoopEnds
<1>23. CASE UNCHANGED vars
  BY <1>23 DEF vars
<1>. QED
  BY <1>1, <1>2, <1>3, <1>4, <1>5, <1>6, <1>7, <1>8, <1>9, <1>10, <1>11, <1>12, <1>13, <1>14, <1>15,
     <1>16, <1>17, <1>18, <1>19, <1>20, <1>21, <1>22, <1>23 DEF Next, HandlerStep, Conversation

(* Nobody is cancelled, and whoever closes logs what was captured.          *)
LEMMA WaitStep ==
    ASSUME TypeOK, (\A c \in Conns : Lines(c)), WaitInv, [Next]_vars
    PROVE  WaitInv'
<1>. USE ProtocolConstants DEF TypeOK, WaitInv, CapturedIsLogged, OpenConnections, Running, Stages,
         Talking, Continue, Leave, FirstStage, CancelTasks, serverVars, sessionVars
<1>1. ASSUME NEW c \in Conns, Accept(c) PROVE WaitInv'
  BY <1>1 DEF Accept
<1>2. ASSUME NEW c \in Conns, Refuse(c) PROVE WaitInv'
  BY <1>2 DEF Refuse
<1>3. ASSUME NEW c \in Conns, HandleClient(c) PROVE WaitInv'
  BY <1>3 DEF HandleClient
<1>4. ASSUME NEW c \in Conns, Discard(c) PROVE WaitInv'
  BY <1>4 DEF Discard
<1>5. ASSUME NEW c \in Conns, Start(c) PROVE WaitInv'
  BY <1>5 DEF Start
<1>6. ASSUME NEW c \in Conns, Drain(c) PROVE WaitInv'
  BY <1>6 DEF Drain
<1>7. ASSUME NEW c \in Conns, NEW n \in 0..1, TelnetLogin(c, n) PROVE WaitInv'
  BY <1>7 DEF TelnetLogin
<1>8. ASSUME NEW c \in Conns, NEW n \in 0..1, TelnetPassword(c, n) PROVE WaitInv'
  BY <1>8 DEF TelnetPassword
<1>9. ASSUME NEW c \in Conns, FtpUser(c) PROVE WaitInv'
  <2>1. CASE Continue(c, "pass", 1)
    BY <1>9, <2>1 DEF FtpUser
  <2>2. CASE Leave(c, "disconnect", 1)
    BY <1>9, <2>2 DEF FtpUser
  <2>. QED
    BY <1>9, <2>1, <2>2 DEF FtpUser
<1>10. ASSUME NEW c \in Conns, FtpPass(c) PROVE WaitInv'
  BY <1>10 DEF FtpPass
<1>11. ASSUME NEW c \in Conns, NEW n \in 0..1, HttpHeaders(c, n) PROVE WaitInv'
  BY <1>11 DEF HttpHeaders
<1>12. ASSUME NEW c \in Conns, NEW n \in 0..1, HttpBody(c, n) PROVE WaitInv'
  BY <1>12 DEF HttpBody
<1>13. ASSUME NEW c \in Conns, EndOfInput(c) PROVE WaitInv'
  BY <1>13 DEF EndOfInput
<1>14. ASSUME NEW c \in Conns, ReadTimeout(c) PROVE WaitInv'
  BY <1>14 DEF ReadTimeout
<1>15. ASSUME NEW c \in Conns, Fails(c) PROVE WaitInv'
  BY <1>15 DEF Fails
<1>16. ASSUME NEW c \in Conns, Cancelled(c) PROVE WaitInv'
  BY <1>16 DEF Cancelled
<1>17. ASSUME NEW c \in Conns, Closed(c) PROVE WaitInv'
  <2>1. record'[c] # NoRecord /\ record'[c].commands = commands'[c]
    BY <1>17, NoRecordAssumption DEF Closed
  <2>2. \A d \in Conns \ {c} : record'[d] = record[d] /\ at'[d] = at[d] /\ commands'[d] = commands[d]
    BY <1>17 DEF Closed
  <2>. QED
    BY <1>17, <2>1, <2>2 DEF Closed
<1>18. ASSUME NEW c \in Conns, CancelledUnlogged(c) PROVE WaitInv'
  BY <1>18 DEF CancelledUnlogged
<1>19. ASSUME Close PROVE WaitInv'
  BY <1>19 DEF Close
<1>20. ASSUME CancelAll PROVE WaitInv'
  BY <1>20 DEF CancelAll
<1>21. ASSUME Gathered PROVE WaitInv'
  BY <1>21 DEF Gathered
<1>22. ASSUME LoopEnds PROVE WaitInv'
  BY <1>22 DEF LoopEnds
<1>23. CASE UNCHANGED vars
  BY <1>23 DEF vars
<1>. QED
  BY <1>1, <1>2, <1>3, <1>4, <1>5, <1>6, <1>7, <1>8, <1>9, <1>10, <1>11, <1>12, <1>13, <1>14, <1>15,
     <1>16, <1>17, <1>18, <1>19, <1>20, <1>21, <1>22, <1>23 DEF Next, HandlerStep, Conversation

(* The initial states satisfy every part of the invariant.                 *)
LEMMA InitInv == Init => ListenerInv
<1>. SUFFICES ASSUME Init PROVE ListenerInv
  OBVIOUS
<1>1. TypeInv
  BY ProtocolConstants DEF Init, TypeInv, TypeOK, Lines, Reasons
<1>2. TasksInv
  BY FS_EmptySet, ProtocolConstants DEF Init, TasksInv, Running, Stages
<1>3. WaitInv
  BY DEF Init, WaitInv, CapturedIsLogged
<1>. QED
  BY <1>1, <1>2, <1>3 DEF ListenerInv

(* The invariant is inductive.                                             *)
LEMMA ListenerStep == ListenerInv /\ [Next]_vars => ListenerInv'
BY TypeStep, TasksStep, WaitStep DEF ListenerInv, TypeInv

(* The invariant holds in every reachable state.                           *)
THEOREM ListenerInvHolds == Spec => []ListenerInv
BY InitInv, ListenerStep, PTL DEF Spec

(* For any limit and any number of connections there are never more        *)
(* conversations than the limit.                                           *)
THEOREM LimitHolds == Spec => []WithinLimit
<1>1. ListenerInv => WithinLimit
  <2>. SUFFICES ASSUME ListenerInv PROVE Cardinality(Running) <= MaxConnections
    BY DEF ListenerInv, TypeInv, WithinLimit
  <2>1. IsFiniteSet(tasks) /\ tasks \subseteq Conns
    BY ProtocolConstants, FS_Subset DEF ListenerInv, TypeInv, TypeOK
  <2>2. Cardinality(Running) <= Cardinality(tasks) /\ Cardinality(Running) \in Nat
    BY <2>1, FS_Subset, FS_CardinalityType DEF ListenerInv, TasksInv
  <2>3. Cardinality(tasks) \in Nat
    BY <2>1, FS_CardinalityType
  <2>. QED
    BY <2>2, <2>3, ProtocolConstants DEF ListenerInv, TasksInv
<1>. QED
  BY <1>1, ListenerInvHolds, PTL

(* Where wait_closed waits, no captured line is lost and no handler        *)
(* outlives shutdown, however many clients are connected.                  *)
THEOREM WaitingLosesNothing == Spec => []WaitedLosesNothing
<1>1. ListenerInv => WaitedLosesNothing
  BY DEF ListenerInv, WaitInv, OpenConnections, WaitedLosesNothing
<1>. QED
  BY <1>1, ListenerInvHolds, PTL

==============================================================================
