--------------------------- MODULE CapturePipeline ---------------------------
(***************************************************************************)
(* The way of a finished session from the protocol handler to PostgreSQL:  *)
(* the session log, the bounded classification queue and its workers, the  *)
(* pending file the honeypot keeps beside the log, the catch-up thread     *)
(* that empties it, the orderly stop, and `echidra import` running as a    *)
(* process of its own (honeypot/logging/session_logger.py,                 *)
(* classifier/pipeline.py, classifier/catch_up.py, honeypot/main.py).      *)
(*                                                                         *)
(* A file is the sequence of the sessions on its lines.  The pending file  *)
(* and its ".catching-up" copy are never empty while they exist, so the    *)
(* empty sequence stands for "no such file".  Every statement sent to the  *)
(* database is one step, which succeeds while the database is up; what may *)
(* go wrong besides an outage (a crash, a full disk, a statement timeout,  *)
(* a connection lost after COMMIT) is drawn from a budget of MaxFaults.    *)
(***************************************************************************)
EXTENDS Naturals, Sequences, FiniteSets, Functions

CONSTANTS Sessions,     \* session ids
          Workers,      \* the classification worker tasks
          QueueMax,     \* _CLASSIFICATION_QUEUE_MAXSIZE
          BatchSize,    \* _BATCH_SIZE of a catch-up or an import
          MaxFaults,    \* bound: faults in one behaviour
          Importing,    \* the operator may run `echidra import`
          WorkerStop,   \* the _WORKER_STOP sentinel
          NoSession     \* a worker with no session in hand

ASSUME PipelineConstants ==
    /\ QueueMax \in Nat \ {0}
    /\ BatchSize \in Nat \ {0}
    /\ MaxFaults \in Nat
    /\ Importing \in BOOLEAN
    /\ WorkerStop \notin Sessions
    /\ NoSession \notin Sessions
    /\ IsFiniteSet(Workers)

VARIABLES
    alive,       \* the honeypot process is running
    configured,  \* it was started with ECHIDRA_DATABASE_URL
    db,          \* the database answers: "up" or "down"
    faults,      \* faults so far
    completed,   \* sessions whose handler has finished
    log,         \* sessions.jsonl
    pending,     \* pending-sessions.jsonl
    working,     \* pending-sessions.jsonl.catching-up
    queue,       \* _classification_queue
    wpc,         \* what each worker is doing
    wsession,    \* the session each worker has in hand
    stopPc,      \* progress of stop_classification_workers
    waiting,     \* the sessions it took from the queue
    sentinels,   \* the sentinels it has put on the queue
    cuPc,        \* progress of the catch-up thread
    lines,       \* the lines it read from the working copy
    pos,         \* lines before the current batch
    next,        \* the line of the batch it is at
    known,       \* already_stored, looked up for the batch
    fresh,       \* stored: what this pass has stored itself
    impPc,       \* progress of `echidra import`
    batch,       \* the batch it is at
    impPos,      \* lines of the log it has read
    impNext,     \* the session of the batch it is at
    impKnown,    \* already_stored, looked up for the batch
    failed,      \* sessions it could not store
    runs,        \* classifier_runs rows of each session, by who wrote them
    alerted,     \* times a session reached the alert step
    givenUp,     \* sessions left to the session log: with a message, or because
                 \* no database is set up
    crashed      \* sessions in memory when the process was killed

envVars    == <<alive, configured, db, completed>>
workerVars == <<wpc, wsession>>
stopVars   == <<stopPc, waiting, sentinels>>
cuVars     == <<cuPc, lines, pos, next, known, fresh>>
impVars    == <<impPc, batch, impPos, impNext, impKnown, failed>>

vars == <<envVars, faults, log, pending, working, queue, workerVars, stopVars,
          cuVars, impVars, runs, alerted, givenUp, crashed>>

-----------------------------------------------------------------------------
Init ==
    /\ alive = TRUE
    /\ configured \in BOOLEAN
    /\ db \in {"up", "down"}
    /\ faults = 0
    /\ completed = {}
    /\ log = <<>> /\ pending = <<>> /\ working = <<>>
    /\ queue = <<>>
    /\ wpc = [w \in Workers |-> "idle"] /\ wsession = [w \in Workers |-> NoSession]
    /\ stopPc = "running" /\ waiting = <<>> /\ sentinels = 0
    /\ cuPc = "idle" /\ lines = <<>> /\ pos = 0 /\ next = 1 /\ known = {} /\ fresh = {}
    /\ impPc = "idle" /\ batch = <<>> /\ impPos = 0 /\ impNext = 1
    /\ impKnown = {} /\ failed = {}
    /\ runs = [s \in Sessions |-> <<>>]
    /\ alerted = [s \in Sessions |-> 0]
    /\ givenUp = {}
    /\ crashed = {}

(* A session is stored once it has a classifier run. *)
Stored(s) == runs[s] # <<>>

(* The database answers this process. *)
DbUp == configured /\ db = "up"

(* Something other than an outage goes wrong. *)
Fault == faults < MaxFaults /\ faults' = faults + 1

(* Storing one session failed with is_database_unavailable: an outage, or  *)
(* with a lost answer a fault of its own.                                  *)
Outage == db = "down" /\ UNCHANGED faults

(* _pending_lock: the only critical section that is more than one write is *)
(* the catch-up's "append the rest, then unlink the working file".         *)
PendingLockFree == cuPc # "unlink"

InMemory == (Range(queue) \cup Range(waiting) \cup Range(wsession)) \cap Sessions
OnDisk   == Range(pending) \cup Range(working)

-----------------------------------------------------------------------------
(* finalize_and_schedule, on the event loop: log the session, then put it  *)
(* on the queue; a failed log write is swallowed, an intake that is closed *)
(* or full drops the session.                                              *)
HandlerFrame == UNCHANGED <<alive, configured, db, pending, working, workerVars, stopVars,
                            cuVars, impVars, runs, alerted, crashed>>

(* Mutant: the intake is not closed by a stop. *)
ScheduleAfterStop(s) ==
    IF Len(queue) < QueueMax
      THEN queue' = Append(queue, s) /\ UNCHANGED givenUp
      ELSE givenUp' = givenUp \cup {s} /\ UNCHANGED queue

schedule_auto_classification(s) ==
    IF stopPc = "running" /\ Len(queue) < QueueMax
      THEN queue' = Append(queue, s) /\ UNCHANGED givenUp
      ELSE givenUp' = givenUp \cup {s} /\ UNCHANGED queue

Complete(s) ==
    /\ alive
    /\ s \notin completed
    /\ completed' = completed \cup {s}
    /\ \/ log' = Append(log, s) /\ UNCHANGED faults
       \/ Fault /\ UNCHANGED log
    /\ schedule_auto_classification(s)
    /\ HandlerFrame

(* A session that is not even a valid record is neither logged nor queued. *)
InvalidRecord(s) ==
    /\ alive
    /\ s \notin completed
    /\ Fault
    /\ completed' = completed \cup {s}
    /\ givenUp' = givenUp \cup {s}
    /\ UNCHANGED <<log, queue>>
    /\ HandlerFrame

-----------------------------------------------------------------------------
(* _classification_worker and auto_classify_and_store, in a worker thread. *)
WorkerFrame == UNCHANGED <<envVars, log, working, stopVars, cuVars, impVars, crashed>>

(* The worker is done with its session. *)
Done(w) ==
    /\ wpc' = [wpc EXCEPT ![w] = "idle"]
    /\ wsession' = [wsession EXCEPT ![w] = NoSession]

WorkerGet(w) ==
    /\ alive
    /\ wpc[w] = "idle"
    /\ queue # <<>>
    /\ queue' = Tail(queue)
    /\ IF Head(queue) = WorkerStop
         THEN wpc' = [wpc EXCEPT ![w] = "stopped"] /\ UNCHANGED wsession
         ELSE /\ wpc' = [wpc EXCEPT ![w] = "store"]
              /\ wsession' = [wsession EXCEPT ![w] = Head(queue)]
    /\ UNCHANGED <<faults, pending, runs, alerted, givenUp>>
    /\ WorkerFrame

Storing(w) == alive /\ wpc[w] = "store"

(* save_classifier_run: insert the run, without looking for another one.   *)
WorkerWrites(w) == runs' = [runs EXCEPT ![wsession[w]] = Append(@, "worker")]

(* The run is committed and the worker goes on to the alert. *)
WorkerSave(w) ==
    /\ Storing(w)
    /\ DbUp
    /\ WorkerWrites(w)
    /\ wpc' = [wpc EXCEPT ![w] = "alert"]
    /\ UNCHANGED <<faults, pending, queue, wsession, alerted, givenUp>>
    /\ WorkerFrame

(* is_database_unavailable or is_database_busy: keep it for catch-up.      *)
WorkerUnavailable(w) ==
    /\ Storing(w)
    /\ configured
    /\ Outage \/ Fault
    /\ wpc' = [wpc EXCEPT ![w] = "keep"]
    /\ UNCHANGED <<pending, queue, wsession, runs, alerted, givenUp>>
    /\ WorkerFrame

(* The connection is lost after COMMIT reached the server: the run exists, *)
(* and the worker is told that the database is unavailable.                *)
WorkerCommitLost(w) ==
    /\ Storing(w)
    /\ DbUp
    /\ Fault
    /\ WorkerWrites(w)
    /\ wpc' = [wpc EXCEPT ![w] = "keep"]
    /\ UNCHANGED <<pending, queue, wsession, alerted, givenUp>>
    /\ WorkerFrame

(* No database is configured, or classifying or saving failed for another  *)
(* reason: the session stays in the session log only.                      *)
WorkerGivesUp(w) ==
    /\ Storing(w)
    /\ (~configured /\ UNCHANGED faults) \/ (configured /\ Fault)
    /\ givenUp' = givenUp \cup {wsession[w]}
    /\ Done(w)
    /\ UNCHANGED <<pending, queue, runs, alerted>>
    /\ WorkerFrame

(* keep_pending_session; an OSError leaves the session in the log only.    *)
WorkerKeep(w) ==
    /\ alive
    /\ wpc[w] = "keep"
    /\ PendingLockFree
    /\ \/ pending' = Append(pending, wsession[w]) /\ UNCHANGED <<faults, givenUp>>
       \/ Fault /\ givenUp' = givenUp \cup {wsession[w]} /\ UNCHANGED pending
    /\ Done(w)
    /\ UNCHANGED <<queue, runs, alerted>>
    /\ WorkerFrame

WorkerAlert(w) ==
    /\ alive
    /\ wpc[w] = "alert"
    /\ alerted' = [alerted EXCEPT ![wsession[w]] = @ + 1]
    /\ Done(w)
    /\ UNCHANGED <<faults, pending, queue, runs, givenUp>>
    /\ WorkerFrame

-----------------------------------------------------------------------------
(* stop_classification_workers.  Closing the intake and taking what still  *)
(* waits happens without an await, so in one step.                         *)
StopFrame == UNCHANGED <<envVars, log, working, workerVars, cuVars, impVars, runs, alerted,
                         crashed>>

StopIntake ==
    /\ alive
    /\ stopPc = "running"
    /\ stopPc' = IF queue = <<>> THEN "join" ELSE "keep"
    /\ waiting' = queue
    /\ queue' = <<>>
    /\ UNCHANGED <<faults, pending, sentinels, givenUp>>
    /\ StopFrame

(* _keep_waiting_sessions: one append for all, unless no database is set   *)
(* up, when nothing would ever store them.                                 *)
StopKeep ==
    /\ alive
    /\ stopPc = "keep"
    /\ \/ /\ configured /\ PendingLockFree
          /\ pending' = pending \o waiting
          /\ UNCHANGED <<faults, givenUp>>
       \/ /\ (~configured /\ UNCHANGED faults) \/ (configured /\ PendingLockFree /\ Fault)
          /\ givenUp' = givenUp \cup Range(waiting)
          /\ UNCHANGED pending
    /\ stopPc' = "join"
    /\ waiting' = <<>>
    /\ UNCHANGED <<queue, sentinels>>
    /\ StopFrame

(* queue.join(): every session taken from the queue is done with.          *)
StopJoin ==
    /\ alive
    /\ stopPc = "join"
    /\ queue = <<>>
    /\ \A w \in Workers : wpc[w] = "idle"
    /\ stopPc' = "sentinels"
    /\ UNCHANGED <<faults, pending, queue, waiting, sentinels, givenUp>>
    /\ StopFrame

(* Mutant: one sentinel too few. *)
StopSentinelShort ==
    /\ alive
    /\ stopPc = "sentinels"
    /\ sentinels + 1 < Cardinality(Workers)
    /\ Len(queue) < QueueMax
    /\ queue' = Append(queue, WorkerStop)
    /\ sentinels' = sentinels + 1
    /\ UNCHANGED <<faults, pending, stopPc, waiting, givenUp>>
    /\ StopFrame

(* One sentinel per worker, each put waiting for room on the queue.        *)
StopSentinel ==
    /\ alive
    /\ stopPc = "sentinels"
    /\ sentinels < Cardinality(Workers)
    /\ Len(queue) < QueueMax
    /\ queue' = Append(queue, WorkerStop)
    /\ sentinels' = sentinels + 1
    /\ UNCHANGED <<faults, pending, stopPc, waiting, givenUp>>
    /\ StopFrame

StopGather ==
    /\ alive
    /\ stopPc = "sentinels"
    /\ sentinels = Cardinality(Workers)
    /\ \A w \in Workers : wpc[w] = "stopped"
    /\ stopPc' = "stopped"
    /\ UNCHANGED <<faults, pending, queue, waiting, sentinels, givenUp>>
    /\ StopFrame

-----------------------------------------------------------------------------
(* catch_up_pending_sessions, in a thread the honeypot starts every minute *)
(* until main() cancels the loop.                                          *)
CuFrame == UNCHANGED <<envVars, log, queue, workerVars, stopVars, impVars, crashed>>

(* The pass ends, and its local variables with it. *)
PassOver ==
    /\ cuPc' = "idle"
    /\ lines' = <<>> /\ pos' = 0 /\ next' = 1 /\ known' = {} /\ fresh' = {}

(* Mutant: a copy left by an earlier pass does not start a pass. *)
CuStartPendingOnly ==
    /\ alive
    /\ stopPc # "stopped"
    /\ cuPc = "idle"
    /\ pending # <<>>
    /\ DbUp
    /\ cuPc' = "take"
    /\ UNCHANGED <<faults, pending, working, lines, pos, next, known, fresh,
                   runs, alerted, givenUp>>
    /\ CuFrame

CuStart ==
    /\ alive
    /\ stopPc # "stopped"
    /\ cuPc = "idle"
    /\ pending # <<>> \/ working # <<>>
    /\ DbUp
    /\ cuPc' = "take"
    /\ UNCHANGED <<faults, pending, working, lines, pos, next, known, fresh,
                   runs, alerted, givenUp>>
    /\ CuFrame

(* Mutant: the rename overwrites the copy an earlier pass left. *)
CuTakeOverwrites ==
    /\ alive
    /\ cuPc = "take"
    /\ working' = pending /\ pending' = <<>>
    /\ cuPc' = "batch"
    /\ lines' = working' /\ pos' = 0 /\ fresh' = {}
    /\ UNCHANGED <<faults, next, known, runs, alerted, givenUp>>
    /\ CuFrame

(* Take the pending file over, unless an earlier pass left its copy, and   *)
(* read the lines.                                                         *)
CuTake ==
    /\ alive
    /\ cuPc = "take"
    /\ IF working = <<>>
         THEN working' = pending /\ pending' = <<>>
         ELSE UNCHANGED <<working, pending>>
    /\ cuPc' = "batch"
    /\ lines' = working' /\ pos' = 0 /\ fresh' = {}
    /\ UNCHANGED <<faults, next, known, runs, alerted, givenUp>>
    /\ CuFrame

BatchEnd(file, start) ==
    IF start + BatchSize < Len(file) THEN start + BatchSize ELSE Len(file)

(* stored_session_ids for the next batch (looked up for its sessions only): *)
(* any error ends the pass.                                                *)
CuBatch ==
    /\ alive
    /\ cuPc = "batch"
    /\ pos < Len(lines)
    /\ \/ /\ DbUp
          /\ cuPc' = "session" /\ next' = pos + 1
          /\ known' = {s \in Sessions : Stored(s)}
          /\ UNCHANGED faults
       \/ /\ Outage \/ Fault
          /\ cuPc' = "putback"
          /\ UNCHANGED <<next, known>>
    /\ UNCHANGED <<pending, working, lines, pos, fresh, runs, alerted, givenUp>>
    /\ CuFrame

CuAtSession == alive /\ cuPc = "session" /\ next <= BatchEnd(lines, pos)

(* save_classifier_run_if_new holds the per-session advisory lock from its *)
(* check to its commit; the holder is whoever is about to insert.          *)
LockedByCatchUp(s) == cuPc = "insert" /\ lines[next] = s
LockedByImport(s)  == impPc = "insert" /\ batch[impNext] = s

CuSkip ==
    /\ CuAtSession
    /\ lines[next] \in known
    /\ next' = next + 1
    /\ UNCHANGED <<faults, pending, working, cuPc, lines, pos, known, fresh,
                   runs, alerted, givenUp>>
    /\ CuFrame

(* Mutant: check and write without the per-session lock. *)
CuCheckUnlocked ==
    /\ CuAtSession
    /\ lines[next] \notin known
    /\ DbUp
    /\ IF Stored(lines[next]) THEN next' = next + 1 /\ UNCHANGED cuPc
                              ELSE cuPc' = "insert" /\ UNCHANGED next
    /\ UNCHANGED <<faults, pending, working, lines, pos, known, fresh,
                   runs, alerted, givenUp>>
    /\ CuFrame

CuCheck ==
    /\ CuAtSession
    /\ lines[next] \notin known
    /\ DbUp
    /\ ~LockedByImport(lines[next])
    /\ IF Stored(lines[next]) THEN next' = next + 1 /\ UNCHANGED cuPc
                              ELSE cuPc' = "insert" /\ UNCHANGED next
    /\ UNCHANGED <<faults, pending, working, lines, pos, known, fresh,
                   runs, alerted, givenUp>>
    /\ CuFrame

CuWrites == runs' = [runs EXCEPT ![lines[next]] = Append(@, "catch-up")]

CuInsert ==
    /\ alive
    /\ cuPc = "insert"
    /\ DbUp
    /\ CuWrites
    /\ cuPc' = "session" /\ next' = next + 1
    /\ fresh' = fresh \cup {lines[next]}
    /\ UNCHANGED <<faults, pending, working, lines, pos, known, alerted, givenUp>>
    /\ CuFrame

CuTrying == (CuAtSession /\ lines[next] \notin known) \/ (alive /\ cuPc = "insert")

(* The database is gone again: stop, and put the unfinished batch back.    *)
CuUnavailable ==
    /\ CuTrying
    /\ Outage
    /\ cuPc' = "putback"
    /\ UNCHANGED <<pending, working, lines, pos, next, known, fresh, runs, alerted, givenUp>>
    /\ CuFrame

(* The same, but the COMMIT had reached the server.                        *)
CuCommitLost ==
    /\ alive
    /\ cuPc = "insert"
    /\ DbUp
    /\ Fault
    /\ CuWrites
    /\ cuPc' = "putback"
    /\ UNCHANGED <<pending, working, lines, pos, next, known, fresh, alerted, givenUp>>
    /\ CuFrame

(* Busy, or any other error on this one session: leave it to the log.      *)
CuGivesUpSession ==
    /\ CuTrying
    /\ DbUp
    /\ Fault
    /\ givenUp' = givenUp \cup {lines[next]}
    /\ cuPc' = "session" /\ next' = next + 1
    /\ UNCHANGED <<pending, working, lines, pos, known, fresh, runs, alerted>>
    /\ CuFrame

CuBatchDone ==
    /\ alive
    /\ cuPc = "session"
    /\ next > BatchEnd(lines, pos)
    /\ cuPc' = "batch" /\ pos' = pos + BatchSize
    /\ UNCHANGED <<faults, pending, working, lines, next, known, fresh,
                   runs, alerted, givenUp>>
    /\ CuFrame

CuFinish ==
    /\ alive
    /\ cuPc = "batch"
    /\ pos >= Len(lines)
    /\ working' = <<>>
    /\ cuPc' = "alert"
    /\ UNCHANGED <<faults, pending, lines, pos, next, known, fresh, runs, alerted, givenUp>>
    /\ CuFrame

(* Mutant: the unfinished batch is not put back, only what follows it. *)
CuPutBackRest ==
    /\ alive
    /\ cuPc = "putback"
    /\ \/ /\ pending' = pending \o SubSeq(lines, pos + 1 + BatchSize, Len(lines))
          /\ cuPc' = "unlink"
          /\ UNCHANGED <<faults, lines, pos, next, known, fresh>>
       \/ Fault /\ PassOver /\ UNCHANGED pending
    /\ UNCHANGED <<working, runs, alerted, givenUp>>
    /\ CuFrame

(* Under _pending_lock: append what is left, then unlink the copy.  An     *)
(* OSError of the append ends the pass and leaves the copy in place.       *)
CuPutBack ==
    /\ alive
    /\ cuPc = "putback"
    /\ \/ /\ pending' = pending \o SubSeq(lines, pos + 1, Len(lines))
          /\ cuPc' = "unlink"
          /\ UNCHANGED <<faults, lines, pos, next, known, fresh>>
       \/ Fault /\ PassOver /\ UNCHANGED pending
    /\ UNCHANGED <<working, runs, alerted, givenUp>>
    /\ CuFrame

CuUnlink ==
    /\ alive
    /\ cuPc = "unlink"
    /\ working' = <<>>
    /\ cuPc' = "alert"
    /\ UNCHANGED <<faults, pending, lines, pos, next, known, fresh, runs, alerted, givenUp>>
    /\ CuFrame

(* Mutant: every session of the pass is announced, stored by it or not. *)
CuAlertAll ==
    /\ alive
    /\ cuPc = "alert"
    /\ alerted' = [s \in Sessions |-> IF s \in Range(lines) THEN alerted[s] + 1 ELSE alerted[s]]
    /\ PassOver
    /\ UNCHANGED <<faults, pending, working, runs, givenUp>>
    /\ CuFrame

(* send_catch_up_alerts for the sessions this pass stored itself.          *)
CuAlert ==
    /\ alive
    /\ cuPc = "alert"
    /\ alerted' = [s \in Sessions |-> IF s \in fresh THEN alerted[s] + 1 ELSE alerted[s]]
    /\ PassOver
    /\ UNCHANGED <<faults, pending, working, runs, givenUp>>
    /\ CuFrame

-----------------------------------------------------------------------------
(* import_session_log and _import_batch, in a process of its own that      *)
(* reads the log while the honeypot appends to it.                         *)
ImpFrame == UNCHANGED <<envVars, log, pending, working, queue, workerVars, stopVars,
                        cuVars, alerted, givenUp, crashed>>

ImpStart ==
    /\ Importing
    /\ impPc = "idle"
    /\ db = "up"
    /\ impPc' = "batch"
    /\ UNCHANGED <<faults, batch, impPos, impNext, impKnown, failed, runs>>
    /\ ImpFrame

ImpBatch ==
    /\ impPc = "batch"
    /\ db = "up"
    /\ impPos < Len(log)
    /\ impPos' = BatchEnd(log, impPos)
    /\ batch' = SubSeq(log, impPos + 1, BatchEnd(log, impPos))
    /\ impPc' = "session" /\ impNext' = 1
    /\ impKnown' = {s \in Sessions : Stored(s)}
    /\ UNCHANGED <<faults, failed, runs>>
    /\ ImpFrame

ImpAtSession == impPc = "session" /\ impNext <= Len(batch)

ImpSkip ==
    /\ ImpAtSession
    /\ batch[impNext] \in impKnown
    /\ impNext' = impNext + 1
    /\ UNCHANGED <<faults, impPc, batch, impPos, impKnown, failed, runs>>
    /\ ImpFrame

ImpCheck ==
    /\ ImpAtSession
    /\ batch[impNext] \notin impKnown
    /\ db = "up"
    /\ ~LockedByCatchUp(batch[impNext])
    /\ IF Stored(batch[impNext]) THEN impNext' = impNext + 1 /\ UNCHANGED impPc
                                 ELSE impPc' = "insert" /\ UNCHANGED impNext
    /\ UNCHANGED <<faults, batch, impPos, impKnown, failed, runs>>
    /\ ImpFrame

ImpInsert ==
    /\ impPc = "insert"
    /\ db = "up"
    /\ runs' = [runs EXCEPT ![batch[impNext]] = Append(@, "import")]
    /\ impPc' = "session" /\ impNext' = impNext + 1
    /\ UNCHANGED <<faults, batch, impPos, impKnown, failed>>
    /\ ImpFrame

ImpTrying == (ImpAtSession /\ batch[impNext] \notin impKnown) \/ impPc = "insert"

(* Mutant: a session that could not be stored is not counted as failed. *)
ImpFailUncounted ==
    /\ ImpTrying
    /\ db = "up"
    /\ Fault
    /\ impPc' = "session" /\ impNext' = impNext + 1
    /\ UNCHANGED <<batch, impPos, impKnown, failed, runs>>
    /\ ImpFrame

(* Busy, or any other error on this one session: count it as failed.       *)
ImpFail ==
    /\ ImpTrying
    /\ db = "up"
    /\ Fault
    /\ failed' = failed \cup {batch[impNext]}
    /\ impPc' = "session" /\ impNext' = impNext + 1
    /\ UNCHANGED <<batch, impPos, impKnown, runs>>
    /\ ImpFrame

(* A batch shorter than BatchSize is the end of the file.                  *)
ImpBatchDone ==
    /\ impPc = "session"
    /\ impNext > Len(batch)
    /\ impPc' = IF Len(batch) = BatchSize THEN "batch" ELSE "done"
    /\ UNCHANGED <<faults, batch, impPos, impNext, impKnown, failed, runs>>
    /\ ImpFrame

ImpEof ==
    /\ impPc = "batch"
    /\ impPos >= Len(log)
    /\ impPc' = "done"
    /\ UNCHANGED <<faults, batch, impPos, impNext, impKnown, failed, runs>>
    /\ ImpFrame

(* The import returns, or an outage, a dropped connection or the operator  *)
(* ends it early.                                                          *)
ImpEnd ==
    /\ impPc # "idle"
    /\ (impPc = "done" /\ UNCHANGED faults) \/ Outage \/ Fault
    /\ impPc' = "idle" /\ batch' = <<>> /\ impPos' = 0 /\ impNext' = 1
    /\ impKnown' = {} /\ failed' = {}
    /\ UNCHANGED runs
    /\ ImpFrame

-----------------------------------------------------------------------------
(* The database goes away and comes back.                                  *)
DbChange ==
    /\ db' = IF db = "up" THEN "down" ELSE "up"
    /\ UNCHANGED <<alive, configured, completed, faults, log, pending, working, queue,
                   workerVars, stopVars, cuVars, impVars, runs, alerted, givenUp, crashed>>

(* The memory of the honeypot is gone. *)
MemoryGone ==
    /\ alive' = FALSE
    /\ queue' = <<>>
    /\ wpc' = [w \in Workers |-> "idle"] /\ wsession' = [w \in Workers |-> NoSession]
    /\ stopPc' = "running" /\ waiting' = <<>> /\ sentinels' = 0
    /\ PassOver
    /\ UNCHANGED <<configured, db, completed, log, pending, working, impVars, runs,
                   alerted, givenUp>>

(* SIGKILL (10 s after SIGTERM), the out-of-memory killer or a power cut.  *)
Crash ==
    /\ alive
    /\ Fault
    /\ crashed' = crashed \cup InMemory
    /\ MemoryGone

(* main() returns once the catch-up thread has ended its pass.             *)
Exit ==
    /\ alive
    /\ stopPc = "stopped"
    /\ cuPc = "idle"
    /\ UNCHANGED <<faults, crashed>>
    /\ MemoryGone

(* The honeypot is started again, with or without a database URL.          *)
Start ==
    /\ ~alive
    /\ alive' = TRUE
    /\ configured' \in BOOLEAN
    /\ UNCHANGED <<db, completed, faults, log, pending, working, queue, workerVars,
                   stopVars, cuVars, impVars, runs, alerted, givenUp, crashed>>

-----------------------------------------------------------------------------
WorkerStep(w) ==
    \/ WorkerGet(w) \/ WorkerSave(w) \/ WorkerUnavailable(w) \/ WorkerCommitLost(w)
    \/ WorkerGivesUp(w) \/ WorkerKeep(w) \/ WorkerAlert(w)

StopStep == StopKeep \/ StopJoin \/ StopSentinel \/ StopGather

CatchUp ==
    \/ CuStart \/ CuTake \/ CuBatch \/ CuSkip \/ CuCheck \/ CuInsert \/ CuUnavailable
    \/ CuCommitLost \/ CuGivesUpSession \/ CuBatchDone \/ CuFinish \/ CuPutBack
    \/ CuUnlink \/ CuAlert

Import ==
    \/ ImpStart \/ ImpBatch \/ ImpSkip \/ ImpCheck \/ ImpInsert \/ ImpFail
    \/ ImpBatchDone \/ ImpEof \/ ImpEnd

Next ==
    \/ \E s \in Sessions : Complete(s) \/ InvalidRecord(s)
    \/ \E w \in Workers : WorkerStep(w)
    \/ StopIntake
    \/ StopStep
    \/ CatchUp
    \/ Import
    \/ DbChange
    \/ Crash
    \/ Exit
    \/ Start

Spec == Init /\ [][Next]_vars

-----------------------------------------------------------------------------
(* Fairness.  The worker threads and the stop coroutine are scheduled and  *)
(* every blocking call they make has a timeout; the catch-up thread runs   *)
(* once a minute, so a thread waiting for _pending_lock gets it between    *)
(* two passes; the import and the environment owe nothing.                 *)
FairSpec ==
    /\ Spec
    /\ \A w \in Workers : WF_vars(WorkerStep(w)) /\ SF_vars(WorkerKeep(w))
    /\ WF_vars(StopStep) /\ SF_vars(StopKeep)
    /\ WF_vars(CatchUp)
    /\ WF_vars(Exit)

-----------------------------------------------------------------------------
(* The type of every variable. *)
TypeOK ==
    /\ alive \in BOOLEAN /\ configured \in BOOLEAN /\ db \in {"up", "down"}
    /\ faults \in Nat
    /\ completed \in SUBSET Sessions
    /\ log \in Seq(Sessions) /\ pending \in Seq(Sessions) /\ working \in Seq(Sessions)
    /\ queue \in Seq(Sessions \cup {WorkerStop})
    /\ wpc \in [Workers -> {"idle", "store", "keep", "alert", "stopped"}]
    /\ wsession \in [Workers -> Sessions \cup {NoSession}]
    /\ stopPc \in {"running", "keep", "join", "sentinels", "stopped"}
    /\ waiting \in Seq(Sessions) /\ sentinels \in Nat
    /\ cuPc \in {"idle", "take", "batch", "session", "insert", "putback", "unlink", "alert"}
    /\ lines \in Seq(Sessions) /\ pos \in Nat /\ next \in Nat \ {0}
    /\ known \in SUBSET Sessions /\ fresh \in SUBSET Sessions
    /\ impPc \in {"idle", "batch", "session", "insert", "done"}
    /\ batch \in Seq(Sessions) /\ impPos \in Nat /\ impNext \in Nat \ {0}
    /\ impKnown \in SUBSET Sessions /\ failed \in SUBSET Sessions
    /\ runs \in [Sessions -> Seq({"worker", "catch-up", "import"})]
    /\ alerted \in [Sessions -> Nat]
    /\ givenUp \in SUBSET Sessions /\ crashed \in SUBSET Sessions

(* Where a finished session may be.                                        *)
SessionsKept ==
    \A s \in completed :
        Stored(s) \/ s \in InMemory \cup OnDisk \cup givenUp \cup crashed

(* A finished session is stored, or still held in memory or in one of the  *)
(* two pending files, or was left to the session log (with a message, or   *)
(* because no database is set up), or was in memory when the process was   *)
(* killed: no path of the workers, the stop or the catch-up lets go of it  *)
(* unnoticed.                                                              *)
NothingLost == TypeOK /\ SessionsKept

(* A session has two runs only if a live worker and an import both wrote   *)
(* one: retries after a lost COMMIT, a crash half-way through a pass,      *)
(* copies of one line in both pending files and an import racing a         *)
(* catch-up never write it twice.                                          *)
TwoRunsOnlyByLiveImport ==
    \A s \in Sessions :
        Len(runs[s]) > 1 => Len(runs[s]) = 2 /\ Range(runs[s]) = {"worker", "import"}

(* A session is announced at most once, by the worker or by a catch-up     *)
(* summary, and never before it is stored.                                 *)
AnnouncedOnce == \A s \in Sessions : alerted[s] <= 1 /\ (alerted[s] > 0 => Stored(s))

(* Once the workers are stopped nothing is stranded behind the sentinels.  *)
StopLeavesNothing ==
    stopPc = "stopped" => queue = <<>> /\ InMemory = {}

(* An import that returns has stored every session of the part of the log  *)
(* it read, but for those it counts as failed.                             *)
ImportComplete ==
    impPc = "done" =>
        \A i \in 1..impPos : Stored(log[i]) \/ log[i] \in failed

(* The strengthening of NothingLost that is inductive.  Who holds what:    *)
(* an idle or stopped worker holds no session, only a stop in its "keep"   *)
(* phase holds waiting ones, sentinels go on the queue only once it holds  *)
(* no session.                                                             *)
HandsInv ==
    /\ \A w \in Workers : wsession[w] = NoSession <=> wpc[w] \in {"idle", "stopped"}
    /\ stopPc # "keep" => waiting = <<>>
    /\ stopPc \in {"running", "keep", "join"} => queue \in Seq(Sessions)
    /\ stopPc \in {"sentinels", "stopped"} => queue \in Seq({WorkerStop})
    /\ stopPc = "stopped" => \A w \in Workers : wpc[w] = "stopped"
    /\ stopPc = "sentinels" => \A w \in Workers : wpc[w] \in {"idle", "stopped"}
    /\ impPc = "insert" => impNext \in DOMAIN batch

(* What a catch-up pass has dealt with: while it runs, the working copy is *)
(* the lines it read; the lines before pos, and those of the batch before  *)
(* next, are stored or given up; and before it unlinks the copy the rest   *)
(* is in the pending file.                                                 *)
Settled(s) == Stored(s) \/ s \in givenUp

CatchUpInv ==
    /\ cuPc \in {"batch", "session", "insert", "putback", "unlink"} =>
         /\ working = lines
         /\ \A i \in DOMAIN lines : i <= pos => Settled(lines[i])
    /\ cuPc \in {"session", "insert"} =>
         \A i \in DOMAIN lines : i < next => Settled(lines[i])
    /\ cuPc = "insert" => next \in DOMAIN lines
    /\ cuPc = "unlink" =>
         \A i \in DOMAIN lines : i > pos => lines[i] \in Range(pending)
    /\ \A s \in known : Stored(s)

(* A worker that is at the alert has written its session.                  *)
AlertInv == \A w \in Workers : wpc[w] = "alert" => Stored(wsession[w])

PipelineInv == TypeOK /\ HandsInv /\ CatchUpInv /\ AlertInv /\ SessionsKept

(* The refinement mapping to the abstract contract: where a session is.    *)
custody ==
    [s \in Sessions |->
        IF Stored(s) THEN "stored"
        ELSE IF s \in OnDisk THEN "disk"
        ELSE IF s \in InMemory THEN "memory"
        ELSE IF s \in completed THEN "dropped" ELSE "open"]

Contract == INSTANCE SessionCustody WITH reported <- givenUp

(* The pipeline keeps the contract of SessionCustody: in particular a      *)
(* session of the pending files survives every crash, and the catch-up     *)
(* unlinks its line only when it is stored, reported or back in the        *)
(* pending file.                                                           *)
KeepsCustody == Contract!Spec

(* A stop that was asked for ends, however full the queue is and whatever  *)
(* the database does.                                                      *)
StopEnds == stopPc # "running" ~> ~alive

(* "Within a minute of the database being reachable again, the honeypot    *)
(* stores the waiting sessions": if the honeypot and the database stay up, *)
(* what is in the pending files is eventually stored or given up.          *)
PendingDrains ==
    <>[](alive /\ DbUp /\ stopPc = "running") =>
        \A s \in Sessions : []<>(s \in OnDisk => Stored(s) \/ s \in givenUp)

=============================================================================
