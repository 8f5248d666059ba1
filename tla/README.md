# Echidra in TLA+

Models, model-checking runs and machine-checked proofs for Echidra, a honeypot
with an SSH, HTTP, FTP and Telnet front, a classifier, a PostgreSQL store,
alerts and a dashboard. Paths below are relative to the repository.

## The system

One **honeypot process** (`honeypot/main.py`) runs an asyncio event loop with
four listeners. Every client conversation ends in one *session record*, which
is appended to `logs/sessions.jsonl` and put on a bounded in-memory queue.
Two worker tasks take sessions from the queue, classify them in threads, write
a *classifier run* to PostgreSQL, decide whether to send an alert, and now and
then start a pass that rolls runs up into *issues*. While the database is away
sessions wait in `pending-sessions.jsonl`; a catch-up thread empties it every
minute. An **API process** (`classifier/api/app.py`) serves the dashboard and
also starts issue passes; **operators** run `echidra import`, `sync-issues`,
`start` and `stop` as processes of their own. The processes share the database
and the files, and nothing else.

| Component | State | Operations | Hard part | What makes it correct |
|---|---|---|---|---|
| Pipeline, catch-up, import (`classifier/pipeline.py`, `catch_up.py`, `honeypot/logging/session_logger.py`) | queue, workers, log, two pending files, runs | schedule, store, keep, stop, catch up, import | crash between any two steps, lost COMMIT answers, two processes storing the same session, stop while the queue is full | no finished session vanishes unnoticed, none is stored or announced twice, a stop ends and strands nothing, pending sessions drain |
| Issue sync (`classifier/storage/issue_sync.py`, issue SQL in `repository.py`) | runs, queue table, issues, advisory lock, single-flight flag | full rebuild, batch merge, repeat-connection take-over and hand-back, triage | passes of several processes, runs stored in between, aborted passes | every run reaches its issues, totals match the links, triage respected, the queue drains |
| Alerts (`classifier/alerts.py`) | windows, timers, levels per session | decide, hold, follow up, prune | timers cancelled too late, two threads deciding on one session | every held session is counted once and reported, nothing urgent is held, once per level |
| SSH listener (`honeypot/network/ssh_server.py`) | slots, phase of each connection, shells, record | admit, log in, shells, lose, shut down | several shells per connection racing `connection_lost`; shutdown | one record per connection, exact slots, truthful stage, shutdown ends |
| HTTP, FTP, Telnet (`protocol_server.py`, the three handlers) | task set, conversations, record | accept, converse, time out, cancel, shut down | cancellation at any await; connections without a task yet | limit, every handler ends, everything captured is logged |
| Fake shell (`honeypot/core`) | one session's file system, working directory, decoys surfaced | run one line: pipelines, redirects, scripts, commands on files | a command that fails half way; text copied, piped or run before it is shown; scripts that run themselves | the collections agree, the quota holds, a decoy that was seen is recorded |
| Persona configuration (`honeypot/network/config.py`, `core/persona.py`) | saved row, cached persona, refresh flag | save, change, delete; read, refresh in background | a late refresh, an outage, a row that no longer validates | an outage never changes the decoy, it never goes back, the last change is served |
| Features, rules, scoring (`features`, `rules`, `scoring`, `realtime.py`) | what the extractor has gathered | observe a line, classify live, classify at the end | evidence in any order and mixed with other lines; scores that are averages | a serious rule is not drowned out, live evidence stands |
| Dashboard API (`classifier/api/app.py`) | accounts, cookies, login failures, session secret | sign up, log in, log out, reset the password | check-then-act across requests and processes | one account, revocation, bounded attempts, one secret for all processes |
| Process control (`echidra/cli.py`) | pid file, children | start, stop | stale and reused pids, one child dying, SIGTERM ignored | stop tells the truth and spares strangers, a start ends both children |

## Modules

| Module | Models | EXTENDS / used by |
|---|---|---|
| `CapturePipeline` | log, queue, workers, pending files, catch-up, orderly stop, crash and restart, `echidra import` | the specification |
| `SessionCustody` | the abstract contract: where a finished session may go | refined by `CapturePipeline` (`KeepsCustody`) |
| `CapturePipelineProofs` | theorems about `CapturePipeline`, and that it implements `SessionCustody` | EXTENDS it and TLAPS |
| `IssueSyncProofs`, `AlertGroupingProofs`, `ProcessControlProofs`, `SshServerProofs`, `ProtocolServerProofs`, `PersonaCacheProofs`, `DashboardAccountsProofs` | theorems about these seven | EXTEND them and TLAPS; `SshServerProofs` EXTENDS `Classification` as well, whose specification is named `VerdictSpec` for that, and has its theorems too |
| `IssueSync` | passes, queue, issues, triage | |
| `IssueContract` | the abstract contract: what a commit may do to the issues | refined by `IssueSync` (`KeepsContract`) |
| `AlertGrouping` | decisions, windows, timers | |
| `SshServer` | connections, shells, records, shutdown | |
| `ProtocolServer` | the three other listeners | |
| `ProcessControl` | `echidra start` and `stop`, the pid file | |
| `PersonaCache` | the persona row, the cache and its background reloads | |
| `DashboardAccounts` | accounts, log-ins, cookies, the shared secret | |
| `Classification` | extractor, rules, scores, live classifier | |
| `SessionFiles` | the file system of a session as operators | EXTENDed by `FakeShell` |
| `FakeShell` | the shell: lines, pipelines, redirects, scripts, commands | EXTENDS `SessionFiles` |
| `MC...` | constants of the instances for TLC | one per specification |

Definitions headed "Mutant:" are wrong versions of the definition that follows.
They are used by no specification; substituting one for its definition makes
the property it is listed with in `PROJECT.json` fail, which shows that the
property does say something about that piece of code.

### CapturePipeline

A file is the sequence of sessions on its lines; the pending file and its
`.catching-up` copy are deleted when empty, so the empty sequence is "no file".
`Complete(s)` is `finalize_and_schedule`: append to the log (a failure is
swallowed), then `schedule_auto_classification`, whose intake is closed by a
stop and bounded by the queue. `Worker...` are the outcomes of
`auto_classify_and_store` in a worker thread: stored; unavailable or busy (kept
in the pending file); COMMIT done but its answer lost (stored *and* kept); any
other error (left to the log). `Stop...` are the stretches of
`stop_classification_workers` between its awaits. `Cu...` are the steps of
`catch_up_pending_sessions`: each database statement, file append, rename and
unlink is a step, so that a crash or another process can fall between any two.
`Imp...` are `import_session_log` in another process, reading the log as it
grows; `CuCheck`/`CuInsert` and `ImpCheck`/`ImpInsert` exclude each other by
the advisory lock of `save_classifier_run_if_new`, which the live worker's
`save_classifier_run` does not take. `Crash` forgets memory; `Exit` is
`main()` returning; `Start` starts with or without a database URL.
History variables: `givenUp` (sessions left to the log with a message),
`crashed` (in memory when killed), `alerted`.

Abstracted: what a session contains, how it is classified, the wording of
messages. Not modelled: a second honeypot process on the same files
(`_pending_lock` is in-process), half-written lines, `classify-log --store`.

### IssueSync

A pass is three kinds of transactions, each under the advisory lock: the full
rebuild (clear the queue, read all runs, merge, mark as rebuilt), batches
(read queued ids, merge, dequeue) and the repeat-connection check. Under READ
COMMITTED each statement sees its own snapshot, so a transaction is one step
per snapshot that matters and its writes take effect at the last, which
commits. An issue is its linked sessions, count, highest risk, source and
status. `Age` moves a session out of the 24 h window; `Triage` is the analyst.
`Recent` is computed from the sessions of stored runs; sessions that are only
in the sessions table are not modelled.

`IssueContract` is the same seen from outside, without passes, locks, snapshots
and failures: a stored run waits (in the queue, or for the first rebuild) until
one commit rolls it up into the issue of each of its pairs. An issue of the
classifier only grows, is reopened exactly when it gains a session and has the
risk of one of its runs, at least that of every run rolled up. The shared issue
may be taken over by the repeat-connection check, and comes back with all that
was rolled up meanwhile.

### AlertGrouping

A decision under `_grouping_lock` is one step (`DropRepeat`, `Alert`, `Hold`);
reading settings before it and sending after it are separate. Time is the age
of each window in ticks, capped at the window's length. `cancel()` only stops
a timer that still waits; one whose wait is over acts on whatever window its
key has when it gets the lock (`FollowUp`). `FollowUpDone` includes the case
where the settings cannot be read and the count is dropped. `Exit` loses all.
`order` is the order of `_alerted_session_ranks`: a recorded session moves to
its end (`Newest`) and the oldest beyond the limit go (`Latest`). `InFlight`
counts the repeats that messages on their way tell of, one element each.

### SshServer and ProtocolServer

A step ends at an await of the event loop. `waits` is the one thing that
depends on the Python version: since 3.12 `Server.wait_closed` waits for every
open connection; before, it returns at once (the Docker image is 3.11, CI runs
3.11 to 3.13). It is chosen by `Init` and never changes. In `SshServer`
asyncssh is modelled by the callbacks it makes; several channels may be opened
over one connection. In `ProtocolServer` the event loop is modelled by what it
does to a task: one that is cancelled gets `CancelledError` at its await, and
never runs if it had not begun. Not modelled: connections asyncssh accepts
after `close()`; the race in Python 3.11's `wait_for` that may swallow a
cancellation.

### ProcessControl

A process has a pid until its parent has waited for it; then any program may be
given the number (`TakePid`). A start is the sequence check, ports, two
launches, pid file, watch, end, wait, unlink, and may be killed or interrupted
between any two; its children may fail at once, exit, obey SIGTERM or ignore
it. A stop reads the file, then looks at each pid (`Ask`) and signals it
(`SendTerm`) in two steps, re-checks what it has signalled, kills what is left
and looks a last time before it reports. `IsEchidra` is the look at a process's
command line. One start may be another user's, whose children the stop may not
signal. History: `targets`, `known` and `struck`. `status` only reads.

### PersonaCache

`history` is the sequence of states of the row of the configured persona id;
`Meaning(n)` is the persona its n-th state stands for: the preset, the persona
built from the row, or an error if neither is there. A load is `Lookup`, which
fails while the database is away or the row does not validate, and `Store`,
which fills the cache and clears the refresh flag. The first load happens before
the listeners start and may end the honeypot. `BreakRow` is a change by other
means than the dashboard. A row is its hostname and its decoy paths, because
validation tells those apart; other fields are copied.

### DashboardAccounts

A request is a sequence of database calls, each a step: lock, count and insert
for a sign-up; check the limit, fetch and verify, record or clear, sign the
cookie for a log-in. `Aborts` is the database failing under it. `Accepts` is
the check of a cookie: its signature and the account's version. The fallback
secret is created by several processes at once, with the file empty between
its creation and its writing, and with a process that dies in between or
cannot create it. One address: the limit's key is the email.

### Classification

A line is what the extractor's patterns say of it. `Observe` is one turn of
`extract_session_features`; `Rules` are the 28 rules of `default_rules.yaml`
with their conditions; `Summarize` is the score (a weighted average rounded as
Python rounds), level, actor, stage and intent, leading tag, delay and
recommendation. `LiveTick` classifies the open session with the six live rules.
A typed line may carry credentials too: the extractor reads every line that
begins with `login:` or `password:` as half of a login.
Left out: the regular expressions themselves (a line is a record of what they
find) and the timing score, which no rule reads.

### SessionFiles and FakeShell

`SessionFiles` is `honeypot/core/session.py`: paths, reading, writing,
removing, copying, making directories and the quota on what was written, each
an operator from a session to a session, an answer and a result. `FakeShell` is
`InteractionEngine.process`: a line is a sequence of pipelines joined by `;`,
`&&` and `||`, with redirects, `sh -c`, scripts run by path and busybox
applets. `surfaced` is what the program records as shown; `seen` and `taken`
are history. A listed name is the decoy's unless the visitor wrote the file.
`ls` of a decoy itself repeats the operand and records nothing; that name is a
token of its own, which `Reveals` leaves out (see Findings). What is left out
is what has no effect on the session: programs that print fixed text, error
messages (one token, though they repeat the operand as typed), and the options
of `grep` and `wc`. A recursive copy that meets the quota copies the files in
an order of the model's; `cp -r /` is not among the inputs. Both modules use
RECURSIVE operators and are for TLC only.

## Runs

| Run | Instance | Shows |
|---|---|---|
| `capture` | 2 sessions, 2 workers, queue 1, batch 2, 1 fault | `NothingLost`, `StopLeavesNothing`; `StopEnds` and `PendingDrains` (liveness) |
| `capture_import` | 2 sessions, 1 worker, queue 2, batch 1, 1 fault, an import, symmetric | `TwoRunsOnlyByLiveImport`, `AnnouncedOnce`, `ImportComplete`, and the refinement `KeepsCustody` |
| `issues` | 3 runs of 2 sessions, the shared pair, honeypot and operator, 1 aborted pass | `NoRunMissed`, `TotalsExact`, `KeepsTriage`, `ClassifierIssueReopens`, `QueueDrains` (liveness), and the refinement `KeepsContract` |
| `issues_absorbed` | 3 sessions of one pair | violates `ClosedIssueReopens` (finding) |
| `alerts` | 2 sessions, 3 levels, 2 threads, 3 timers, window of 2 ticks | `HeldHasTimer`, `CountExact`, `OncePerLevel`, `HeldIsReported` (liveness) |
| `ssh` | 2 connections, 1 slot, 2 shells on one of them | `SlotsExact`, `LoggedOnce`, `StageTruthful`, `EverythingEnds` (liveness) |
| `protocol` | one connection of each kind, 1 slot | `WithinLimit`, `WaitedLosesNothing`, `EverythingEnds` (liveness) |
| `process_control` | 2 starts, one of another user, 1 stop, 3 pids, 1 fault | `StopReportsTruth`, `SparesStrangers`, `EndsTogether` (liveness) |
| `persona` | preset or not, 2 hostnames, 2 paths, 2 reload threads, 2 changes, 1 outage | `OutageChangesNothing`, `NeverOlder`, `SavedIsServed` (liveness) |
| `accounts` | 2 processes, 2 requests, 2 emails, 2 passwords, limit 1, symmetric | `OneAccount`, `RevokedIsRejected`, `AttemptsBounded`, `SecretsAgree` |
| `classification` | up to 5 lines of each protocol, slow or fast, 1 live verdict | `SeriousDecides`, `LoginCheckExact`, `LiveEvidenceStands` |
| `shell` | up to 6 of 23 lines, 2 decoys, 6 tokens of written text, with and without busybox | `Bookkeeping`, `SeenIsRecorded` |

The type invariant of each module is a run's invariant or the first conjunct of
one (`NothingLost`, `NoRunMissed`, `HeldHasTimer`, `SlotsExact`, `WithinLimit`,
`StopReportsTruth`, `OutageChangesNothing`, `OneAccount`, `SeriousDecides`,
`Bookkeeping`).

**Why the bounds are enough.** Two sessions and a queue of one give a full
queue, a refused session, a session in hand while another waits, and two lines
in a pending file; a batch of two over them gives a batch half done, a batch of
one a second batch. One fault is a lost COMMIT or a crash anywhere, also in the
pass that recovers what an outage left behind; for more faults, every safety
property of the pipeline is proved. The import runs with a queue of two, so
that a stop may find two sessions waiting, one of them stored by the import in
the meantime: the contract's `GiveUp` must allow for that. Two workers need two sentinels on a queue that holds
one. Three runs of two sessions give a session merged twice with different
risks and a pair with a single session; two processes contend for the lock. Two
alerting threads and three timers give a timer cancelled too late while its
successor waits. Two connections and one slot give refusals; two shells give
all orders of the first and the last end of a shell with the loss of the
connection. Three pids for two children let a stranger take a pid while both
commands still run; two starts give the second one's pid file removed by the
first. Two changes of a row and two reload threads give a reload that has read
a state which is no longer the last. A limit of one with two requests gives
both past the check at once; two processes are a winner and a loser of the race
for the secret's file. Five lines hold a login name, a password, a
download, its start and a decoy read in any order, a typed line that reads as a
password, and two Telnet logins. Six lines in the shell are more than the longest
chain the properties need (write, copy, change directory, make executable, run,
remove), and six tokens are fewer than two copies of the longest file a script
leaves.

Bounds that are not in the code are `MaxFaults`, `MaxAborts`, `MaxHeld`,
`MaxExits`, `MaxCommands`, `MaxSaves`, `MaxOutages`, `MaxVersion`,
`MaxCookies`, `MaxLines`, `MaxTicks` and the numbers of `Timers`, `Requests`
and `Pids`.

**Deadlock** is checked in the capture, issue and alert runs. The others allow
it, because the system really may stop: the clients have gone and shutdown is
over (listeners), every command has ended (process control), the honeypot
failed to start or the dashboard made its last change (persona), the session is
closed or its bound of lines is used up (classification, shell), every cookie
and version of the bound is used up (accounts).

## Fairness

* Capture: weak fairness for workers, stop, catch-up and exit, because they
  are threads and coroutines whose blocking calls all have timeouts; strong
  fairness for `WorkerKeep` and `StopKeep`, which wait for `_pending_lock`: the
  catch-up runs once a minute, so the lock is free between passes. Nothing is
  assumed of imports, of the database or of restarts.
* Issues: weak fairness for the steps of a pass and the 30 s interval; strong
  fairness for `MaybeSync` (every stored session calls it: `QueueDrains` says
  what happens *while sessions keep coming*) and for getting the lock for a
  batch, which transactions hold for moments, every 30 s.
* Alerts: time passes and timer threads run; no thread waits while it holds
  `_grouping_lock`.
* SSH: a shell's read times out, the loop resumes what is ready, an aborted
  connection is lost. No client ever needs to close. `MaxCommands` stands for a
  client that stops typing.
* Protocol listeners: reads time out, cancelled tasks and closed connections
  are resumed, `_handle_client` runs. Nothing is assumed of clients.
* Process control: a start that watches or waits and a stop that has begun go
  on, and SIGKILL works. No child need obey SIGTERM, no user need run a
  command, no stranger need give a pid back.
* Persona: time passes, the reload's thread runs, connections keep arriving
  (only they trigger a reload) and the database comes back. Nothing is assumed
  of the dashboard.
* Accounts, classification and the shell state safety only.

## Proofs

Eight proof modules prove the safety invariants and the action properties of
the runs over nine specifications, for every value of the constants: any
finite sets of workers, timers and threads, any sessions, runs and pids, and
any size of queue, batch, window and limit. Each rests on the named assumption
of its module and nothing else. Most of these assumptions only say what kind of
thing a constant is and that the values standing for "none" are not ordinary
ones (`NoSession`, `NoRecord`, `NoPersona`, `Nobody` is no pid, `NoGroup` is no
window). `IssueSyncConstants` also says that a service is no operator: they are
different programs. The argument is the same everywhere: an inductive invariant
with one lemma per action or per part of it, one proof step per conjunct an
action can disturb, and a last step that combines them. The invariants were
checked by TLC on the instances of the runs before they were proved.

* `CapturePipelineProofs`: `NothingLost`, which is `TypeOK /\ SessionsKept`, from

      PipelineInv == TypeOK /\ HandsInv /\ CatchUpInv /\ AlertInv /\ SessionsKept

  Neither conjunct is inductive. `SessionsKept` can break where the catch-up unlinks the
  working copy, so one must know that every line of it is stored, given up or
  back in the pending file; and type correctness needs that a sentinel is never
  taken for a session. `HandsInv` says who holds what: an idle worker holds no
  session, only a stop in its "keep" phase holds waiting ones, and sentinels are
  on the queue only once no session is. `CatchUpInv` says what a pass has
  settled: while it runs, the working copy is what it read; the lines before
  `pos` and, in a batch, before `next` are stored or given up; before the unlink
  the rest is in the pending file.

  `StopLeavesNothing`, `TwoRunsOnlyByLiveImport`, `AnnouncedOnce`,
  `ImportComplete` and the refinement `KeepsCustody` follow from

      CustodyInv == PipelineInv /\ OnceInv /\ CompletedInv /\ RunsInv
                    /\ AnnounceInv /\ SentinelInv /\ ImportInv

  `OnceInv` says that a session is in memory at one place, and not on disk
  while it is; `RunsInv` that the honeypot has stored no session that still
  waits for its worker, and what the two writers under the advisory lock may
  assume between check and insert; `AnnounceInv` that a session is announced
  only after it has left the memory, or by the pass that stored it;
  `SentinelInv` counts sentinels: those put are on the queue or have stopped a
  worker; `ImportInv` says what part of the log an import has settled.

  The refinement (`PipelineKeepsCustody`) goes through a classification of the
  steps: `StepMoves` shows that every step of the pipeline is one of seven
  kinds of movement (a session arrives, some leave the memory, one is written,
  the working file is cleared, memory is forgotten, some are reported, nothing
  moves), and `MoveImplementsContract` maps each kind to an action of
  `SessionCustody` or to a stutter. Planning this proof showed that the
  contract was wrong where a stop gives up what waits: some of it may already
  have been stored by an import, and such a session stays stored. A queue of two
  shows it to TLC, a queue of one does not; the contract and the run's bound
  were corrected.
* `IssueSyncProofs`: `NoRunMissed`, `TotalsExact` and the action properties
  `KeepsTriage` and `ClassifierIssueReopens` from
  `RollupInv == LockInv /\ PassInv /\ NoneInv /\ NoRunMissed /\ TotalsExact`.
  `LockInv`: only the holder of the advisory lock is inside a transaction.
  `PassInv`: what a transaction has read is still true of the queue and the
  issues when it commits, though runs are stored meanwhile. What a merge does to
  one issue is a lemma on its own (`MergeOf`), from which it follows that it
  covers its runs (`MergeCovers`) and adds nothing else (`MergeIsSound`).

  The refinement (`PassesKeepContract`) takes the commits of the passes one by
  one (`StepInContract`): a full rebuild or a batch is a `RollUp` of what it
  dequeues, a hand-back one of nothing, a take-over is `TakeOver`, and every
  other step is an arrival, a decision or a stutter. What a merge leaves in an
  issue must be `Sound` (`SoundInContract`), for which `PassInv` also says that
  the risk a rebuild starts from is that of a run it has read, and it must be
  reopened by the contract's rule (`StatusInContract`).
* `AlertGroupingProofs`: `HeldHasTimer` and `CountExact` from
  `AlertInv == WindowInv /\ HeldHasTimer /\ CountExact`; `WindowInv` says that a
  window has a timer exactly while it holds something back. The invariant is
  taken apart by key (`ByKeys`): a step disturbs one key, and the windows that
  pruning drops hold nothing (`PrunedKeeps`). `CountExact` needs the
  arithmetic of what is in flight: a message taken up or sent changes the
  cardinality by what it tells (`ToldOneMore`, `SendsUp`, `TellsDown`, ...).
  `OncePerLevel` is proved under the hypothesis that the sessions are no more
  than `MaxTracked`, which is when the code does not forget (10 000 sessions);
  it needs `RankInv`, that the rank kept for a session bounds what was and what
  is being sent for it, and `TrackKeeps`, that recording one session forgets no
  other.
* `ProcessControlProofs`: `StopReportsTruth` and `SparesStrangers` from
  `StopInv == TypeOK /\ BirthInv /\ LoopInv /\ FollowInv /\ StrangerInv`.
  `FollowInv` is the heart: a running child the stop read from the pid file
  still holds one of the pids the stop has yet to look at, is about to signal,
  has signalled or was denied, whatever pids were reused; it holds because a
  child keeps its pid until waited for and is never started twice (`BirthInv`).
* `SshServerProofs`: `SlotsExact`, `LoggedOnce` and `StageTruthful` from
  `SshInv == SlotsExact /\ StageInv /\ LogInv /\ ListenerInv`. A record may be
  written at the end of a shell or at the loss of the connection, so `StageInv`
  says what stage a connection has reached and `LogInv` that either end
  finalizes it and only the first one writes. `ListenerInv` says that once
  shutdown aborts, whoever is open is being aborted, and that nobody is open
  when it is over.

  The second part of the module proves `LiveEvidenceStands` (`LiveEvidence`),
  `LoginCheckExact` (`LoginChecks`) and the part of `SeriousDecides` that is
  about the intent (`IntentIsDecided`) of `Classification`, for any lines,
  pauses, connection counts and bounds; its assumption on the lines is not
  needed. `RuleOfId` and `WhenNamed` read off the table of rules what the
  verdict names when. `EvidenceInv` says that what a live verdict was named for
  is still counted, and that the live classifier, which is not told of other
  connections, names no rule about them. `TranscriptInv` relates what the
  extractor remembers of an SSH session to the lines themselves: a password
  after a username finds it waiting, each line but a credential is a command,
  and the two flags of the login check say which commands there were. The
  intent rests on `HighRisk` and `DecisiveTags`: five rules are rated high, and
  of these only the default credentials of Mirai are about credentials.
  `TelnetProbeNeverNamed` finds a rule that cannot match (below, Findings): in a
  Telnet session the extractor counts as many attempts as commands.
* `ProtocolServerProofs`: `WithinLimit` and `WaitedLosesNothing` from
  `ListenerInv == TypeInv /\ TasksInv /\ WaitInv`. `WithinLimit` is about the
  handlers that run, the code's guard about the task set: `TasksInv` says that
  the first are among the second. `WaitInv` says that where `wait_closed` waits
  nobody is ever cancelled, since the open connections are gone when the tasks
  of the moment are. `TypeInv` counts how many lines each stage can have logged.
* `PersonaCacheProofs`: the invariant `OutageChangesNothing` and the action
  property `NeverOlder` from `CacheInv == TypeInv /\ OneLoad /\ ReadInv /\
  OutageChangesNothing`. `OneLoad` (the refresh flag admits one loading thread)
  is what makes it impossible for a late reload to store an older state;
  `ReadInv` says that what a thread has read is the meaning of a state of the
  row not older than the cached one.
* `DashboardAccountsProofs`: `SecretsAgree`, `OneAccount`, `RevokedIsRejected`
  and `AttemptsBounded` from `AccountsInv == TypeInv /\ SecretInv /\ SignupInv /\
  CookieInv /\ EndedInv`. `SecretInv` says what a process that is creating or
  reading the file knows of it; `SignupInv` that who has counted no account
  holds the lock; `CookieInv` that a cookie's version is one the account has had
  with the password that earned it; `EndedInv` that a version ended stays ended.
  `AttemptsBounded` follows from an account of failures and passed requests
  that no step can enlarge beyond the limit and the requests.

Only model-checked:

* liveness (`StopEnds`, `PendingDrains`, `QueueDrains`, `HeldIsReported`,
  `EverythingEnds`, `EndsTogether`, `SavedIsServed`), which is out of the
  prover's reach;
* `Bookkeeping` and `SeenIsRecorded` of the shell, whose operators are
  recursive over paths and pipelines, which the prover cannot reason about;
* actor, alert and leading tag in `SeriousDecides`, with the types of the
  scores. Scores and votes are sums over the set of matching rules; what such a
  sum comes to needs an induction over the set, which the prover does not offer.
  The table of rules is fixed, so that TLC covers every combination of matches
  that lines of the run can make.

## Findings

`issues_absorbed` shows the code doing other than what a comment and a document
say (quoted in `PROJECT.json`): the repeat-connection check exchanges the
sessions of a closed issue for as many others and leaves it closed.

Other observations from building the models, without a run of their own:

* Import of the live log stores a session that a worker is about to store as
  well, because the worker's write takes neither the check nor the lock
  (`repository.py:1535`, against the comment at 1495). `TwoRunsOnlyByLiveImport`
  says that nothing else does.
* What is typed over a second channel opened after the first has ended is in no
  record (`ssh_server.py:324`).
* Up to Python 3.11, where `wait_closed` does not wait, a handler cancelled in
  its `finally` clause skips its log call (`telnet_handler.py:111`).
  `WaitedLosesNothing` says that waiting is what prevents it. On 3.12 and later
  `SSHListener.shutdown` waits for clients before it aborts them, so that
  `EverythingEnds` is stated for the earlier behaviour only.
* A start that ends removes the pid file whoever wrote it (`cli.py:380`), so
  that a pair started in the meantime is not found by `echidra stop`.
* A persona row that no longer validates counts as a failed lookup, because
  reading it already raises (`config.py:222`): the persona in use stays, where
  the docstring (`config.py:205`) promises the preset.
* A process that loses the race for the secret's file and finds it still empty
  keeps a secret of its own (`api/app.py:1513`, docstring at 1488), and so does
  every later one if the winner died before writing. Cookies of one process are
  then refused by the other. `SecretsAgree` names the exception. Two threads of
  one process may load the secret at once as well (`api/app.py:1466`), and the
  last to finish sets it for both; the model has one load per process.
* Two Telnet user names, the first with a blank password, count as a complete
  login (`default_rules.yaml:68` says that takes both halves), and a name left
  pending is paired with the password of a later attempt
  (`features/session.py:543`).
* Because scores are averages, a download that is started, together with a
  login, repeated connections and an interactive pace, comes to 63 and the level
  "medium" although the rule's own risk is 90. `SeriousDecides` says what holds:
  it still alerts, and names actor, tag and intent.
* A typed command that begins with `login:` or `password:` is taken for half of
  a login, because the extractor looks at every line (`features/session.py:402`)
  and the comment above it has credential lines in mind. What follows on such a
  line is not judged, so `SeriousDecides` and `LoginCheckExact` are stated for
  the other typed lines.
* `telnet_banner_probe_no_credentials` (`default_rules.yaml:306`) never matches a
  session of the Telnet listener. It asks for a command that is no login attempt,
  but the handler logs only user names and passwords
  (`telnet_handler.py:79` and 89). Its test builds a record with another line
  (`tests/test_protocol_specific_rules.py:78`). `TelnetProbeNeverNamed` proves
  it; each of the other 27 rules matches in some state of `classification`.
* Rates are those of the whole session: 120 commands per minute do not mean
  half a second between two lines.
* The shell does not record a decoy whose text was copied or redirected to
  another file and read there, or whose name is listed there; nor one that the
  visitor adds to in place and then reads, or makes executable and runs, which
  prints its lines as unknown commands (`session.py:88`). `SeenIsRecorded` is
  stated for decoys whose text was not `taken` in one of these ways. `cp -r` of
  a directory onto a file leaves a path that is both.
* `ls` of a decoy itself prints its name, by which the visitor learns that the
  file is there, and records nothing (`engine.py:926`), where the docstring
  (`session.py:88`) has a decoy recorded once its "name or content reaches the
  visitor". In a fresh session `ls ~/notes` is enough, a line of the run. Error
  messages that repeat an operand, such as "File exists" from `mkdir`, record
  nothing either. `SeenIsRecorded` is about names in the listing of a directory.
* A session whose COMMIT succeeded but whose answer was lost is skipped by
  catch-up as already stored and never announced; a session held back at one
  level and alerted at a higher one counts itself among "more sessions like
  this"; a timer cancelled too late sends the follow-up of the next window
  early.

## Not modelled

Text and lookups without state to protect: the wording of alerts, SMTP and
Slack, geolocation, playbooks, the block list, the dashboard's pages and
read-only queries, the responses of the decoy listeners, commands of the fake
shell that only print. Regular expressions, of which `Classification` takes the
result. Files below the level of a line: `os.write` writing part of a record.
Host keys and SSH handshake profiles, which are chosen once at start. Thread
starts that fail, for which the code has no path: in the persona reload, and in
`_alert_decision`, where the count is taken before the follow-up timer is
started (`alerts.py:177`), so that a window would hold a count without a timer
until the next alert of its key, or lose it when pruned. Hosts without `/proc`,
where `echidra` cannot look at a process's command line and takes every pid in
the file for its own (`cli.py:36`). A second honeypot on the same files.

## Plan

Modelled and checked: all the modules above. What could be added to the model:
`main()`'s stop sequence as a composition of the listeners with the pipeline,
half-written lines of the session log, the Telnet line parser, the
advisory-lock count of connections per source.

Proved: every safety invariant and every action property of the runs except
most of `SeriousDecides` and the two of the shell, and both refinements. Next
would be a contract for the alerts (each session that is held is told of in one
later message) in the manner of `IssueContract`, and the arithmetic of the
score once sums over finite sets can be reasoned about.
