------------------------------ MODULE IssueSync ------------------------------
(***************************************************************************)
(* The roll-up of stored classifier runs into one issue per (actor,        *)
(* technique) pair: the queue every stored run is put on, the passes of    *)
(* several processes that merge it, the full rebuild, the repeat-          *)
(* connection check that takes one issue over and hands it back, and the   *)
(* analyst who opens and closes issues while they run                      *)
(* (classifier/storage/issue_sync.py, "Issue sync" in repository.py).      *)
(*                                                                         *)
(* A pass is a series of transactions.  Each takes the advisory lock when  *)
(* it begins, reads under READ COMMITTED (every statement has a snapshot   *)
(* of its own), and its writes take effect when it commits: so a           *)
(* transaction is one step per snapshot that matters, the last of which    *)
(* commits.  The totals of an issue are represented by its linked          *)
(* sessions, their count and the highest risk; personas, source IPs,       *)
(* first/last seen and samples are kept by the same statements.            *)
(***************************************************************************)
EXTENDS Naturals, FiniteSets, FiniteSetsExt

CONSTANTS Runs,        \* classifier run ids
          Sessions,    \* session ids
          Pairs,       \* (actor_label, mitre_tag) pairs
          Shared,      \* the pair the repeat-connection check writes to
          Ips,         \* source IPs
          SessionOf,   \* the session of each run
          PairsOf,     \* the pairs a run's signals put it in
          RankOf,      \* the risk rank of each run, 0..4
          IpOf,        \* the source IP of each session
          MinSessions, \* _REPEAT_CONNECTION_MIN_SESSIONS
          BatchSize,   \* _ISSUE_SYNC_BATCH_SIZE
          Services,    \* processes that call maybe_sync_issues_...
          Operators,   \* processes running `sync-issues`
          NoProc,      \* nobody holds the lock
          MaxAborts    \* bound: passes that end in an error or a kill

Procs == Services \cup Operators

ASSUME IssueSyncConstants ==
    /\ Shared \in Pairs
    /\ SessionOf \in [Runs -> Sessions]
    /\ PairsOf \in [Runs -> SUBSET Pairs]
    /\ RankOf \in [Runs -> 0..4]
    /\ IpOf \in [Sessions -> Ips]
    /\ MinSessions \in Nat \ {0} /\ BatchSize \in Nat \ {0} /\ MaxAborts \in Nat
    /\ NoProc \notin Procs /\ Services \cap Operators = {}
    /\ IsFiniteSet(Sessions)

VARIABLES
    runs,      \* stored classifier runs
    aged,      \* sessions that started before the 24 h window
    queue,     \* issue_sync_queue
    rebuilt,   \* issue_sync_state has its row
    source,    \* rollup_source of each issue; "none" while it does not exist
    linked,    \* its rows of issue_sessions
    count,     \* its session_count
    rank,      \* its max_risk_rank
    status,    \* its triage status
    lock,      \* the holder of _ISSUE_SYNC_LOCK_KEY
    pc,        \* what the pass of each process is at
    full,      \* it was asked for a full rebuild
    cleared,   \* queue rows its transaction has deleted
    loaded,    \* runs its transaction has copied to issue_sync_runs
    repeated,  \* the sessions its repeat-connection check matched
    running,   \* _issue_sync_running of each service
    due,       \* the last pass began 30 s ago or more
    aborts     \* aborted passes so far

issueVars == <<source, linked, count, rank, status>>
passVars  == <<lock, pc, full, cleared, loaded, repeated>>
flagVars  == <<running, due>>
vars == <<runs, aged, queue, rebuilt, issueVars, passVars, flagVars, aborts>>

-----------------------------------------------------------------------------
(* A new database, or one upgraded from a version without the queue: its   *)
(* runs were never queued.                                                 *)
Init ==
    /\ runs \in SUBSET Runs
    /\ aged = {}
    /\ queue = {}
    /\ rebuilt = FALSE
    /\ source = [p \in Pairs |-> "none"]
    /\ linked = [p \in Pairs |-> {}]
    /\ count = [p \in Pairs |-> 0]
    /\ rank = [p \in Pairs |-> 0]
    /\ status = [p \in Pairs |-> "open"]
    /\ lock = NoProc
    /\ pc = [x \in Procs |-> "idle"]
    /\ full = [x \in Procs |-> FALSE]
    /\ cleared = [x \in Procs |-> {}]
    /\ loaded = [x \in Procs |-> {}]
    /\ repeated = [x \in Procs |-> {}]
    /\ running = [x \in Services |-> FALSE]
    /\ due = [x \in Services |-> TRUE]
    /\ aborts = 0

(* The sessions of those of a set of runs that are in a pair. *)
SessionsIn(R, p) == {SessionOf[r] : r \in {q \in R : p \in PairsOf[q]}}

(* aggregate_repeat_connections: the sessions, within the window, of every *)
(* source IP with at least MinSessions of them.                            *)
Recent == {SessionOf[r] : r \in runs} \ aged

Repeating ==
    {s \in Recent : Cardinality({t \in Recent : IpOf[t] = IpOf[s]}) >= MinSessions}

-----------------------------------------------------------------------------

(* classifier_run_statements: the run and its queue row in one transaction. *)
StoreRun(r) ==
    /\ r \notin runs
    /\ runs' = runs \cup {r}
    /\ queue' = queue \cup {r}
    /\ UNCHANGED <<aged, rebuilt, issueVars, passVars, flagVars, aborts>>

(* Time passes: a session leaves the window of the repeat check. *)
Age(s) ==
    /\ s \notin aged
    /\ aged' = aged \cup {s}
    /\ UNCHANGED <<runs, queue, rebuilt, issueVars, passVars, flagVars, aborts>>

(* update_issue_status: the analyst opens or closes an issue. *)
Triage(p, new) ==
    /\ source[p] # "none"
    /\ status' = [status EXCEPT ![p] = new]
    /\ UNCHANGED <<runs, aged, queue, rebuilt, source, linked, count, rank, passVars,
                   flagVars, aborts>>

-----------------------------------------------------------------------------
(* maybe_sync_issues_from_classifier_runs: debounced, at most one pass of  *)
(* a process at a time.                                                    *)
DueAgain(x) ==
    /\ ~due[x]
    /\ due' = [due EXCEPT ![x] = TRUE]
    /\ UNCHANGED <<runs, aged, queue, rebuilt, issueVars, passVars, running, aborts>>

MaybeSync(x) ==
    /\ runs # {}
    /\ ~running[x] /\ due[x]
    /\ running' = [running EXCEPT ![x] = TRUE]
    /\ due' = [due EXCEPT ![x] = FALSE]
    /\ pc' = [pc EXCEPT ![x] = "rebuild"]
    /\ UNCHANGED <<runs, aged, queue, rebuilt, issueVars, lock, full, cleared, loaded,
                   repeated, aborts>>

(* The thread could not be started: the flag is reset, the time is not. *)
ThreadNotStarted(x) ==
    /\ aborts < MaxAborts /\ aborts' = aborts + 1
    /\ runs # {}
    /\ ~running[x] /\ due[x]
    /\ due' = [due EXCEPT ![x] = FALSE]
    /\ UNCHANGED <<runs, aged, queue, rebuilt, issueVars, passVars, running>>

(* `sync-issues`, with or without --full. *)
SyncIssues(x, f) ==
    /\ pc[x] = "idle"
    /\ pc' = [pc EXCEPT ![x] = "rebuild"]
    /\ full' = [full EXCEPT ![x] = f]
    /\ UNCHANGED <<runs, aged, queue, rebuilt, issueVars, lock, cleared, loaded, repeated,
                   flagVars, aborts>>

(* Mutant: the lock of a pass that fails is not released. *)
PassEndsHoldingLock(x) ==
    /\ pc' = [pc EXCEPT ![x] = "idle"]
    /\ full' = [full EXCEPT ![x] = FALSE]
    /\ cleared' = [cleared EXCEPT ![x] = {}]
    /\ loaded' = [loaded EXCEPT ![x] = {}]
    /\ repeated' = [repeated EXCEPT ![x] = {}]
    /\ running' = [y \in Services |-> running[y] /\ y # x]
    /\ UNCHANGED <<lock, due>>

(* The pass of x ends: its transaction, if any, with it. *)
PassEnds(x) ==
    /\ pc' = [pc EXCEPT ![x] = "idle"]
    /\ full' = [full EXCEPT ![x] = FALSE]
    /\ cleared' = [cleared EXCEPT ![x] = {}]
    /\ loaded' = [loaded EXCEPT ![x] = {}]
    /\ repeated' = [repeated EXCEPT ![x] = {}]
    /\ lock' = IF lock = x THEN NoProc ELSE lock
    /\ running' = [y \in Services |-> running[y] /\ y # x]
    /\ UNCHANGED due

(* pg_try_advisory_xact_lock fails: IssueSyncInProgressError. *)
LockTaken(x) ==
    /\ pc[x] \in {"rebuild", "batches", "repeat"}
    /\ lock # NoProc
    /\ PassEnds(x)
    /\ UNCHANGED <<runs, aged, queue, rebuilt, issueVars, aborts>>

(* Any other error, or a kill: the open transaction is rolled back. *)
Abort(x) ==
    /\ aborts < MaxAborts /\ aborts' = aborts + 1
    /\ pc[x] # "idle"
    /\ PassEnds(x)
    /\ UNCHANGED <<runs, aged, queue, rebuilt, issueVars>>

-----------------------------------------------------------------------------
(* _merge_runs and merge_pairs: merge the runs R into the issues of the    *)
(* pairs in scope.  An issue of the repeat-connection check is left alone  *)
(* unless this is a rebuild; totals start from zero for a rebuild and for  *)
(* an issue that was not the classifier's.                                 *)
Targets(R, scope, rebuild) ==
    {p \in scope : SessionsIn(R, p) # {} /\ (rebuild \/ source[p] # "repeat")}

StartsFromZero(p, rebuild) == rebuild \/ source[p] # "classifier"

BaseSessions(p, rebuild) == IF StartsFromZero(p, rebuild) THEN {} ELSE linked[p]
BaseCount(p, rebuild)    == IF StartsFromZero(p, rebuild) THEN 0 ELSE count[p]
BaseRank(p, rebuild)     == IF StartsFromZero(p, rebuild) THEN 0 ELSE rank[p]

RanksIn(R, p) == {RankOf[r] : r \in {q \in R : p \in PairsOf[q]}}

(* Mutant: the sessions of the batch are counted, linked before or not. *)
AddedAll(R, p, rebuild) == Cardinality(SessionsIn(R, p))

(* The rows MERGE_ISSUE_SESSIONS_SQL inserts. *)
Added(R, p, rebuild) == Cardinality(SessionsIn(R, p) \ BaseSessions(p, rebuild))

(* Mutant: any merge reopens the issue. *)
ReopenedAlways(p, new) == "open"

(* Mutant: a merge leaves the analyst's status alone. *)
ReopenedNever(p, new) == status[p]

(* The status rule of UPDATE_ISSUE_ROLLUP_SQL and UPSERT_ISSUE_SQL. *)
Reopened(p, new) == IF new > count[p] THEN "open" ELSE status[p]

MergeRuns(R, scope, rebuild) ==
    LET T == Targets(R, scope, rebuild)
        newCount(p) == BaseCount(p, rebuild) + Added(R, p, rebuild)
    IN  /\ linked' = [p \in Pairs |->
                IF p \in T THEN BaseSessions(p, rebuild) \cup SessionsIn(R, p) ELSE linked[p]]
        /\ count' = [p \in Pairs |-> IF p \in T THEN newCount(p) ELSE count[p]]
        /\ rank' = [p \in Pairs |->
                IF p \in T THEN Max({BaseRank(p, rebuild)} \cup RanksIn(R, p)) ELSE rank[p]]
        /\ status' = [p \in Pairs |-> IF p \in T THEN Reopened(p, newCount(p)) ELSE status[p]]
        /\ source' = [p \in Pairs |-> IF p \in T THEN "classifier" ELSE source[p]]

(* A transaction of x begins: it gets the lock and goes on to `at`. *)
Begin(x, at) ==
    /\ lock = NoProc /\ lock' = x
    /\ pc' = [pc EXCEPT ![x] = at]

Commit(x, at) ==
    /\ lock' = NoProc
    /\ pc' = [pc EXCEPT ![x] = at]
    /\ cleared' = [cleared EXCEPT ![x] = {}]
    /\ loaded' = [loaded EXCEPT ![x] = {}]
    /\ UNCHANGED <<full, repeated>>

-----------------------------------------------------------------------------
(* Transaction 1: rebuild every issue from all stored runs, if asked for   *)
(* or never done.  The queue is cleared before the runs are read.          *)
NoRebuild(x) ==
    /\ pc[x] = "rebuild"
    /\ rebuilt /\ ~full[x]
    /\ lock = NoProc
    /\ pc' = [pc EXCEPT ![x] = "batches"]
    /\ UNCHANGED <<runs, aged, queue, rebuilt, issueVars, lock, full, cleared, loaded,
                   repeated, flagVars, aborts>>

ClearQueue(x) ==
    /\ pc[x] = "rebuild"
    /\ ~rebuilt \/ full[x]
    /\ Begin(x, "loadAll")
    /\ cleared' = [cleared EXCEPT ![x] = queue]
    /\ UNCHANGED <<runs, aged, queue, rebuilt, issueVars, full, loaded, repeated, flagVars,
                   aborts>>

LoadAll(x) ==
    /\ pc[x] = "loadAll"
    /\ loaded' = [loaded EXCEPT ![x] = runs]
    /\ pc' = [pc EXCEPT ![x] = "mergeAll"]
    /\ UNCHANGED <<runs, aged, queue, rebuilt, issueVars, lock, full, cleared, repeated,
                   flagVars, aborts>>

(* Mutant: the queue is cleared after the runs are read. *)
RebuildClearsLast(x) ==
    /\ pc[x] = "mergeAll"
    /\ MergeRuns(loaded[x], Pairs, TRUE)
    /\ queue' = {}
    /\ rebuilt' = TRUE
    /\ Commit(x, "batches")
    /\ UNCHANGED <<runs, aged, flagVars, aborts>>

Rebuild(x) ==
    /\ pc[x] = "mergeAll"
    /\ MergeRuns(loaded[x], Pairs, TRUE)
    /\ queue' = queue \ cleared[x]
    /\ rebuilt' = TRUE
    /\ Commit(x, "batches")
    /\ UNCHANGED <<runs, aged, flagVars, aborts>>

(* Transaction 2, repeated until the queue is empty: merge a batch of it.  *)
LoadBatch(x) ==
    /\ pc[x] = "batches"
    /\ queue # {}
    /\ Begin(x, "merge")
    /\ \E B \in SUBSET queue :
          /\ Cardinality(B) = IF Cardinality(queue) < BatchSize THEN Cardinality(queue)
                                                                ELSE BatchSize
          /\ loaded' = [loaded EXCEPT ![x] = B]
    /\ UNCHANGED <<runs, aged, queue, rebuilt, issueVars, full, cleared, repeated, flagVars,
                   aborts>>

Merge(x) ==
    /\ pc[x] = "merge"
    /\ MergeRuns(loaded[x], Pairs, FALSE)
    /\ queue' = queue \ loaded[x]
    /\ Commit(x, "batches")
    /\ UNCHANGED <<runs, aged, rebuilt, flagVars, aborts>>

QueueEmpty(x) ==
    /\ pc[x] = "batches"
    /\ queue = {}
    /\ lock = NoProc
    /\ pc' = [pc EXCEPT ![x] = "repeat"]
    /\ UNCHANGED <<runs, aged, queue, rebuilt, issueVars, lock, full, cleared, loaded,
                   repeated, flagVars, aborts>>

(* Transaction 3, _sync_repeat_connection_issue: write the issue while the *)
(* check matches; when it no longer does, hand it back to the classifier,  *)
(* rebuilt from all runs of the pair.                                      *)
CheckRepeat(x) ==
    /\ pc[x] = "repeat"
    /\ Begin(x, "takeOver")
    /\ repeated' = [repeated EXCEPT ![x] = Repeating]
    /\ UNCHANGED <<runs, aged, queue, rebuilt, issueVars, full, cleared, loaded, flagVars,
                   aborts>>

TakeOver(x) ==
    /\ pc[x] = "takeOver"
    /\ repeated[x] # {}
    /\ linked' = [linked EXCEPT ![Shared] = repeated[x]]
    /\ count' = [count EXCEPT ![Shared] = Cardinality(repeated[x])]
    /\ status' = [status EXCEPT ![Shared] = Reopened(Shared, Cardinality(repeated[x]))]
    /\ source' = [source EXCEPT ![Shared] = "repeat"]
    /\ PassEnds(x)
    /\ UNCHANGED <<runs, aged, queue, rebuilt, rank, aborts>>

NotMatched(x) ==
    /\ pc[x] = "takeOver"
    /\ repeated[x] = {}
    /\ source[Shared] # "repeat"
    /\ PassEnds(x)
    /\ UNCHANGED <<runs, aged, queue, rebuilt, issueVars, aborts>>

(* Mutant: only the runs still queued are read for an issue handed back. *)
LoadPairQueued(x) ==
    /\ pc[x] = "takeOver"
    /\ repeated[x] = {}
    /\ source[Shared] = "repeat"
    /\ loaded' = [loaded EXCEPT ![x] = {r \in queue : Shared \in PairsOf[r]}]
    /\ pc' = [pc EXCEPT ![x] = "handBack"]
    /\ UNCHANGED <<runs, aged, queue, rebuilt, issueVars, lock, full, cleared, repeated,
                   flagVars, aborts>>

LoadPair(x) ==
    /\ pc[x] = "takeOver"
    /\ repeated[x] = {}
    /\ source[Shared] = "repeat"
    /\ loaded' = [loaded EXCEPT ![x] = {r \in runs : Shared \in PairsOf[r]}]
    /\ pc' = [pc EXCEPT ![x] = "handBack"]
    /\ UNCHANGED <<runs, aged, queue, rebuilt, issueVars, lock, full, cleared, repeated,
                   flagVars, aborts>>

HandBack(x) ==
    /\ pc[x] = "handBack"
    /\ MergeRuns(loaded[x], {Shared}, TRUE)
    /\ PassEnds(x)
    /\ UNCHANGED <<runs, aged, queue, rebuilt, aborts>>

-----------------------------------------------------------------------------
PassStep(x) ==
    \/ NoRebuild(x) \/ ClearQueue(x) \/ LoadAll(x) \/ Rebuild(x)
    \/ LoadBatch(x) \/ Merge(x) \/ QueueEmpty(x)
    \/ CheckRepeat(x) \/ TakeOver(x) \/ NotMatched(x) \/ LoadPair(x) \/ HandBack(x)
    \/ LockTaken(x)

Next ==
    \/ \E r \in Runs : StoreRun(r)
    \/ \E s \in Sessions : Age(s)
    \/ \E p \in Pairs, new \in {"open", "closed"} : Triage(p, new)
    \/ \E x \in Services : DueAgain(x) \/ MaybeSync(x) \/ ThreadNotStarted(x)
    \/ \E x \in Operators, f \in BOOLEAN : SyncIssues(x, f)
    \/ \E x \in Procs : PassStep(x) \/ Abort(x)

Spec == Init /\ [][Next]_vars

(* Fairness: time passes, sessions keep coming (every stored session calls *)
(* maybe_sync), a pass that began is carried on, and a pass that gets to   *)
(* its batches again and again gets the lock for one of them: a            *)
(* transaction holds it for a moment, every 30 s at most.                  *)
FairSpec ==
    /\ Spec
    /\ \A x \in Services : WF_vars(DueAgain(x)) /\ SF_vars(MaybeSync(x))
    /\ \A x \in Procs : WF_vars(PassStep(x)) /\ SF_vars(LoadBatch(x))

-----------------------------------------------------------------------------
(* The type of every variable; only stored runs are queued.                *)
TypeOK ==
    /\ runs \in SUBSET Runs /\ aged \in SUBSET Sessions
    /\ queue \in SUBSET runs /\ rebuilt \in BOOLEAN
    /\ source \in [Pairs -> {"none", "classifier", "repeat"}]
    /\ linked \in [Pairs -> SUBSET Sessions]
    /\ count \in [Pairs -> Nat] /\ rank \in [Pairs -> 0..4]
    /\ status \in [Pairs -> {"open", "closed"}]
    /\ lock \in Procs \cup {NoProc}
    /\ pc \in [Procs -> {"idle", "rebuild", "loadAll", "mergeAll", "batches", "merge",
                         "repeat", "takeOver", "handBack"}]
    /\ full \in [Procs -> BOOLEAN]
    /\ cleared \in [Procs -> SUBSET Runs] /\ loaded \in [Procs -> SUBSET Runs]
    /\ repeated \in [Procs -> SUBSET Sessions]
    /\ running \in [Services -> BOOLEAN] /\ due \in [Services -> BOOLEAN]
    /\ aborts \in 0..MaxAborts

(* Once the issues have been rebuilt, every stored run is in the issue of  *)
(* each of its pairs or still queued for it, unless the repeat-connection  *)
(* check owns that issue: clearing, merging, dequeuing, aborted passes and *)
(* runs stored in between never skip one.                                  *)
NoRunMissed ==
    /\ TypeOK
    /\ rebuilt => \A r \in runs \ queue : \A p \in PairsOf[r] :
                     source[p] # "repeat" => SessionOf[r] \in linked[p]

(* session_count is the number of linked sessions, whatever was merged     *)
(* twice; an issue of the classifier links sessions of its own pair only,  *)
(* and its risk is one of theirs and at least that of every merged run.    *)
TotalsExact ==
    \A p \in Pairs :
        /\ count[p] = Cardinality(linked[p])
        /\ source[p] = "classifier" =>
             /\ linked[p] \subseteq SessionsIn(runs, p)
             /\ rank[p] \in RanksIn(runs, p)
             /\ rebuilt => \A r \in runs \ queue : p \in PairsOf[r] => rank[p] >= RankOf[r]

(* The sync reopens an issue only when it links a session that was not     *)
(* linked; otherwise the analyst's status is kept.                         *)
KeepsTriage ==
    [][\A p \in Pairs :
          (pc' # pc /\ status[p] = "closed" /\ status'[p] = "open")
              => ~(linked'[p] \subseteq linked[p])]_vars

(* A closed issue of the classifier that picks up a session by a merge or  *)
(* a rebuild is reopened by the same step.                                 *)
ClassifierIssueReopens ==
    [][\A p \in Pairs :
          (/\ source[p] = "classifier" /\ source'[p] = "classifier"
           /\ status[p] = "closed" /\ ~(linked'[p] \subseteq linked[p]))
              => status'[p] = "open"]_vars

(* classifier/storage/repository.py: "A closed finding that picks up new   *)
(* sessions reopens, so activity after an analyst closed it is never       *)
(* silently absorbed" - of every issue.                                    *)
ClosedIssueReopens ==
    [][\A p \in Pairs :
          (status[p] = "closed" /\ ~(linked'[p] \subseteq linked[p]))
              => status'[p] = "open"]_vars

(* While sessions keep coming, a queued run is eventually merged: no pass  *)
(* that fails, is killed, does not start or finds the lock taken leaves    *)
(* the single-flight flag or the lock behind.                              *)
QueueDrains == \A r \in Runs : r \in queue ~> r \notin queue

-----------------------------------------------------------------------------
(* A run waits while it is queued; before the first rebuild, which reads   *)
(* all runs, every stored run does.                                        *)
Waiting == IF rebuilt THEN queue ELSE runs

Contract == INSTANCE IssueContract
              WITH waiting <- Waiting, rolled <- runs \ Waiting, owner <- source,
                   sessions <- linked, risk <- rank, triage <- status

(* The passes keep the contract of IssueContract: in particular a run is   *)
(* dequeued by the very commit that links it, a classifier's issue never   *)
(* loses a session or risk, and one handed back by the repeat-connection   *)
(* check has every run that was dequeued while it was away.                *)
KeepsContract == Contract!Spec
=============================================================================
