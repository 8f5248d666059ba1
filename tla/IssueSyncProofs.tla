---------------------------- MODULE IssueSyncProofs ----------------------------
(***************************************************************************)
(* The roll-up of runs into issues for every instance: no stored run is    *)
(* skipped, the totals of an issue are exact, a closed issue is reopened   *)
(* by the sync only when it picks up a session, and one of the classifier  *)
(* always when it does.                                                    *)
(*                                                                         *)
(* The inductive invariant is RollupInv.  Only the holder of the lock is   *)
(* inside a transaction (LockInv), so what a transaction has read is still *)
(* true of the queue and the issues when it commits (PassInv).             *)
(*                                                                         *)
(* The last part shows that each step implements a step of IssueContract.  *)
(***************************************************************************)
EXTENDS IssueSync, FiniteSetTheorems, TLAPS

(* Only the holder of the lock is inside a transaction, and a service that *)
(* runs no pass is at none.                                                *)
InTransaction == {"loadAll", "mergeAll", "merge", "takeOver", "handBack"}

LockInv ==
    /\ \A x \in Procs : pc[x] \in InTransaction <=> lock = x
    /\ \A x \in Services : ~running[x] => pc[x] = "idle"

(* What a transaction has read, against what is there while it lasts.      *)
PassInv ==
    \A x \in Procs :
        /\ pc[x] = "loadAll" => cleared[x] \subseteq runs
        /\ pc[x] = "mergeAll" =>
             /\ loaded[x] \subseteq runs
             /\ (runs \ queue) \cup cleared[x] \subseteq loaded[x]
             /\ \A p \in Pairs :
                   source[p] = "classifier" => /\ linked[p] \subseteq SessionsIn(loaded[x], p)
                                               /\ rank[p] \in RanksIn(loaded[x], p)
        /\ pc[x] = "merge" => loaded[x] \subseteq queue
        /\ pc[x] = "handBack" =>
             /\ loaded[x] \subseteq runs /\ source[Shared] = "repeat"
             /\ \A r \in runs \ queue : Shared \in PairsOf[r] => r \in loaded[x]

(* An issue that does not exist has no sessions. *)
NoneInv == \A p \in Pairs : source[p] = "none" => linked[p] = {}

RollupInv == LockInv /\ PassInv /\ NoneInv /\ NoRunMissed /\ TotalsExact

-----------------------------------------------------------------------------
(* A non-empty set of ranks has a greatest element.                        *)
LEMMA MaxOfRanks ==
    ASSUME NEW S \in SUBSET (0..4), S # {}
    PROVE  Max(S) \in S /\ \A r \in S : Max(S) >= r
<1>1. \E x \in S : \A y \in S : x >= y
  <2>1. CASE 4 \in S
    BY <2>1
  <2>2. CASE 4 \notin S /\ 3 \in S
    BY <2>2
  <2>3. CASE 4 \notin S /\ 3 \notin S /\ 2 \in S
    BY <2>3
  <2>4. CASE 4 \notin S /\ 3 \notin S /\ 2 \notin S /\ 1 \in S
    BY <2>4
  <2>5. CASE 4 \notin S /\ 3 \notin S /\ 2 \notin S /\ 1 \notin S
    <3>1. \A x \in S : x = 0
      BY <2>5
    <3>2. PICK z \in S : TRUE
      OBVIOUS
    <3>3. \A y \in S : z >= y
      BY <3>1
    <3>. QED
      BY <3>2, <3>3
  <2>. QED
    BY <2>1, <2>2, <2>3, <2>4, <2>5
<1>. QED
  BY <1>1 DEF Max

(* Sessions and ranks of more runs are more.                               *)
LEMMA RunsIn ==
    ASSUME NEW R \in SUBSET Runs, NEW Q \in SUBSET Runs, NEW p \in Pairs
    PROVE  /\ SessionsIn(R, p) \in SUBSET Sessions /\ RanksIn(R, p) \in SUBSET (0..4)
           /\ SessionsIn(R, p) # {} <=> RanksIn(R, p) # {}
           /\ R \subseteq Q => /\ SessionsIn(R, p) \subseteq SessionsIn(Q, p)
                               /\ RanksIn(R, p) \subseteq RanksIn(Q, p)
           /\ \A r \in R : p \in PairsOf[r] =>
                  SessionOf[r] \in SessionsIn(R, p) /\ RankOf[r] \in RanksIn(R, p)
<1>. USE DEF SessionsIn, RanksIn
<1>1. SessionsIn(R, p) \in SUBSET Sessions /\ RanksIn(R, p) \in SUBSET (0..4)
  BY IssueSyncConstants
<1>2. SessionsIn(R, p) # {} <=> RanksIn(R, p) # {}
  OBVIOUS
<1>3. ASSUME R \subseteq Q
      PROVE  SessionsIn(R, p) \subseteq SessionsIn(Q, p) /\ RanksIn(R, p) \subseteq RanksIn(Q, p)
  BY <1>3
<1>4. \A r \in R : p \in PairsOf[r] =>
          SessionOf[r] \in SessionsIn(R, p) /\ RankOf[r] \in RanksIn(R, p)
  OBVIOUS
<1>. QED
  BY <1>1, <1>2, <1>3, <1>4

(* What _merge_runs makes of the issue of a pair: an issue out of reach    *)
(* stays as it is; the others get the sessions and ranks of the runs.      *)
Kept(p) ==
    /\ linked'[p] = linked[p] /\ count'[p] = count[p] /\ rank'[p] = rank[p]
    /\ status'[p] = status[p] /\ source'[p] = source[p]

MergedWith(R, rebuild, p) ==
    /\ linked'[p] = BaseSessions(p, rebuild) \cup SessionsIn(R, p)
    /\ count'[p] = Cardinality(linked'[p])
    /\ rank'[p] = Max({BaseRank(p, rebuild)} \cup RanksIn(R, p))
    /\ status'[p] = Reopened(p, count'[p]) /\ source'[p] = "classifier"
    /\ BaseSessions(p, rebuild) \in SUBSET Sessions

(* A merge leaves alone what it is not for, and folds its runs into what it *)
(* is for.                                                                 *)
LEMMA MergeOf ==
    ASSUME TypeOK, TotalsExact, NEW R \in SUBSET runs, NEW scope \in SUBSET Pairs,
           NEW rebuild \in BOOLEAN, MergeRuns(R, scope, rebuild), NEW p \in Pairs
    PROVE  /\ p \notin Targets(R, scope, rebuild) => Kept(p)
           /\ p \in Targets(R, scope, rebuild) => MergedWith(R, rebuild, p)
<1>. USE DEF Kept, MergedWith
<1>1. CASE p \notin Targets(R, scope, rebuild)
  BY <1>1 DEF MergeRuns
<1>2. CASE p \in Targets(R, scope, rebuild)
  <2> DEFINE B == BaseSessions(p, rebuild)
             N == SessionsIn(R, p)
  <2>1. R \in SUBSET Runs /\ linked[p] \in SUBSET Sessions /\ rank[p] \in 0..4
    BY DEF TypeOK
  <2>2. B \in SUBSET Sessions /\ N \in SUBSET Sessions /\ BaseRank(p, rebuild) \in 0..4
    <3>1. N \in SUBSET Sessions
      BY <2>1, RunsIn
    <3>2. B \in SUBSET Sessions
      BY <2>1 DEF BaseSessions
    <3>3. BaseRank(p, rebuild) \in 0..4
      BY <2>1 DEF BaseRank
    <3>. QED
      BY <3>1, <3>2, <3>3
  <2>3. BaseCount(p, rebuild) = Cardinality(B)
    BY FS_EmptySet DEF TotalsExact, BaseCount, BaseSessions
  <2>4. /\ linked'[p] = B \cup N
        /\ count'[p] = BaseCount(p, rebuild) + Cardinality(N \ B)
        /\ rank'[p] = Max({BaseRank(p, rebuild)} \cup RanksIn(R, p))
        /\ status'[p] = Reopened(p, count'[p]) /\ source'[p] = "classifier"
    BY <1>2 DEF MergeRuns, Added
  <2>5. Cardinality(B \cup N) = Cardinality(B) + Cardinality(N \ B)
    <3>. HIDE DEF B, N
    <3>1. IsFiniteSet(B) /\ IsFiniteSet(N) /\ IsFiniteSet(N \ B)
      BY <2>2, IssueSyncConstants, FS_Subset
    <3>2. B \cup N = B \cup (N \ B) /\ B \cap (N \ B) = {}
      OBVIOUS
    <3>3. Cardinality(B \cup (N \ B)) = Cardinality(B) + Cardinality(N \ B) - Cardinality({})
      BY <3>1, <3>2, FS_Union
    <3>4. Cardinality(B) \in Nat /\ Cardinality(N \ B) \in Nat /\ Cardinality({}) = 0
      BY <3>1, FS_CardinalityType, FS_EmptySet
    <3>5. Cardinality(B \cup (N \ B)) = Cardinality(B) + Cardinality(N \ B)
      BY <3>3, <3>4
    <3>. QED
      BY <3>2, <3>5
  <2>. QED
    BY <1>2, <2>2, <2>3, <2>4, <2>5
<1>. QED
  BY <1>1, <1>2

(* The rank of a merged issue is that of one of its runs, and at least     *)
(* that of the issue before and of every run merged.                       *)
LEMMA MergedRank ==
    ASSUME TypeOK, TotalsExact, NEW R \in SUBSET runs, NEW rebuild \in BOOLEAN, NEW p \in Pairs,
           SessionsIn(R, p) # {}
    PROVE  LET new == Max({BaseRank(p, rebuild)} \cup RanksIn(R, p))
           IN  /\ new \in RanksIn(runs, p) /\ new \in 0..4
               /\ new >= BaseRank(p, rebuild) /\ \A q \in RanksIn(R, p) : new >= q
<1> DEFINE base == BaseRank(p, rebuild)
           new == Max({base} \cup RanksIn(R, p))
<1>1. R \in SUBSET Runs /\ runs \in SUBSET Runs /\ rank[p] \in 0..4
  BY DEF TypeOK
<1>2. RanksIn(R, p) \in SUBSET (0..4) /\ RanksIn(R, p) # {} /\ RanksIn(R, p) \subseteq RanksIn(runs, p)
  BY <1>1, RunsIn
<1>3. base \in 0..4 /\ (base = 0 \/ base \in RanksIn(runs, p))
  BY <1>1 DEF BaseRank, StartsFromZero, TotalsExact
<1>. HIDE DEF base
<1>4. {base} \cup RanksIn(R, p) \in SUBSET (0..4) /\ {base} \cup RanksIn(R, p) # {}
  BY <1>2, <1>3
<1>5. new \in {base} \cup RanksIn(R, p) /\ \A q \in {base} \cup RanksIn(R, p) : new >= q
  BY <1>4, MaxOfRanks
<1>. HIDE DEF new
<1>6. new \in RanksIn(runs, p)
  <2>1. CASE new = base /\ base = 0
    <3>1. PICK q \in RanksIn(R, p) : TRUE
      BY <1>2
    <3>2. q \in 0..4 /\ 0 >= q
      BY <1>2, <1>5, <2>1
    <3>3. q = 0
      BY <3>2
    <3>. QED
      BY <1>2, <2>1, <3>1, <3>3
  <2>. QED
    BY <1>2, <1>3, <1>5, <2>1
<1>. QED
  BY <1>4, <1>5, <1>6 DEF base, new

-----------------------------------------------------------------------------
(* A step that writes neither runs, queue nor the roll-up of an issue. *)
Quiet == UNCHANGED <<runs, queue, rebuilt, source, linked, count, rank>>

(* The steps of a pass that only read.                                     *)
PassReads(x) ==
    \/ NoRebuild(x) \/ ClearQueue(x) \/ LoadAll(x) \/ LoadBatch(x) \/ QueueEmpty(x)
    \/ CheckRepeat(x) \/ NotMatched(x) \/ LoadPair(x) \/ LockTaken(x) \/ Abort(x)

(* Who else steps. *)
Other ==
    \/ \E s \in Sessions : Age(s)
    \/ \E p \in Pairs, new \in {"open", "closed"} : Triage(p, new)
    \/ \E x \in Services : DueAgain(x) \/ MaybeSync(x) \/ ThreadNotStarted(x)
    \/ \E x \in Operators, f \in BOOLEAN : SyncIssues(x, f)
    \/ UNCHANGED vars

(* The runs and the issues change only when a run is stored and when a     *)
(* transaction commits.                                                    *)
LEMMA StepKinds ==
    ASSUME [Next]_vars
    PROVE  \/ \E r \in Runs : StoreRun(r)
           \/ Other /\ Quiet
           \/ \E x \in Procs : PassReads(x) /\ Quiet
           \/ \E x \in Procs : Rebuild(x) \/ Merge(x) \/ TakeOver(x) \/ HandBack(x)
<1>1. ASSUME NEW x \in Procs, PassReads(x) PROVE Quiet
  BY <1>1 DEF PassReads, NoRebuild, ClearQueue, LoadAll, LoadBatch, QueueEmpty, CheckRepeat,
     NotMatched, LoadPair, LockTaken, Abort, Quiet, issueVars
<1>2. ASSUME Other PROVE Quiet
  BY <1>2 DEF Other, Age, Triage, DueAgain, MaybeSync, ThreadNotStarted, SyncIssues, Quiet, issueVars, vars
<1>. QED
  BY <1>1, <1>2 DEF Next, PassStep, Other, PassReads

(* Every step keeps the types.                                             *)
LEMMA TypeStep ==
    ASSUME TypeOK, PassInv, TotalsExact, [Next]_vars
    PROVE  TypeOK'
<1>. USE DEF TypeOK
<1>a. /\ PairsOf \in [Runs -> SUBSET Pairs] /\ SessionOf \in [Runs -> Sessions]
      /\ RankOf \in [Runs -> 0..4] /\ Shared \in Pairs /\ IsFiniteSet(Sessions)
      /\ MaxAborts \in Nat /\ NoProc \notin Procs
  BY IssueSyncConstants
<1>b. /\ runs \in SUBSET Runs /\ aged \in SUBSET Sessions
      /\ queue \in SUBSET runs /\ rebuilt \in BOOLEAN
      /\ source \in [Pairs -> {"none", "classifier", "repeat"}]
      /\ linked \in [Pairs -> SUBSET Sessions]
      /\ count \in [Pairs -> Nat] /\ rank \in [Pairs -> 0..4]
      /\ status \in [Pairs -> {"open", "closed"}]
      /\ cleared \in [Procs -> SUBSET Runs] /\ loaded \in [Procs -> SUBSET Runs]
      /\ repeated \in [Procs -> SUBSET Sessions]
      /\ pc \in [Procs -> {"idle", "rebuild", "loadAll", "mergeAll", "batches", "merge",
                           "repeat", "takeOver", "handBack"}]
      /\ full \in [Procs -> BOOLEAN] /\ running \in [Services -> BOOLEAN]
      /\ due \in [Services -> BOOLEAN] /\ aborts \in 0..MaxAborts
      /\ lock \in Procs \cup {NoProc}
  OBVIOUS
<1>c. Services \subseteq Procs /\ Operators \subseteq Procs
  BY DEF Procs
<1>1. ASSUME NEW r \in Runs, StoreRun(r) PROVE TypeOK'
  BY <1>1 DEF StoreRun, issueVars, passVars, flagVars
<1>2. CASE Other
  <2>1. ASSUME NEW s \in Sessions, Age(s) PROVE TypeOK'
    BY <2>1 DEF Age, issueVars, passVars, flagVars
  <2>2. ASSUME NEW p \in Pairs, NEW new \in {"open", "closed"}, Triage(p, new) PROVE TypeOK'
    BY <2>2 DEF Triage, passVars, flagVars
  <2>3. ASSUME NEW x \in Services, DueAgain(x) PROVE TypeOK'
    BY <2>3 DEF DueAgain, issueVars, passVars
  <2>4. ASSUME NEW x \in Services, MaybeSync(x) PROVE TypeOK'
    BY <1>c, <2>4 DEF MaybeSync, issueVars
  <2>5. ASSUME NEW x \in Services, ThreadNotStarted(x) PROVE TypeOK'
    BY <1>a, <2>5 DEF ThreadNotStarted, issueVars, passVars
  <2>6. ASSUME NEW x \in Operators, NEW f \in BOOLEAN, SyncIssues(x, f) PROVE TypeOK'
    BY <1>c, <2>6 DEF SyncIssues, issueVars, flagVars
  <2>7. CASE UNCHANGED vars
    BY <2>7 DEF vars, issueVars, passVars, flagVars
  <2>. QED
    BY <1>2, <2>1, <2>2, <2>3, <2>4, <2>5, <2>6, <2>7 DEF Other
(* What the end of a pass and a commit leave of its own state. *)
<1>3. ASSUME NEW x \in Procs, PassEnds(x)
      PROVE  /\ pc' \in [Procs -> {"idle", "rebuild", "loadAll", "mergeAll", "batches", "merge",
                                   "repeat", "takeOver", "handBack"}]
             /\ full' \in [Procs -> BOOLEAN] /\ cleared' \in [Procs -> SUBSET Runs]
             /\ loaded' \in [Procs -> SUBSET Runs] /\ repeated' \in [Procs -> SUBSET Sessions]
             /\ lock' \in Procs \cup {NoProc} /\ running' \in [Services -> BOOLEAN]
             /\ due' \in [Services -> BOOLEAN]
  BY <1>3 DEF PassEnds
<1>4. ASSUME NEW R \in SUBSET runs, NEW scope \in SUBSET Pairs, NEW rebuild \in BOOLEAN,
             MergeRuns(R, scope, rebuild)
      PROVE  /\ source' \in [Pairs -> {"none", "classifier", "repeat"}]
             /\ linked' \in [Pairs -> SUBSET Sessions]
             /\ count' \in [Pairs -> Nat] /\ rank' \in [Pairs -> 0..4]
             /\ status' \in [Pairs -> {"open", "closed"}]
  <2>1. R \in SUBSET Runs
    OBVIOUS
  <2>2. ASSUME NEW p \in Pairs
        PROVE  /\ source'[p] \in {"none", "classifier", "repeat"} /\ linked'[p] \in SUBSET Sessions
               /\ count'[p] \in Nat /\ rank'[p] \in 0..4 /\ status'[p] \in {"open", "closed"}
    <3>. HIDE DEF TypeOK
    <3>0. /\ p \notin Targets(R, scope, rebuild) => Kept(p)
          /\ p \in Targets(R, scope, rebuild) => MergedWith(R, rebuild, p)
      BY <1>4, MergeOf
    <3>1. CASE p \notin Targets(R, scope, rebuild)
      BY <1>b, <3>0, <3>1 DEF Kept
    <3>2. CASE p \in Targets(R, scope, rebuild)
      <4>1. /\ linked'[p] = BaseSessions(p, rebuild) \cup SessionsIn(R, p)
            /\ count'[p] = Cardinality(linked'[p])
            /\ rank'[p] = Max({BaseRank(p, rebuild)} \cup RanksIn(R, p))
            /\ status'[p] = Reopened(p, count'[p]) /\ source'[p] = "classifier"
            /\ BaseSessions(p, rebuild) \in SUBSET Sessions
        BY <3>0, <3>2 DEF MergedWith
      <4>2. linked'[p] \in SUBSET Sessions
        BY <2>1, <4>1, RunsIn
      <4>3. count'[p] \in Nat
        BY <1>a, <4>1, <4>2, FS_Subset, FS_CardinalityType
      <4>4. SessionsIn(R, p) # {}
        BY <3>2 DEF Targets
      <4>5. rank'[p] \in 0..4
        BY <4>1, <4>4, MergedRank
      <4>6. status'[p] \in {"open", "closed"}
        BY <1>b, <4>1 DEF Reopened
      <4>. QED
        BY <4>1, <4>2, <4>3, <4>5, <4>6
    <3>. QED
      BY <3>1, <3>2
  <2>3. /\ source' = [p \in Pairs |-> source'[p]] /\ linked' = [p \in Pairs |-> linked'[p]]
        /\ count' = [p \in Pairs |-> count'[p]] /\ rank' = [p \in Pairs |-> rank'[p]]
        /\ status' = [p \in Pairs |-> status'[p]]
    BY <1>4 DEF MergeRuns
  <2>. QED
    BY <2>2, <2>3
<1>5. ASSUME NEW x \in Procs, LockTaken(x) \/ Abort(x) \/ NotMatched(x) PROVE TypeOK'
  <2>1. /\ PassEnds(x) /\ aborts' \in 0..MaxAborts
        /\ UNCHANGED <<runs, aged, queue, rebuilt, source, linked, count, rank, status>>
    BY <1>a, <1>5 DEF LockTaken, Abort, NotMatched, issueVars
  <2>. QED
    BY <1>3, <2>1
<1>6. ASSUME NEW x \in Procs, NoRebuild(x) \/ QueueEmpty(x) PROVE TypeOK'
  BY <1>6 DEF NoRebuild, QueueEmpty, issueVars, flagVars
<1>7. ASSUME NEW x \in Procs, ClearQueue(x) PROVE TypeOK'
  <2>1. queue \in SUBSET Runs
    OBVIOUS
  <2>. QED
    BY <1>7, <2>1 DEF ClearQueue, Begin, issueVars, flagVars
<1>8. ASSUME NEW x \in Procs, LoadAll(x) PROVE TypeOK'
  BY <1>8 DEF LoadAll, issueVars, flagVars
<1>9. ASSUME NEW x \in Procs, LoadBatch(x) PROVE TypeOK'
  <2>1. PICK B \in SUBSET queue : loaded' = [loaded EXCEPT ![x] = B]
    BY <1>9 DEF LoadBatch
  <2>2. B \in SUBSET Runs
    OBVIOUS
  <2>3. loaded' \in [Procs -> SUBSET Runs]
    BY <2>1, <2>2
  <2>. QED
    BY <1>9, <2>3 DEF LoadBatch, Begin, issueVars, flagVars
<1>10. ASSUME NEW x \in Procs, CheckRepeat(x) PROVE TypeOK'
  <2>1. Repeating \in SUBSET Sessions
    BY <1>a DEF Repeating, Recent
  <2>. QED
    BY <1>10, <2>1 DEF CheckRepeat, Begin, issueVars, flagVars
<1>11. ASSUME NEW x \in Procs, LoadPair(x) PROVE TypeOK'
  BY <1>11 DEF LoadPair, issueVars, flagVars
<1>12. ASSUME NEW x \in Procs, Rebuild(x) \/ Merge(x) PROVE TypeOK'
  <2>1. loaded[x] \in SUBSET runs
    BY <1>12 DEF Rebuild, Merge, PassInv
  <2>2. /\ source' \in [Pairs -> {"none", "classifier", "repeat"}]
        /\ linked' \in [Pairs -> SUBSET Sessions]
        /\ count' \in [Pairs -> Nat] /\ rank' \in [Pairs -> 0..4]
        /\ status' \in [Pairs -> {"open", "closed"}]
    BY <1>4, <1>12, <2>1 DEF Rebuild, Merge
  <2>3. /\ runs' = runs /\ aged' = aged /\ queue' \in SUBSET runs /\ rebuilt' \in BOOLEAN
        /\ UNCHANGED <<running, due, aborts>> /\ Commit(x, "batches")
    BY <1>12 DEF Rebuild, Merge, flagVars
  <2>4. /\ lock' = NoProc /\ pc' = [pc EXCEPT ![x] = "batches"] /\ UNCHANGED <<full, repeated>>
        /\ cleared' \in [Procs -> SUBSET Runs] /\ loaded' \in [Procs -> SUBSET Runs]
    BY <2>3 DEF Commit
  <2>. QED
    BY <2>2, <2>3, <2>4
<1>13. ASSUME NEW x \in Procs, HandBack(x) PROVE TypeOK'
  <2>1. loaded[x] \in SUBSET runs /\ {Shared} \in SUBSET Pairs
    BY <1>13, <1>a DEF HandBack, PassInv
  <2>2. /\ source' \in [Pairs -> {"none", "classifier", "repeat"}]
        /\ linked' \in [Pairs -> SUBSET Sessions]
        /\ count' \in [Pairs -> Nat] /\ rank' \in [Pairs -> 0..4]
        /\ status' \in [Pairs -> {"open", "closed"}]
    BY <1>4, <1>13, <2>1 DEF HandBack
  <2>3. UNCHANGED <<runs, aged, queue, rebuilt, aborts>> /\ PassEnds(x)
    BY <1>13 DEF HandBack
  <2>. QED
    BY <1>3, <2>2, <2>3
<1>14. ASSUME NEW x \in Procs, TakeOver(x) PROVE TypeOK'
  <2>1. repeated[x] \in SUBSET Sessions
    OBVIOUS
  <2>2. Cardinality(repeated[x]) \in Nat
    BY <1>a, <2>1, FS_Subset, FS_CardinalityType
  <2>3. /\ linked' = [linked EXCEPT ![Shared] = repeated[x]]
        /\ count' = [count EXCEPT ![Shared] = Cardinality(repeated[x])]
        /\ status' = [status EXCEPT ![Shared] = Reopened(Shared, Cardinality(repeated[x]))]
        /\ source' = [source EXCEPT ![Shared] = "repeat"]
        /\ PassEnds(x) /\ UNCHANGED <<runs, aged, queue, rebuilt, rank, aborts>>
    BY <1>14 DEF TakeOver
  <2>4. Reopened(Shared, Cardinality(repeated[x])) \in {"open", "closed"}
    BY <1>a DEF Reopened
  <2>. QED
    BY <1>3, <1>a, <2>1, <2>2, <2>3, <2>4
<1>. QED
  BY StepKinds, <1>1, <1>2, <1>5, <1>6, <1>7, <1>8, <1>9, <1>10, <1>11, <1>12, <1>13, <1>14
     DEF PassReads

(* A transaction begins with the lock free and ends by releasing it; no    *)
(* pass of a service starts over another of its own.                       *)
LEMMA LockStep ==
    ASSUME TypeOK, LockInv, [Next]_vars
    PROVE  LockInv'
<1>a. /\ pc \in [Procs -> {"idle", "rebuild", "loadAll", "mergeAll", "batches", "merge",
                           "repeat", "takeOver", "handBack"}]
      /\ running \in [Services -> BOOLEAN] /\ lock \in Procs \cup {NoProc} /\ NoProc \notin Procs
  BY IssueSyncConstants DEF TypeOK
<1>b. /\ \A x \in Services : x \in Procs /\ x \notin Operators
      /\ \A x \in Operators : x \in Procs
  BY IssueSyncConstants DEF Procs
<1>. USE DEF LockInv, InTransaction
<1>1. CASE UNCHANGED <<pc, lock, running>>
  BY <1>1
(* A step of x that keeps its flag and whether it is in a transaction. *)
<1>2. ASSUME NEW x \in Procs, NEW to, pc' = [pc EXCEPT ![x] = to], UNCHANGED <<lock, running>>,
             pc[x] # "idle", pc[x] \in InTransaction <=> to \in InTransaction
      PROVE  LockInv'
  BY <1>2, <1>a
<1>3. ASSUME NEW x \in Procs, NEW to \in InTransaction, Begin(x, to), pc[x] # "idle",
             UNCHANGED running
      PROVE  LockInv'
  BY <1>3, <1>a DEF Begin
<1>4. ASSUME NEW x \in Procs, Commit(x, "batches"), pc[x] \in InTransaction, UNCHANGED running
      PROVE  LockInv'
  BY <1>4, <1>a DEF Commit
<1>5. ASSUME NEW x \in Procs, PassEnds(x) PROVE LockInv'
  <2>1. /\ pc' = [pc EXCEPT ![x] = "idle"] /\ lock' = IF lock = x THEN NoProc ELSE lock
        /\ \A y \in Services : running'[y] <=> running[y] /\ y # x
    BY <1>5 DEF PassEnds
  <2>2. \A y \in Procs : pc'[y] \in InTransaction <=> lock' = y
    BY <1>a, <2>1
  <2>3. ASSUME NEW y \in Services, ~running'[y] PROVE pc'[y] = "idle"
    BY <1>a, <1>b, <2>1, <2>3
  <2>. QED
    BY <2>2, <2>3
<1>6. ASSUME NEW r \in Runs, StoreRun(r) PROVE LockInv'
  BY <1>1, <1>6 DEF StoreRun, passVars, flagVars
<1>7. CASE Other
  <2>1. ASSUME NEW x \in Services, MaybeSync(x) PROVE LockInv'
    <3>1. /\ pc' = [pc EXCEPT ![x] = "rebuild"] /\ running' = [running EXCEPT ![x] = TRUE]
          /\ lock' = lock /\ pc[x] = "idle" /\ x \in Procs
      BY <1>b, <2>1 DEF MaybeSync
    <3>2. \A y \in Procs : pc'[y] \in InTransaction <=> lock' = y
      BY <1>a, <3>1
    <3>3. \A y \in Services : ~running'[y] => pc'[y] = "idle"
      BY <1>a, <1>b, <3>1
    <3>. QED
      BY <3>2, <3>3
  <2>2. ASSUME NEW x \in Operators, NEW f \in BOOLEAN, SyncIssues(x, f) PROVE LockInv'
    <3>1. /\ pc' = [pc EXCEPT ![x] = "rebuild"] /\ running' = running
          /\ lock' = lock /\ pc[x] = "idle" /\ x \in Procs
      BY <1>b, <2>2 DEF SyncIssues, flagVars
    <3>2. \A y \in Procs : pc'[y] \in InTransaction <=> lock' = y
      BY <1>a, <3>1
    <3>3. \A y \in Services : ~running'[y] => pc'[y] = "idle"
      BY <1>a, <1>b, <3>1
    <3>. QED
      BY <3>2, <3>3
  <2>. QED
    BY <1>1, <1>7, <2>1, <2>2 DEF Other, Age, Triage, DueAgain, ThreadNotStarted, passVars, flagVars, vars
<1>8. ASSUME NEW x \in Procs, PassReads(x) PROVE LockInv'
  <2>1. CASE NoRebuild(x) \/ QueueEmpty(x) \/ LoadAll(x) \/ LoadPair(x)
    BY <1>2, <2>1 DEF NoRebuild, QueueEmpty, LoadAll, LoadPair, flagVars
  <2>2. CASE ClearQueue(x) \/ LoadBatch(x) \/ CheckRepeat(x)
    BY <1>3, <2>2 DEF ClearQueue, LoadBatch, CheckRepeat, flagVars
  <2>3. CASE NotMatched(x) \/ LockTaken(x) \/ Abort(x)
    BY <1>5, <2>3 DEF NotMatched, LockTaken, Abort
  <2>. QED
    BY <1>8, <2>1, <2>2, <2>3 DEF PassReads
<1>9. ASSUME NEW x \in Procs, Rebuild(x) \/ Merge(x) PROVE LockInv'
  BY <1>4, <1>9 DEF Rebuild, Merge, flagVars
<1>10. ASSUME NEW x \in Procs, TakeOver(x) \/ HandBack(x) PROVE LockInv'
  BY <1>5, <1>10 DEF TakeOver, HandBack
<1>. QED
  BY StepKinds, <1>6, <1>7, <1>8, <1>9, <1>10

(* What a transaction has read stays true until it commits: only the       *)
(* holder of the lock takes runs from the queue or writes an issue.        *)
LEMMA PassStepKeeps ==
    ASSUME TypeOK, LockInv, PassInv, TotalsExact, [Next]_vars
    PROVE  PassInv'
<1>a. /\ pc \in [Procs -> {"idle", "rebuild", "loadAll", "mergeAll", "batches", "merge",
                           "repeat", "takeOver", "handBack"}]
      /\ cleared \in [Procs -> SUBSET Runs] /\ loaded \in [Procs -> SUBSET Runs]
      /\ runs \in SUBSET Runs /\ queue \in SUBSET runs
  BY DEF TypeOK
<1> DEFINE Holds(x) ==
      /\ pc[x] = "loadAll" => cleared[x] \subseteq runs
      /\ pc[x] = "mergeAll" =>
           /\ loaded[x] \subseteq runs
           /\ (runs \ queue) \cup cleared[x] \subseteq loaded[x]
           /\ \A p \in Pairs :
                 source[p] = "classifier" => /\ linked[p] \subseteq SessionsIn(loaded[x], p)
                                             /\ rank[p] \in RanksIn(loaded[x], p)
      /\ pc[x] = "merge" => loaded[x] \subseteq queue
      /\ pc[x] = "handBack" =>
           /\ loaded[x] \subseteq runs /\ source[Shared] = "repeat"
           /\ \A r \in runs \ queue : Shared \in PairsOf[r] => r \in loaded[x]
<1>b. \A x \in Procs : Holds(x)
  BY DEF PassInv
(* A process that is at none of these points has nothing to keep. *)
<1>c. ASSUME NEW x \in Procs, pc'[x] \notin {"loadAll", "mergeAll", "merge", "handBack"}
      PROVE  Holds(x)'
  BY <1>c
(* Nor has one whose pass and whose data stay as they are. *)
<1>d. ASSUME NEW x \in Procs, Quiet, pc'[x] = pc[x], cleared'[x] = cleared[x], loaded'[x] = loaded[x]
      PROVE  Holds(x)'
  BY <1>b, <1>d DEF Quiet, SessionsIn, RanksIn
<1>1. ASSUME NEW r \in Runs, StoreRun(r), NEW x \in Procs PROVE Holds(x)'
  <2>1. /\ r \notin runs /\ runs' = runs \cup {r} /\ queue' = queue \cup {r}
        /\ UNCHANGED <<pc, cleared, loaded, source, linked, rank>>
    BY <1>1 DEF StoreRun, issueVars, passVars
  <2>2. runs' \ queue' \subseteq runs \ queue
    BY <2>1
  <2>. QED
    BY <1>b, <2>1, <2>2 DEF SessionsIn, RanksIn
<1>2. ASSUME Other, Quiet, NEW x \in Procs PROVE Holds(x)'
  <2>1. UNCHANGED <<cleared, loaded>> /\ (pc'[x] = pc[x] \/ pc'[x] = "rebuild")
    BY <1>2, <1>a DEF Other, Age, Triage, DueAgain, MaybeSync, ThreadNotStarted, SyncIssues, passVars, vars
  <2>. QED
    BY <1>c, <1>d, <1>2, <2>1
<1>3. ASSUME NEW y \in Procs, PassReads(y), Quiet, NEW x \in Procs PROVE Holds(x)'
  <2>1. CASE x # y
    <3>1. pc'[x] = pc[x] /\ cleared'[x] = cleared[x] /\ loaded'[x] = loaded[x]
      BY <1>3, <1>a, <2>1 DEF PassReads, NoRebuild, ClearQueue, LoadAll, LoadBatch, QueueEmpty,
         CheckRepeat, NotMatched, LoadPair, LockTaken, Abort, PassEnds, Begin
    <3>. QED
      BY <1>d, <1>3, <3>1
  <2>2. CASE x = y /\ (NoRebuild(x) \/ QueueEmpty(x) \/ CheckRepeat(x) \/ NotMatched(x)
                       \/ LockTaken(x) \/ Abort(x))
    <3>1. pc'[x] \in {"batches", "repeat", "takeOver", "idle"}
      BY <1>a, <2>2 DEF NoRebuild, QueueEmpty, CheckRepeat, NotMatched, LockTaken, Abort, PassEnds, Begin
    <3>. QED
      BY <1>c, <3>1
  <2>3. CASE x = y /\ ClearQueue(x)
    <3>1. pc'[x] = "loadAll" /\ cleared'[x] = queue /\ runs' = runs
      BY <1>a, <2>3 DEF ClearQueue, Begin
    <3>. QED
      BY <1>a, <3>1
  <2>4. CASE x = y /\ LoadAll(x)
    <3>1. /\ pc'[x] = "mergeAll" /\ loaded'[x] = runs /\ runs' = runs /\ queue' = queue
          /\ cleared' = cleared /\ source' = source /\ linked' = linked /\ rank' = rank
          /\ pc[x] = "loadAll"
      BY <1>a, <2>4 DEF LoadAll, issueVars
    <3>2. cleared[x] \subseteq runs
      BY <1>b, <3>1
    <3>3. \A p \in Pairs : source[p] = "classifier" => /\ linked[p] \subseteq SessionsIn(runs, p)
                                                       /\ rank[p] \in RanksIn(runs, p)
      BY DEF TotalsExact
    <3>. QED
      BY <3>1, <3>2, <3>3 DEF SessionsIn, RanksIn
  <2>5. CASE x = y /\ LoadBatch(x)
    <3>1. pc'[x] = "merge" /\ queue' = queue /\ loaded'[x] \subseteq queue
      BY <1>a, <2>5 DEF LoadBatch, Begin
    <3>. QED
      BY <3>1
  <2>6. CASE x = y /\ LoadPair(x)
    <3>1. /\ pc'[x] = "handBack" /\ loaded'[x] = {r \in runs : Shared \in PairsOf[r]}
          /\ source[Shared] = "repeat" /\ UNCHANGED <<runs, queue, source>>
      BY <1>a, <2>6 DEF LoadPair, issueVars
    <3>. QED
      BY <3>1
  <2>. QED
    BY <1>3, <2>1, <2>2, <2>3, <2>4, <2>5, <2>6 DEF PassReads
<1>4. ASSUME NEW y \in Procs, Rebuild(y) \/ Merge(y) \/ TakeOver(y) \/ HandBack(y), NEW x \in Procs
      PROVE  Holds(x)'
  <2>1. pc[y] \in InTransaction /\ pc'[y] \in {"batches", "idle"}
        /\ \A z \in Procs : z # y => pc'[z] = pc[z]
    BY <1>4, <1>a DEF Rebuild, Merge, TakeOver, HandBack, Commit, PassEnds, InTransaction
  <2>2. x # y => pc[x] \notin InTransaction
    BY <2>1 DEF LockInv
  <2>3. pc'[x] \notin {"loadAll", "mergeAll", "merge", "handBack"}
    BY <2>1, <2>2 DEF InTransaction
  <2>. QED
    BY <1>c, <2>3
<1>5. \A x \in Procs : Holds(x)'
  BY StepKinds, <1>1, <1>2, <1>3, <1>4
<1>. QED
  BY <1>5 DEF PassInv

-----------------------------------------------------------------------------
(* A merged run: its session is in the issue of each of its pairs and its  *)
(* rank counts, unless the repeat-connection check owns the issue.         *)
Merged(r, p) ==
    source[p] # "repeat" =>
        source[p] = "classifier" /\ SessionOf[r] \in linked[p] /\ rank[p] >= RankOf[r]

CoverInv == rebuilt => \A r \in runs \ queue : \A p \in PairsOf[r] : Merged(r, p)

SoundInv ==
    \A p \in Pairs :
        /\ count[p] = Cardinality(linked[p])
        /\ source[p] = "classifier" =>
              linked[p] \subseteq SessionsIn(runs, p) /\ rank[p] \in RanksIn(runs, p)

(* The two properties, and NoneInv, in these words.                        *)
LEMMA InOtherWords ==
    ASSUME TypeOK
    PROVE  NoneInv /\ NoRunMissed /\ TotalsExact <=> NoneInv /\ CoverInv /\ SoundInv
<1>1. \A r \in runs : PairsOf[r] \subseteq Pairs
  BY IssueSyncConstants DEF TypeOK
<1>2. source \in [Pairs -> {"none", "classifier", "repeat"}]
  BY DEF TypeOK
<1>3. ASSUME NoneInv, NoRunMissed, TotalsExact PROVE CoverInv /\ SoundInv
  BY <1>1, <1>2, <1>3 DEF NoneInv, NoRunMissed, TotalsExact, CoverInv, SoundInv, Merged
<1>4. ASSUME NoneInv, CoverInv, SoundInv PROVE NoRunMissed
  BY <1>4 DEF CoverInv, NoRunMissed, Merged
<1>5. ASSUME NoneInv, CoverInv, SoundInv PROVE TotalsExact
  BY <1>1, <1>5 DEF CoverInv, SoundInv, TotalsExact, Merged
<1>. QED
  BY <1>3, <1>4, <1>5

(* A merge keeps the totals of every issue sound.                          *)
LEMMA MergeIsSound ==
    ASSUME TypeOK, TotalsExact, NoneInv, NEW R \in SUBSET runs, NEW scope \in SUBSET Pairs,
           NEW rebuild \in BOOLEAN, MergeRuns(R, scope, rebuild), runs' = runs
    PROVE  NoneInv' /\ SoundInv'
<1>1. ASSUME NEW p \in Pairs
      PROVE  /\ source'[p] = "none" => linked'[p] = {}
             /\ count'[p] = Cardinality(linked'[p])
             /\ source'[p] = "classifier" =>
                   linked'[p] \subseteq SessionsIn(runs, p) /\ rank'[p] \in RanksIn(runs, p)
  <2>1. CASE p \notin Targets(R, scope, rebuild)
    <3>1. Kept(p)
      BY <2>1, MergeOf
    <3>. QED
      BY <3>1 DEF Kept, TotalsExact, NoneInv
  <2>2. CASE p \in Targets(R, scope, rebuild)
    <3>1. MergedWith(R, rebuild, p)
      BY <2>2, MergeOf
    <3>2. SessionsIn(R, p) # {}
      BY <2>2 DEF Targets
    <3>3. Max({BaseRank(p, rebuild)} \cup RanksIn(R, p)) \in RanksIn(runs, p)
      BY <3>2, MergedRank
    <3>4. SessionsIn(R, p) \subseteq SessionsIn(runs, p)
      <4>1. R \in SUBSET Runs /\ runs \in SUBSET Runs
        BY DEF TypeOK
      <4>. QED
        BY <4>1, RunsIn
    <3>5. BaseSessions(p, rebuild) \subseteq SessionsIn(runs, p)
      BY DEF BaseSessions, StartsFromZero, TotalsExact
    <3>. QED
      BY <3>1, <3>3, <3>4, <3>5 DEF MergedWith
  <2>. QED
    BY <2>1, <2>2
<1>. QED
  BY <1>1 DEF NoneInv, SoundInv, SessionsIn, RanksIn

(* After a merge every run of the batch is in the issues in reach, and     *)
(* what was there before still is, if the issue was not started over.      *)
LEMMA MergeCovers ==
    ASSUME TypeOK, TotalsExact, NEW R \in SUBSET runs, NEW scope \in SUBSET Pairs,
           NEW rebuild \in BOOLEAN, MergeRuns(R, scope, rebuild),
           NEW r \in runs, NEW p \in PairsOf[r], p \in Pairs
    PROVE  /\ r \in R /\ p \in scope => Merged(r, p)'
           /\ Merged(r, p) /\ (p \notin scope \/ ~rebuild) => Merged(r, p)'
<1>a. R \in SUBSET Runs /\ rank[p] \in 0..4 /\ RankOf[r] \in 0..4 /\ linked[p] \in SUBSET Sessions
  BY IssueSyncConstants DEF TypeOK
<1>b. r \in R => SessionOf[r] \in SessionsIn(R, p) /\ RankOf[r] \in RanksIn(R, p)
  BY <1>a, RunsIn
<1>1. CASE p \notin Targets(R, scope, rebuild)
  <2>1. Kept(p)
    BY <1>1, MergeOf
  <2>2. r \in R /\ p \in scope => source[p] = "repeat"
    BY <1>1, <1>b DEF Targets
  <2>. QED
    BY <2>1, <2>2 DEF Kept, Merged
<1>2. CASE p \in Targets(R, scope, rebuild)
  <2>1. MergedWith(R, rebuild, p) /\ SessionsIn(R, p) # {} /\ p \in scope
        /\ (rebuild \/ source[p] # "repeat")
    BY <1>2, MergeOf DEF Targets
  <2>2. PICK new \in 0..4 : /\ new = Max({BaseRank(p, rebuild)} \cup RanksIn(R, p))
                            /\ new >= BaseRank(p, rebuild) /\ \A q \in RanksIn(R, p) : new >= q
    BY <2>1, MergedRank
  <2>3. r \in R => Merged(r, p)'
    BY <1>b, <2>1, <2>2 DEF MergedWith, Merged
  <2>4. ASSUME Merged(r, p), ~rebuild PROVE Merged(r, p)'
    <3>1. source[p] = "classifier" /\ SessionOf[r] \in linked[p] /\ rank[p] >= RankOf[r]
      BY <2>1, <2>4 DEF Merged
    <3>2. BaseSessions(p, rebuild) = linked[p] /\ BaseRank(p, rebuild) = rank[p]
      BY <2>4, <3>1 DEF BaseSessions, BaseRank, StartsFromZero
    <3>3. new >= RankOf[r]
      BY <1>a, <2>2, <3>1, <3>2
    <3>. QED
      BY <2>1, <2>2, <3>1, <3>2, <3>3 DEF MergedWith, Merged
  <2>. QED
    BY <2>1, <2>3, <2>4
<1>. QED
  BY <1>1, <1>2

(* Every step keeps every run merged or queued, and the totals exact.      *)
LEMMA RollupStep ==
    ASSUME TypeOK, PassInv, NoneInv, CoverInv, SoundInv, TotalsExact, [Next]_vars
    PROVE  NoneInv' /\ CoverInv' /\ SoundInv'
<1>a. /\ runs \in SUBSET Runs /\ queue \in SUBSET runs /\ rebuilt \in BOOLEAN
      /\ source \in [Pairs -> {"none", "classifier", "repeat"}]
      /\ linked \in [Pairs -> SUBSET Sessions] /\ rank \in [Pairs -> 0..4]
      /\ count \in [Pairs -> Nat] /\ repeated \in [Procs -> SUBSET Sessions]
  BY DEF TypeOK
<1>b. Shared \in Pairs /\ \A r \in Runs : PairsOf[r] \subseteq Pairs
  BY IssueSyncConstants
<1>1. CASE Quiet
  BY <1>1 DEF Quiet, NoneInv, CoverInv, SoundInv, Merged, SessionsIn, RanksIn
<1>2. ASSUME NEW r \in Runs, StoreRun(r) PROVE NoneInv' /\ CoverInv' /\ SoundInv'
  <2>1. /\ runs' = runs \cup {r} /\ queue' = queue \cup {r}
        /\ UNCHANGED <<rebuilt, source, linked, count, rank>>
    BY <1>2 DEF StoreRun, issueVars
  <2>2. runs' \ queue' \subseteq runs \ queue
    BY <2>1
  <2>3. ASSUME NEW p \in Pairs
        PROVE  SessionsIn(runs, p) \subseteq SessionsIn(runs', p) /\ RanksIn(runs, p) \subseteq RanksIn(runs', p)
    <3>1. runs' \in SUBSET Runs /\ runs \subseteq runs'
      BY <1>a, <2>1
    <3>. QED
      BY <1>a, <3>1, RunsIn
  <2>4. NoneInv' /\ CoverInv'
    BY <2>1, <2>2 DEF NoneInv, CoverInv, Merged
  <2>5. ASSUME NEW p \in Pairs
        PROVE  /\ count'[p] = Cardinality(linked'[p])
               /\ source'[p] = "classifier" =>
                    linked'[p] \subseteq SessionsIn(runs', p) /\ rank'[p] \in RanksIn(runs', p)
    BY <2>1, <2>3 DEF SoundInv
  <2>. QED
    BY <2>4, <2>5 DEF SoundInv, SessionsIn, RanksIn
<1>3. ASSUME NEW x \in Procs, Rebuild(x) PROVE NoneInv' /\ CoverInv' /\ SoundInv'
  <2>1. /\ MergeRuns(loaded[x], Pairs, TRUE) /\ runs' = runs /\ queue' = queue \ cleared[x]
        /\ pc[x] = "mergeAll"
    BY <1>3 DEF Rebuild
  <2>2. loaded[x] \in SUBSET runs /\ (runs \ queue) \cup cleared[x] \subseteq loaded[x]
    BY <2>1 DEF PassInv
  <2>3. \A r \in runs' \ queue' : r \in loaded[x] /\ r \in runs
    BY <2>1, <2>2
  <2>4. ASSUME NEW r \in runs' \ queue', NEW p \in PairsOf[r] PROVE Merged(r, p)'
    <3>1. r \in runs /\ r \in loaded[x] /\ p \in Pairs
      BY <1>a, <1>b, <2>3
    <3>. QED
      BY <2>1, <2>2, <3>1, MergeCovers
  <2>5. NoneInv' /\ SoundInv'
    BY <2>1, <2>2, MergeIsSound
  <2>. QED
    BY <2>4, <2>5 DEF CoverInv
<1>4. ASSUME NEW x \in Procs, Merge(x) PROVE NoneInv' /\ CoverInv' /\ SoundInv'
  <2>1. /\ MergeRuns(loaded[x], Pairs, FALSE) /\ runs' = runs /\ queue' = queue \ loaded[x]
        /\ pc[x] = "merge" /\ rebuilt' = rebuilt
    BY <1>4 DEF Merge
  <2>2. loaded[x] \in SUBSET queue /\ loaded[x] \in SUBSET runs
    BY <1>a, <2>1 DEF PassInv
  <2>3. ASSUME rebuilt, NEW r \in runs' \ queue', NEW p \in PairsOf[r] PROVE Merged(r, p)'
    <3>1. r \in runs /\ p \in Pairs /\ (r \in loaded[x] \/ r \in runs \ queue)
      BY <1>a, <1>b, <2>1
    <3>2. r \in runs \ queue => Merged(r, p)
      BY <2>3 DEF CoverInv
    <3>. QED
      BY <2>1, <2>2, <3>1, <3>2, MergeCovers
  <2>4. NoneInv' /\ SoundInv'
    BY <2>1, <2>2, MergeIsSound
  <2>. QED
    BY <2>1, <2>3, <2>4 DEF CoverInv
<1>5. ASSUME NEW x \in Procs, HandBack(x) PROVE NoneInv' /\ CoverInv' /\ SoundInv'
  <2>1. /\ MergeRuns(loaded[x], {Shared}, TRUE) /\ runs' = runs /\ queue' = queue
        /\ pc[x] = "handBack" /\ rebuilt' = rebuilt
    BY <1>5 DEF HandBack
  <2>2. /\ loaded[x] \in SUBSET runs
        /\ \A r \in runs \ queue : Shared \in PairsOf[r] => r \in loaded[x]
        /\ {Shared} \in SUBSET Pairs
    BY <1>b, <2>1 DEF PassInv
  <2>3. ASSUME rebuilt, NEW r \in runs' \ queue', NEW p \in PairsOf[r] PROVE Merged(r, p)'
    <3>1. r \in runs /\ p \in Pairs /\ Merged(r, p) /\ (p = Shared => r \in loaded[x])
      BY <1>a, <1>b, <2>1, <2>2, <2>3 DEF CoverInv
    <3>2. /\ r \in loaded[x] /\ p \in {Shared} => Merged(r, p)'
          /\ Merged(r, p) /\ (p \notin {Shared} \/ ~TRUE) => Merged(r, p)'
      <4> DEFINE R == loaded[x]
                 scope == {Shared}
      <4>1. R \in SUBSET runs /\ scope \in SUBSET Pairs /\ MergeRuns(R, scope, TRUE)
        BY <2>1, <2>2
      <4>. HIDE DEF R, scope
      <4>2. /\ r \in R /\ p \in scope => Merged(r, p)'
            /\ Merged(r, p) /\ (p \notin scope \/ ~TRUE) => Merged(r, p)'
        BY <3>1, <4>1, MergeCovers
      <4>. QED
        BY <4>2 DEF R, scope
    <3>. QED
      BY <3>1, <3>2
  <2>4. NoneInv' /\ SoundInv'
    BY <2>1, <2>2, MergeIsSound
  <2>. QED
    BY <2>1, <2>3, <2>4 DEF CoverInv
<1>6. ASSUME NEW x \in Procs, TakeOver(x) PROVE NoneInv' /\ CoverInv' /\ SoundInv'
  <2>1. /\ linked' = [linked EXCEPT ![Shared] = repeated[x]]
        /\ count' = [count EXCEPT ![Shared] = Cardinality(repeated[x])]
        /\ source' = [source EXCEPT ![Shared] = "repeat"]
        /\ UNCHANGED <<runs, queue, rebuilt, rank>>
    BY <1>6 DEF TakeOver
  <2>2. ASSUME NEW p \in Pairs
        PROVE  /\ p = Shared => /\ source'[p] = "repeat"
                                /\ count'[p] = Cardinality(linked'[p])
               /\ p # Shared => /\ linked'[p] = linked[p] /\ count'[p] = count[p]
                                /\ source'[p] = source[p]
    BY <1>a, <1>b, <2>1
  <2>3. NoneInv' /\ SoundInv'
    BY <2>1, <2>2 DEF NoneInv, SoundInv, SessionsIn, RanksIn
  <2>4. CoverInv'
    <3>1. \A r \in runs : PairsOf[r] \subseteq Pairs
      BY <1>a, <1>b
    <3>. QED
      BY <2>1, <2>2, <3>1 DEF CoverInv, Merged
  <2>. QED
    BY <2>3, <2>4
<1>. QED
  BY StepKinds, <1>1, <1>2, <1>3, <1>4, <1>5, <1>6

-----------------------------------------------------------------------------
(* A database with no issue yet.                                           *)
LEMMA InitRollup == Init => RollupInv
<1>. SUFFICES ASSUME Init PROVE RollupInv
  OBVIOUS
<1>a. MaxAborts \in Nat /\ NoProc \notin Procs /\ Services \subseteq Procs
  BY IssueSyncConstants DEF Procs
<1>b. /\ source \in [Pairs -> {"none", "classifier", "repeat"}]
      /\ linked \in [Pairs -> SUBSET Sessions]
      /\ count \in [Pairs -> Nat] /\ rank \in [Pairs -> 0..4]
      /\ status \in [Pairs -> {"open", "closed"}]
  BY DEF Init
<1>c. /\ pc \in [Procs -> {"idle", "rebuild", "loadAll", "mergeAll", "batches", "merge",
                           "repeat", "takeOver", "handBack"}]
      /\ full \in [Procs -> BOOLEAN]
      /\ cleared \in [Procs -> SUBSET Runs] /\ loaded \in [Procs -> SUBSET Runs]
      /\ repeated \in [Procs -> SUBSET Sessions]
  BY DEF Init
<1>d. running \in [Services -> BOOLEAN] /\ due \in [Services -> BOOLEAN]
  BY DEF Init
<1>e. /\ runs \in SUBSET Runs /\ aged \in SUBSET Sessions
      /\ queue \in SUBSET runs /\ rebuilt \in BOOLEAN
  BY DEF Init
<1>f. lock \in Procs \cup {NoProc} /\ aborts \in 0..MaxAborts
  BY <1>a DEF Init
<1>1. TypeOK
  BY <1>b, <1>c, <1>d, <1>e, <1>f DEF TypeOK
<1>2. LockInv
  BY <1>a DEF Init, LockInv, InTransaction
<1>3. PassInv /\ NoneInv
  BY DEF Init, PassInv, NoneInv
<1>4. NoRunMissed
  BY <1>1 DEF Init, NoRunMissed
<1>5. TotalsExact
  BY FS_EmptySet DEF Init, TotalsExact
<1>. QED
  BY <1>2, <1>3, <1>4, <1>5 DEF RollupInv

(* Every step keeps the invariant.                                         *)
LEMMA RollupInvStep == RollupInv /\ [Next]_vars => RollupInv'
<1>. SUFFICES ASSUME RollupInv, [Next]_vars PROVE RollupInv'
  OBVIOUS
<1>1. TypeOK /\ LockInv /\ PassInv /\ NoneInv /\ NoRunMissed /\ TotalsExact
  BY DEF RollupInv, NoRunMissed
<1>2. TypeOK'
  BY <1>1, TypeStep
<1>3. LockInv'
  BY <1>1, LockStep
<1>4. PassInv'
  BY <1>1, PassStepKeeps
<1>5. CoverInv /\ SoundInv
  BY <1>1, InOtherWords
<1>6. NoneInv' /\ CoverInv' /\ SoundInv'
  BY <1>1, <1>5, RollupStep
<1>7. NoneInv' /\ NoRunMissed' /\ TotalsExact'
  BY <1>2, <1>6, InOtherWords, PTL
<1>. QED
  BY <1>3, <1>4, <1>7 DEF RollupInv

(* The invariant holds in every behaviour.                                 *)
LEMMA RollupHolds == Spec => []RollupInv
BY InitRollup, RollupInvStep, PTL DEF Spec

(* No stored run is skipped: once the issues have been rebuilt, a run is   *)
(* in the issue of each of its pairs or still queued, whatever passes were *)
(* aborted, ran side by side or began before the run was stored.           *)
THEOREM NoRunIsMissed == Spec => []NoRunMissed
<1>1. RollupInv => NoRunMissed
  BY DEF RollupInv
<1>. QED
  BY <1>1, RollupHolds, PTL

(* session_count, the linked sessions and the risk of an issue stay exact, *)
(* a run merged twice or by a rebuild and a batch included.                *)
THEOREM TotalsStayExact == Spec => []TotalsExact
<1>1. RollupInv => TotalsExact
  BY DEF RollupInv
<1>. QED
  BY <1>1, RollupHolds, PTL

-----------------------------------------------------------------------------
(* The analyst's status: how the totals of an issue before and after a     *)
(* step decide whether it is reopened.                                     *)
LEMMA ReopenedByTotals ==
    ASSUME NEW p \in Pairs, linked[p] \in SUBSET Sessions, linked'[p] \in SUBSET Sessions,
           count[p] = Cardinality(linked[p]), count'[p] = Cardinality(linked'[p]),
           status'[p] = Reopened(p, count'[p]), status[p] = "closed"
    PROVE  /\ status'[p] = "open" => ~(linked'[p] \subseteq linked[p])
           /\ linked[p] \subseteq linked'[p] /\ ~(linked'[p] \subseteq linked[p])
                => status'[p] = "open"
<1>1. IsFiniteSet(linked[p]) /\ IsFiniteSet(linked'[p])
  BY IssueSyncConstants, FS_Subset
<1>2. count[p] \in Nat /\ count'[p] \in Nat
  BY <1>1, FS_CardinalityType
<1>3. ASSUME linked'[p] \subseteq linked[p] PROVE ~(count'[p] > count[p])
  <2>1. Cardinality(linked'[p]) <= Cardinality(linked[p])
    BY <1>1, <1>3, FS_Subset
  <2>. QED
    BY <1>2, <2>1
<1>4. ASSUME linked[p] \subseteq linked'[p], ~(linked'[p] \subseteq linked[p])
      PROVE  count'[p] > count[p]
  <2>1. /\ Cardinality(linked[p]) <= Cardinality(linked'[p])
        /\ Cardinality(linked[p]) # Cardinality(linked'[p])
    BY <1>1, <1>4, FS_Subset
  <2>. QED
    BY <1>2, <2>1
<1>. QED
  BY <1>3, <1>4 DEF Reopened

(* The two properties of one step, for one issue.                          *)
TriageKept(p) ==
    (pc' # pc /\ status[p] = "closed" /\ status'[p] = "open")
        => ~(linked'[p] \subseteq linked[p])

NewsReopens(p) ==
    (/\ source[p] = "classifier" /\ source'[p] = "classifier"
     /\ status[p] = "closed" /\ ~(linked'[p] \subseteq linked[p]))
        => status'[p] = "open"

(* A merge has both, if it keeps the sessions an issue of the classifier   *)
(* had.                                                                    *)
LEMMA MergeReopens ==
    ASSUME TypeOK, TotalsExact, NEW R \in SUBSET runs, NEW scope \in SUBSET Pairs,
           NEW rebuild \in BOOLEAN, MergeRuns(R, scope, rebuild), NEW p \in Pairs,
           rebuild /\ p \in scope /\ source[p] = "classifier" => linked[p] \subseteq SessionsIn(R, p)
    PROVE  TriageKept(p) /\ NewsReopens(p)
<1>1. CASE p \notin Targets(R, scope, rebuild)
  <2>1. Kept(p)
    BY <1>1, MergeOf
  <2>. QED
    BY <2>1 DEF Kept, TriageKept, NewsReopens
<1>2. CASE p \in Targets(R, scope, rebuild)
  <2>1. MergedWith(R, rebuild, p) /\ p \in scope
    BY <1>2, MergeOf DEF Targets
  <2>2. R \in SUBSET Runs /\ linked[p] \in SUBSET Sessions
    BY DEF TypeOK
  <2>3. linked'[p] \in SUBSET Sessions
    BY <2>1, <2>2, RunsIn DEF MergedWith
  <2>4. count[p] = Cardinality(linked[p])
    BY DEF TotalsExact
  <2>5. source[p] = "classifier" => linked[p] \subseteq linked'[p]
    BY <2>1 DEF MergedWith, BaseSessions, StartsFromZero
  <2>6. count'[p] = Cardinality(linked'[p]) /\ status'[p] = Reopened(p, count'[p])
    BY <2>1 DEF MergedWith
  <2>. QED
    BY <2>2, <2>3, <2>4, <2>5, <2>6, ReopenedByTotals DEF TriageKept, NewsReopens
<1>. QED
  BY <1>1, <1>2

(* What one step may do to an issue's status.                              *)
LEMMA TriageStep ==
    ASSUME RollupInv, [Next]_vars, NEW p \in Pairs
    PROVE  TriageKept(p) /\ NewsReopens(p)
<1>a. TypeOK /\ PassInv /\ TotalsExact
  BY DEF RollupInv, NoRunMissed
<1>b. /\ status \in [Pairs -> {"open", "closed"}] /\ linked \in [Pairs -> SUBSET Sessions]
      /\ count \in [Pairs -> Nat] /\ source \in [Pairs -> {"none", "classifier", "repeat"}]
      /\ repeated \in [Procs -> SUBSET Sessions] /\ queue \in SUBSET runs /\ Shared \in Pairs
  BY <1>a, IssueSyncConstants DEF TypeOK
<1>1. ASSUME NEW r \in Runs, StoreRun(r) PROVE TriageKept(p) /\ NewsReopens(p)
  BY <1>1 DEF StoreRun, issueVars, TriageKept, NewsReopens
<1>2. ASSUME Other, Quiet PROVE TriageKept(p) /\ NewsReopens(p)
  <2>1. UNCHANGED pc \/ UNCHANGED status
    BY <1>2 DEF Other, Age, Triage, DueAgain, MaybeSync, ThreadNotStarted, SyncIssues,
       issueVars, passVars, vars
  <2>. QED
    BY <1>2, <2>1 DEF Quiet, TriageKept, NewsReopens
<1>3. ASSUME NEW x \in Procs, PassReads(x), Quiet PROVE TriageKept(p) /\ NewsReopens(p)
  <2>1. UNCHANGED status
    BY <1>3 DEF PassReads, NoRebuild, ClearQueue, LoadAll, LoadBatch, QueueEmpty, CheckRepeat,
       NotMatched, LoadPair, LockTaken, Abort, issueVars
  <2>. QED
    BY <1>3, <2>1 DEF Quiet, TriageKept, NewsReopens
<1>4. ASSUME NEW x \in Procs, Rebuild(x) PROVE TriageKept(p) /\ NewsReopens(p)
  <2>1. MergeRuns(loaded[x], Pairs, TRUE) /\ pc[x] = "mergeAll"
    BY <1>4 DEF Rebuild
  <2>2. loaded[x] \in SUBSET runs
        /\ (source[p] = "classifier" => linked[p] \subseteq SessionsIn(loaded[x], p))
    BY <1>a, <2>1 DEF PassInv
  <2>. QED
    BY <1>a, <2>1, <2>2, MergeReopens
<1>5. ASSUME NEW x \in Procs, Merge(x) PROVE TriageKept(p) /\ NewsReopens(p)
  <2>1. MergeRuns(loaded[x], Pairs, FALSE) /\ pc[x] = "merge"
    BY <1>5 DEF Merge
  <2>2. loaded[x] \in SUBSET runs
    BY <1>a, <1>b, <2>1 DEF PassInv
  <2>. QED
    BY <1>a, <2>1, <2>2, MergeReopens
<1>6. ASSUME NEW x \in Procs, HandBack(x) PROVE TriageKept(p) /\ NewsReopens(p)
  <2>1. MergeRuns(loaded[x], {Shared}, TRUE) /\ pc[x] = "handBack"
    BY <1>6 DEF HandBack
  <2>2. loaded[x] \in SUBSET runs /\ source[Shared] = "repeat" /\ {Shared} \in SUBSET Pairs
    BY <1>a, <1>b, <2>1 DEF PassInv
  <2>3. p \in {Shared} => source[p] # "classifier"
    BY <2>2
  <2>. QED
    BY <1>a, <2>1, <2>2, <2>3, MergeReopens
<1>7. ASSUME NEW x \in Procs, TakeOver(x) PROVE TriageKept(p) /\ NewsReopens(p)
  <2>1. /\ linked' = [linked EXCEPT ![Shared] = repeated[x]]
        /\ count' = [count EXCEPT ![Shared] = Cardinality(repeated[x])]
        /\ status' = [status EXCEPT ![Shared] = Reopened(Shared, Cardinality(repeated[x]))]
        /\ source' = [source EXCEPT ![Shared] = "repeat"]
    BY <1>7 DEF TakeOver
  <2>2. CASE p # Shared
    BY <1>b, <2>1, <2>2 DEF TriageKept, NewsReopens
  <2>3. CASE p = Shared
    <3>1. /\ linked'[p] = repeated[x] /\ count'[p] = Cardinality(linked'[p])
          /\ status'[p] = Reopened(p, count'[p]) /\ source'[p] = "repeat"
          /\ linked[p] \in SUBSET Sessions /\ linked'[p] \in SUBSET Sessions
      BY <1>b, <2>1, <2>3
    <3>2. count[p] = Cardinality(linked[p])
      BY <1>a DEF TotalsExact
    <3>. QED
      BY <3>1, <3>2, ReopenedByTotals DEF TriageKept, NewsReopens
  <2>. QED
    BY <2>2, <2>3
<1>. QED
  BY StepKinds, <1>1, <1>2, <1>3, <1>4, <1>5, <1>6, <1>7

(* The sync reopens a closed issue only when it links a session that was   *)
(* not linked.                                                             *)
THEOREM TriageIsKept == Spec => KeepsTriage
<1>1. RollupInv /\ [Next]_vars =>
         [\A p \in Pairs :
             (pc' # pc /\ status[p] = "closed" /\ status'[p] = "open")
                 => ~(linked'[p] \subseteq linked[p])]_vars
  BY TriageStep DEF TriageKept
<1>. QED
  BY <1>1, RollupHolds, PTL DEF Spec, KeepsTriage

(* A closed issue of the classifier that picks up a session is reopened by *)
(* the transaction that links it.                                          *)
THEOREM NewsReopensIssue == Spec => ClassifierIssueReopens
<1>1. RollupInv /\ [Next]_vars =>
         [\A p \in Pairs :
             (/\ source[p] = "classifier" /\ source'[p] = "classifier"
              /\ status[p] = "closed" /\ ~(linked'[p] \subseteq linked[p]))
                 => status'[p] = "open"]_vars
  BY TriageStep DEF NewsReopens
<1>. QED
  BY <1>1, RollupHolds, PTL DEF Spec, ClassifierIssueReopens

-----------------------------------------------------------------------------
(* The contract.  An issue the classifier has written is what the contract *)
(* calls sound: its sessions and its risk are those of stored runs, and    *)
(* every run that no longer waits is covered.                              *)
LEMMA SoundInContract ==
    ASSUME TypeOK', CoverInv', SoundInv', NEW p \in Pairs, source'[p] = "classifier"
    PROVE  Contract!Sound(p)
<1>1. Waiting' \cup (runs' \ Waiting') = runs'
  BY DEF TypeOK, Waiting
<1>2. Contract!SessionsOf(runs', p) = SessionsIn(runs', p)
  BY DEF Contract!SessionsOf, Contract!OfPair, SessionsIn
<1>3. linked'[p] \subseteq SessionsIn(runs', p) /\ rank'[p] \in RanksIn(runs', p)
  BY DEF SoundInv, SessionsIn, RanksIn
<1>4. \E r \in Contract!OfPair(runs', p) : rank'[p] = RankOf[r]
  BY <1>3 DEF RanksIn, Contract!OfPair
<1>5. ASSUME NEW r \in Contract!OfPair(runs' \ Waiting', p)
      PROVE  SessionOf[r] \in linked'[p] /\ rank'[p] >= RankOf[r]
  <2>1. r \in runs' \ Waiting' /\ p \in PairsOf[r]
    BY DEF Contract!OfPair
  <2>2. rebuilt' /\ r \in runs' \ queue'
    BY <2>1 DEF Waiting
  <2>. QED
    BY <2>1, <2>2 DEF CoverInv, Merged
<1>. QED
  BY <1>1, <1>2, <1>3, <1>4, <1>5 DEF Contract!Sound

(* The status rule in the words of the contract: an issue that keeps its   *)
(* sessions is reopened exactly when it gains one, any other only if it    *)
(* does.                                                                   *)
LEMMA StatusInContract ==
    ASSUME TypeOK, NEW p \in Pairs, linked'[p] \in SUBSET Sessions,
           count[p] = Cardinality(linked[p]), count'[p] = Cardinality(linked'[p]),
           status'[p] = Reopened(p, count'[p])
    PROVE  /\ Contract!ReopenedForNews(p)
           /\ linked[p] \subseteq linked'[p]
                => status'[p] = IF linked'[p] = linked[p] THEN status[p] ELSE "open"
<1>1. linked[p] \in SUBSET Sessions /\ status[p] \in {"open", "closed"}
  BY DEF TypeOK
<1>2. CASE status[p] = "open"
  BY <1>2 DEF Reopened, Contract!ReopenedForNews
<1>3. CASE status[p] = "closed"
  <2>1. /\ status'[p] = "open" => ~(linked'[p] \subseteq linked[p])
        /\ linked[p] \subseteq linked'[p] /\ ~(linked'[p] \subseteq linked[p])
             => status'[p] = "open"
    BY <1>1, <1>3, ReopenedByTotals
  <2>2. status'[p] \in {"open", "closed"}
    BY <1>3 DEF Reopened
  <2>. QED
    BY <1>3, <2>1, <2>2 DEF Contract!ReopenedForNews
<1>. QED
  BY <1>1, <1>2, <1>3

(* A merge into one issue is a move of the contract.                       *)
LEMMA IssueInContract ==
    ASSUME TypeOK, TotalsExact, NoneInv, TypeOK', CoverInv', SoundInv',
           NEW R \in SUBSET runs, NEW scope \in SUBSET Pairs, NEW rebuild \in BOOLEAN,
           MergeRuns(R, scope, rebuild), NEW p \in Targets(R, scope, rebuild),
           rebuild /\ source[p] = "classifier" =>
               linked[p] \subseteq SessionsIn(R, p) /\ rank[p] \in RanksIn(R, p)
    PROVE  (Contract!Grows(p) \/ Contract!Returns(p)) /\ Contract!Sound(p)
<1>1. p \in Pairs /\ SessionsIn(R, p) # {} /\ MergedWith(R, rebuild, p)
  BY MergeOf DEF Targets
<1>2. source'[p] = "classifier" /\ Contract!Sound(p)
  BY <1>1, SoundInContract DEF MergedWith
<1>3. linked'[p] \in SUBSET Sessions /\ linked[p] \in SUBSET Sessions
      /\ source[p] \in {"none", "classifier", "repeat"}
  BY <1>1 DEF TypeOK
<1>4. /\ Contract!ReopenedForNews(p)
      /\ linked[p] \subseteq linked'[p]
           => status'[p] = IF linked'[p] = linked[p] THEN status[p] ELSE "open"
  <2>1. count[p] = Cardinality(linked[p]) /\ count'[p] = Cardinality(linked'[p])
        /\ status'[p] = Reopened(p, count'[p])
    BY <1>1 DEF TotalsExact, MergedWith
  <2>. QED
    BY <1>1, <1>3, <2>1, StatusInContract
<1>5. CASE source[p] = "repeat"
  BY <1>2, <1>4, <1>5 DEF Contract!Returns
<1>6. CASE source[p] # "repeat"
  <2>1. linked[p] \subseteq linked'[p]
    BY <1>1, <1>3, <1>6 DEF MergedWith, BaseSessions, StartsFromZero, NoneInv
  <2>2. source[p] = "classifier" => rank'[p] >= rank[p]
    <3>. SUFFICES ASSUME source[p] = "classifier" PROVE rank'[p] >= rank[p]
      OBVIOUS
    <3>1. /\ rank'[p] = Max({BaseRank(p, rebuild)} \cup RanksIn(R, p))
          /\ rank'[p] >= BaseRank(p, rebuild) /\ \A q \in RanksIn(R, p) : rank'[p] >= q
      BY <1>1, MergedRank DEF MergedWith
    <3>2. BaseRank(p, rebuild) = rank[p] \/ rank[p] \in RanksIn(R, p)
      BY DEF BaseRank, StartsFromZero
    <3>. QED
      BY <3>1, <3>2
  <2>. QED
    BY <1>2, <1>3, <1>4, <1>6, <2>1, <2>2 DEF Contract!Grows
<1>. QED
  BY <1>2, <1>5, <1>6

(* A commit that merges runs rolls up those that no longer wait.           *)
LEMMA MergeInContract ==
    ASSUME TypeOK, TotalsExact, NoneInv, TypeOK', CoverInv', SoundInv',
           NEW R \in SUBSET runs, NEW scope \in SUBSET Pairs, NEW rebuild \in BOOLEAN,
           MergeRuns(R, scope, rebuild), runs' = runs,
           Waiting' \subseteq Waiting, Waiting \ Waiting' \subseteq R,
           Waiting' = Waiting \/ scope = Pairs,
           \A p \in scope : rebuild /\ source[p] = "classifier" =>
               linked[p] \subseteq SessionsIn(R, p) /\ rank[p] \in RanksIn(R, p)
    PROVE  Contract!Next
<1> DEFINE gone == Waiting \ Waiting'
<1>1. Waiting \subseteq runs
  BY DEF TypeOK, Waiting
<1>2. Waiting' = Waiting \ gone /\ runs' \ Waiting' = (runs \ Waiting) \cup gone
      /\ gone \in SUBSET Waiting
  BY <1>1
<1>3. ASSUME NEW p \in Pairs
      PROVE  \/ Contract!Untouched(p) /\ (Contract!OfPair(gone, p) = {} \/ source[p] = "repeat")
             \/ (Contract!Grows(p) \/ Contract!Returns(p)) /\ Contract!Sound(p)
  <2>1. CASE p \in Targets(R, scope, rebuild)
    <3>1. p \in scope
      BY <2>1 DEF Targets
    <3>. QED
      BY <2>1, <3>1, IssueInContract
  <2>2. CASE p \notin Targets(R, scope, rebuild)
    <3>1. Contract!Untouched(p)
      BY <2>2, MergeOf DEF Kept, Contract!Untouched
    <3>2. Contract!OfPair(gone, p) = {} \/ source[p] = "repeat"
      BY <2>2 DEF Targets, SessionsIn, Contract!OfPair
    <3>. QED
      BY <3>1, <3>2
  <2>. QED
    BY <2>1, <2>2
<1>. HIDE DEF gone
<1>4. Contract!RollUp(gone)
  BY <1>2, <1>3 DEF Contract!RollUp
<1>. QED
  BY <1>2, <1>4 DEF Contract!Next

(* Every step is a move of the contract or changes nothing it sees.        *)
LEMMA StepInContract ==
    ASSUME RollupInv, RollupInv', [Next]_vars
    PROVE  [Contract!Next]_(Contract!vars)
<1>a. /\ TypeOK /\ PassInv /\ NoneInv /\ TotalsExact
      /\ TypeOK' /\ NoneInv' /\ NoRunMissed' /\ TotalsExact'
  BY DEF RollupInv, NoRunMissed
<1>b. CoverInv' /\ SoundInv'
  BY <1>a, InOtherWords, PTL
<1>c. /\ queue \in SUBSET runs /\ Shared \in Pairs /\ repeated \in [Procs -> SUBSET Sessions]
      /\ source \in [Pairs -> {"none", "classifier", "repeat"}] /\ rebuilt \in BOOLEAN
      /\ linked \in [Pairs -> SUBSET Sessions] /\ status \in [Pairs -> {"open", "closed"}]
      /\ count \in [Pairs -> Nat] /\ rank \in [Pairs -> 0..4]
  BY <1>a, IssueSyncConstants DEF TypeOK
<1>d. ASSUME Quiet, UNCHANGED status PROVE UNCHANGED Contract!vars
  BY <1>d DEF Quiet, Waiting, Contract!vars, Contract!issue
<1>1. ASSUME NEW r \in Runs, StoreRun(r) PROVE Contract!Next
  <2>1. /\ r \notin runs /\ runs' = runs \cup {r} /\ queue' = queue \cup {r}
        /\ UNCHANGED <<rebuilt, source, linked, count, rank, status>>
    BY <1>1 DEF StoreRun, issueVars
  <2>2. /\ r \notin Waiting \cup (runs \ Waiting) /\ Waiting' = Waiting \cup {r}
        /\ runs' \ Waiting' = runs \ Waiting
    BY <1>c, <2>1 DEF Waiting
  <2>3. Contract!Arrive(r)
    BY <2>1, <2>2 DEF Contract!Arrive, Contract!issue
  <2>. QED
    BY <2>3 DEF Contract!Next
<1>2. ASSUME Other, Quiet PROVE [Contract!Next]_(Contract!vars)
  <2>1. ASSUME NEW p \in Pairs, NEW new \in {"open", "closed"}, Triage(p, new)
        PROVE  Contract!Next
    <3>1. Contract!Decide(p, new)
      BY <1>2, <2>1 DEF Triage, Quiet, Waiting, Contract!Decide
    <3>. QED
      BY <3>1 DEF Contract!Next
  <2>2. CASE UNCHANGED status
    BY <1>2, <1>d, <2>2
  <2>. QED
    BY <1>2, <2>1, <2>2 DEF Other, Age, DueAgain, MaybeSync, ThreadNotStarted, SyncIssues,
       issueVars, vars
<1>3. ASSUME NEW x \in Procs, PassReads(x), Quiet PROVE UNCHANGED Contract!vars
  <2>1. UNCHANGED status
    BY <1>3 DEF PassReads, NoRebuild, ClearQueue, LoadAll, LoadBatch, QueueEmpty, CheckRepeat,
       NotMatched, LoadPair, LockTaken, Abort, issueVars
  <2>. QED
    BY <1>3, <1>d, <2>1
<1>4. ASSUME NEW x \in Procs, Rebuild(x) PROVE Contract!Next
  <2>1. /\ MergeRuns(loaded[x], Pairs, TRUE) /\ runs' = runs /\ queue' = queue \ cleared[x]
        /\ rebuilt' = TRUE /\ pc[x] = "mergeAll"
    BY <1>4 DEF Rebuild
  <2>2. /\ loaded[x] \in SUBSET runs /\ (runs \ queue) \cup cleared[x] \subseteq loaded[x]
        /\ \A p \in Pairs : source[p] = "classifier" =>
              linked[p] \subseteq SessionsIn(loaded[x], p) /\ rank[p] \in RanksIn(loaded[x], p)
    BY <1>a, <2>1 DEF PassInv
  <2>3. Waiting' \subseteq Waiting /\ Waiting \ Waiting' \subseteq loaded[x]
    BY <1>c, <2>1, <2>2 DEF Waiting
  <2>. QED
    BY <1>a, <1>b, <2>1, <2>2, <2>3, MergeInContract
<1>5. ASSUME NEW x \in Procs, Merge(x) PROVE Contract!Next
  <2>1. /\ MergeRuns(loaded[x], Pairs, FALSE) /\ runs' = runs /\ queue' = queue \ loaded[x]
        /\ rebuilt' = rebuilt /\ pc[x] = "merge"
    BY <1>5 DEF Merge
  <2>2. loaded[x] \in SUBSET runs
    BY <1>a, <1>c, <2>1 DEF PassInv
  <2>3. Waiting' \subseteq Waiting /\ Waiting \ Waiting' \subseteq loaded[x]
    BY <2>1 DEF Waiting
  <2>. QED
    BY <1>a, <1>b, <2>1, <2>2, <2>3, MergeInContract
<1>6. ASSUME NEW x \in Procs, HandBack(x) PROVE Contract!Next
  <2>1. /\ MergeRuns(loaded[x], {Shared}, TRUE) /\ UNCHANGED <<runs, queue, rebuilt>>
        /\ pc[x] = "handBack"
    BY <1>6 DEF HandBack
  <2>2. loaded[x] \in SUBSET runs /\ source[Shared] = "repeat" /\ {Shared} \in SUBSET Pairs
    BY <1>a, <1>c, <2>1 DEF PassInv
  <2>3. Waiting' = Waiting
    BY <2>1 DEF Waiting
  <2>4. \A p \in {Shared} : source[p] # "classifier"
    BY <2>2
  <2>. QED
    BY <1>a, <1>b, <2>1, <2>2, <2>3, <2>4, MergeInContract
<1>7. ASSUME NEW x \in Procs, TakeOver(x) PROVE Contract!Next
  <2>1. /\ linked' = [linked EXCEPT ![Shared] = repeated[x]]
        /\ count' = [count EXCEPT ![Shared] = Cardinality(repeated[x])]
        /\ status' = [status EXCEPT ![Shared] = Reopened(Shared, Cardinality(repeated[x]))]
        /\ source' = [source EXCEPT ![Shared] = "repeat"]
        /\ UNCHANGED <<runs, queue, rebuilt, rank>>
    BY <1>7 DEF TakeOver
  <2>2. ASSUME NEW p \in Pairs, p # Shared PROVE Contract!Untouched(p)
    BY <1>c, <2>1, <2>2 DEF Contract!Untouched
  <2>3. Contract!Taken(Shared)
    <3>1. /\ linked'[Shared] = repeated[x] /\ count'[Shared] = Cardinality(linked'[Shared])
          /\ status'[Shared] = Reopened(Shared, count'[Shared]) /\ source'[Shared] = "repeat"
          /\ linked'[Shared] \in SUBSET Sessions /\ rank'[Shared] = rank[Shared]
      BY <1>c, <2>1
    <3>2. count[Shared] = Cardinality(linked[Shared])
      BY <1>a, <1>c DEF TotalsExact
    <3>3. Contract!ReopenedForNews(Shared)
      BY <1>a, <1>c, <3>1, <3>2, StatusInContract
    <3>. QED
      BY <3>1, <3>3 DEF Contract!Taken
  <2>4. UNCHANGED <<Waiting, runs \ Waiting>>
    BY <2>1 DEF Waiting
  <2>5. Contract!TakeOver
    BY <2>2, <2>3, <2>4 DEF Contract!TakeOver
  <2>. QED
    BY <2>5 DEF Contract!Next
<1>. QED
  BY StepKinds, <1>1, <1>2, <1>3, <1>4, <1>5, <1>6, <1>7

(* An upgraded database is a database in which every run waits.            *)
LEMMA InitContract == Init => Contract!Init
<1>. SUFFICES ASSUME Init PROVE Contract!Init
  OBVIOUS
<1>1. Waiting = runs /\ runs \ Waiting = {} /\ runs \in SUBSET Runs
  BY DEF Init, Waiting
<1>. QED
  BY <1>1 DEF Init, Contract!Init

(* The passes implement the contract: a run waits until one commit         *)
(* dequeues it and puts it in the issues of its pairs, and no issue loses  *)
(* a session, risk or the analyst's decision by the way.                   *)
THEOREM PassesKeepContract == Spec => KeepsContract
<1>1. RollupInv /\ RollupInv' /\ [Next]_vars => [Contract!Next]_(Contract!vars)
  BY StepInContract
<1>. QED
  BY <1>1, InitContract, RollupHolds, PTL DEF Spec, KeepsContract, Contract!Spec
==============================================================================
