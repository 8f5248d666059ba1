------------------------- MODULE ProcessControlProofs -------------------------
(***************************************************************************)
(* `echidra stop` for every number of starts, stops and pids: it does not  *)
(* report as stopped what still runs, and it does not signal a process it  *)
(* has seen to be a stranger's.                                            *)
(*                                                                         *)
(* The inductive invariant is StopInv.  A running child a stop read from   *)
(* the pid file still holds one of the pids the stop has yet to look at,   *)
(* is about to signal, has signalled or was denied (FollowInv), because a  *)
(* child keeps its pid until it has been waited for and is never started   *)
(* again (BirthInv).                                                       *)
(***************************************************************************)
EXTENDS ProcessControl, TLAPS

(* A start has no children before it launches them, and a child a stop     *)
(* read from the file was launched.                                        *)
BirthInv ==
    /\ \A s \in Starts : at[s] \in {"idle", "checked", "ready", "refused"} =>
           \A r \in Roles : life[<<s, r>>] = "unborn"
    /\ \A k \in Stops : \A c \in targets[k] : life[c] # "unborn"

(* The pids a stop is at are those of its loop, each in one place.         *)
LoopAt(k) ==
    /\ stop[k] # "asking" => target[k] = Nobody /\ todo[k] = {}
    /\ stop[k] = "idle" => signaled[k] = {}
    /\ todo[k] \cap (signaled[k] \cup {target[k]}) = {}

LoopInv == \A k \in Stops : LoopAt(k)

(* Where a stop still has, or has noted, a pid. *)
Pending(k) == todo[k] \cup signaled[k] \cup denied[k] \cup ({target[k]} \cap Pids)

Follows(k, c) ==
    /\ stop[k] \in {"asking", "waiting", "settling", "partial"}
    /\ stop[k] # "partial" => \E p \in Pending(k) : holder[p] = c

FollowInv == \A k \in Stops : \A c \in targets[k] : Running(c) => Follows(k, c)

(* No stop means to signal a pid it has seen a stranger hold. *)
StrangerInv == SparesStrangers /\ \A k \in Stops : known[k] = {}

StopInv == TypeOK /\ BirthInv /\ LoopInv /\ FollowInv /\ StrangerInv

-----------------------------------------------------------------------------
(* The three ways the process table changes keep the types.                *)
LEMMA SignalType ==
    ASSUME TypeOK, NEW cs, NEW sig \in {"term", "kill"}, Signal(cs, sig)
    PROVE  signal' \in [Children -> {"none", "term", "kill"}]
BY DEF TypeOK, Signal

LifeOK ==
    /\ holder \in [Pids -> Children \cup {Nobody, Stranger}]
    /\ life \in [Children -> {"unborn", "up", "zombie", "gone"}]

(* A child that was launched is not launched again, and runs on with the   *)
(* pid it had.                                                             *)
RunsOn ==
    \A c \in Children : life[c] # "unborn" =>
        /\ life'[c] # "unborn"
        /\ life'[c] = "up" =>
             life[c] = "up" /\ \A p \in Pids : holder[p] = c => holder'[p] = c

(* A parent that ends, or waits, takes its dead children with it.          *)
LEMMA ReapKeeps ==
    ASSUME LifeOK, NEW cs \in SUBSET Children, Reap(cs)
    PROVE  /\ LifeOK' /\ RunsOn
           /\ \A c \in Children : life'[c] = "unborn" <=> life[c] = "unborn"
<1>1. \A c \in Children : life'[c] = IF c \in cs /\ life[c] = "zombie" THEN "gone" ELSE life[c]
  BY DEF Reap
<1>2. \A p \in Pids : holder'[p] =
          IF holder[p] \in cs /\ life[holder[p]] = "zombie" THEN Nobody ELSE holder[p]
  BY DEF Reap
<1>3. LifeOK'
  BY DEF LifeOK, Reap
<1>4. RunsOn
  BY <1>1, <1>2 DEF RunsOn
<1>. QED
  BY <1>1, <1>3, <1>4

(* A start gives birth to its own children only, on pids nobody holds.     *)
LEMMA LaunchKeeps ==
    ASSUME LifeOK, NEW s \in Starts, NEW R \in SUBSET Roles, NEW pidOf \in [R -> Pids],
           Launch(s, pidOf), \A r \in Roles : life[<<s, r>>] = "unborn"
    PROVE  /\ LifeOK' /\ RunsOn
           /\ \A c \in Children : c[1] # s => life'[c] = life[c]
<1>a. DOMAIN pidOf = R /\ {s} \X R \subseteq Children
  BY DEF Children
<1>1. \A c \in Children : life'[c] = IF c \in {s} \X R THEN "up" ELSE life[c]
  BY <1>a DEF Launch
<1>2. \A p \in Pids : holder'[p] =
          IF \E r \in R : pidOf[r] = p THEN <<s, CHOOSE r \in R : pidOf[r] = p>> ELSE holder[p]
  BY <1>a DEF Launch
<1>3. \A r \in R : holder[pidOf[r]] = Nobody
  BY <1>a DEF Launch
<1>4. \A p \in Pids : holder'[p] # holder[p] => holder[p] = Nobody /\ holder'[p] \in Children
  <2>1. ASSUME NEW p \in Pids, \E r \in R : pidOf[r] = p
        PROVE  holder[p] = Nobody /\ holder'[p] \in Children
    <3> DEFINE q == CHOOSE r \in R : pidOf[r] = p
    <3>1. q \in R
      BY <2>1
    <3>2. holder'[p] = <<s, q>>
      BY <1>2, <2>1
    <3>3. <<s, q>> \in Children
      <4>. HIDE DEF q
      <4>. QED
        BY <3>1 DEF Children
    <3>4. holder[p] = Nobody
      BY <1>3, <2>1
    <3>. QED
      BY <3>2, <3>3, <3>4
  <2>. QED
    BY <1>2, <2>1
<1>5. LifeOK'
  <2>1. holder' \in [Pids -> Children \cup {Nobody, Stranger}]
    <3>1. holder' = [p \in Pids |-> holder'[p]]
      BY DEF Launch
    <3>2. \A p \in Pids : holder'[p] \in Children \cup {Nobody, Stranger}
      BY <1>4 DEF LifeOK
    <3>. QED
      BY <3>1, <3>2
  <2>2. life' \in [Children -> {"unborn", "up", "zombie", "gone"}]
    BY DEF LifeOK, Launch
  <2>. QED
    BY <2>1, <2>2 DEF LifeOK
<1>6. RunsOn
  <2>1. \A c \in Children : life[c] # "unborn" => c \notin {s} \X R
    OBVIOUS
  <2>2. Nobody \notin Children
    BY ProcessConstants DEF Children, Roles
  <2>. QED
    BY <1>1, <1>4, <2>1, <2>2 DEF RunsOn
<1>7. \A c \in Children : c[1] # s => life'[c] = life[c]
  BY <1>1
<1>. QED
  BY <1>5, <1>6, <1>7

-----------------------------------------------------------------------------
(* The steps of the system and of the starts. *)
Outside == System \/ \E s \in Starts : Begin(s) \/ End(s) \/ Interference(s)

StartsUnborn ==
    \A s \in Starts : at[s] \in {"idle", "checked", "ready", "refused"} =>
        \A r \in Roles : life[<<s, r>>] = "unborn"

(* What such a step keeps.                                                 *)
Continues == TypeOK' /\ RunsOn /\ UNCHANGED stopVars /\ StartsUnborn'

(* They leave the stops alone, and no child is launched twice.             *)
LEMMA OutsideStep ==
    ASSUME TypeOK, BirthInv, Outside
    PROVE  Continues
<1>. USE DEF Continues
<1>a. LifeOK /\ StartsUnborn
  BY DEF TypeOK, LifeOK, BirthInv, StartsUnborn
<1>b. /\ signal \in [Children -> {"none", "term", "kill"}]
      /\ at \in [Starts -> Live \cup {"idle", "refused", "failed", "dead", "done"}]
      /\ pidfile \subseteq Pids /\ faults \in 0..MaxFaults /\ MaxFaults \in Nat
  BY ProcessConstants DEF TypeOK
(* It is enough to look at what the steps write. *)
<1>c. ASSUME UNCHANGED stopVars, LifeOK', RunsOn,
             signal' \in [Children -> {"none", "term", "kill"}],
             at' \in [Starts -> Live \cup {"idle", "refused", "failed", "dead", "done"}],
             pidfile' \subseteq Pids, faults' \in 0..MaxFaults,
             StartsUnborn'
      PROVE  Continues
  BY <1>c DEF TypeOK, LifeOK, stopVars
<1>d. UNCHANGED <<holder, life>> => RunsOn /\ LifeOK'
  BY <1>a DEF RunsOn, LifeOK
<1>e. Fault => faults' \in 0..MaxFaults
  BY <1>b DEF Fault
<1>f. ASSUME NEW s \in Starts, NEW from, NEW to \in Live \cup {"refused", "failed", "dead", "done"},
             StartAt(s, from, to)
      PROVE  /\ at' \in [Starts -> Live \cup {"idle", "refused", "failed", "dead", "done"}]
             /\ at[s] = from /\ at'[s] = to /\ \A t \in Starts : t # s => at'[t] = at[t]
  BY <1>b, <1>f DEF StartAt
<1>1. ASSUME NEW p \in Pids, TakePid(p) PROVE Continues
  <2>1. holder[p] = Nobody /\ holder' = [holder EXCEPT ![p] = Stranger]
        /\ UNCHANGED <<life, signal, at, pidfile, stopVars, faults>>
    BY <1>1 DEF TakePid
  <2>2. RunsOn
    <3>1. Nobody \notin Children
      BY ProcessConstants DEF Children, Roles
    <3>. QED
      BY <1>a, <2>1, <3>1 DEF RunsOn, LifeOK
  <2>3. LifeOK'
    BY <1>a, <2>1 DEF LifeOK
  <2>. QED
    BY <1>a, <1>b, <1>c, <2>1, <2>2, <2>3 DEF StartsUnborn
<1>2. ASSUME NEW c \in Children, FailToBind(c) \/ Exit(c) \/ Fail(c) PROVE Continues
  <2>1. /\ life[c] = "up" /\ life' = [life EXCEPT ![c] = "zombie"]
        /\ signal' = [signal EXCEPT ![c] = "none"] \/ UNCHANGED signal
        /\ UNCHANGED <<holder, at, pidfile, stopVars>> /\ faults' \in 0..MaxFaults
    BY <1>2, <1>b, <1>e DEF FailToBind, Exit, Fail, Running
  <2>2. LifeOK' /\ RunsOn
    BY <1>a, <2>1 DEF LifeOK, RunsOn
  <2>3. signal' \in [Children -> {"none", "term", "kill"}]
    BY <1>b, <2>1
  <2>4. StartsUnborn'
    BY <1>a, <2>1 DEF StartsUnborn, LifeOK
  <2>. QED
    BY <1>b, <1>c, <2>1, <2>2, <2>3, <2>4
<1>3. ASSUME NEW cs \in SUBSET Children, Reap(cs), at' = at,
             UNCHANGED <<signal, at, pidfile, stopVars, faults>>
      PROVE  Continues
  <2>1. LifeOK' /\ RunsOn /\ \A c \in Children : life'[c] = "unborn" <=> life[c] = "unborn"
    BY <1>a, <1>3, ReapKeeps
  <2>2. StartsUnborn'
    BY <1>a, <1>3, <2>1 DEF StartsUnborn, Children
  <2>. QED
    BY <1>b, <1>c, <1>3, <2>1, <2>2
<1>4. ASSUME NEW c \in Children, InitReaps(c) PROVE Continues
  BY <1>3, <1>4 DEF InitReaps
<1>5. ASSUME NEW s \in Starts, CheckRunning(s) \/ ClearAndCheckPorts(s) PROVE Continues
  <2>1. \E from \in {"idle", "checked"}, to \in {"refused", "checked", "ready"} : StartAt(s, from, to)
    BY <1>5 DEF CheckRunning, ClearAndCheckPorts
  <2>2. UNCHANGED <<childVars, stopVars, faults>> /\ pidfile' \subseteq Pids
    BY <1>5, <1>b DEF CheckRunning, ClearAndCheckPorts
  <2>3. /\ at' \in [Starts -> Live \cup {"idle", "refused", "failed", "dead", "done"}]
        /\ at[s] \in {"idle", "checked"} /\ \A t \in Starts : t # s => at'[t] = at[t]
    BY <2>1, <1>f DEF Live
  <2>4. StartsUnborn'
    BY <1>a, <2>2, <2>3 DEF StartsUnborn, childVars
  <2>. QED
    BY <1>b, <1>c, <1>d, <2>2, <2>3, <2>4 DEF childVars
<1>6. ASSUME NEW s \in Starts, NEW R \in SUBSET Roles, NEW pidOf \in [R -> Pids], Launch(s, pidOf),
             NEW to \in {"spawned", "failed", "dead"}, StartAt(s, "ready", to),
             UNCHANGED <<pidfile, stopVars>>, faults' \in 0..MaxFaults,
             signal' \in [Children -> {"none", "term", "kill"}]
      PROVE  Continues
  <2>1. /\ at' \in [Starts -> Live \cup {"idle", "refused", "failed", "dead", "done"}]
        /\ at[s] = "ready" /\ at'[s] = to /\ \A t \in Starts : t # s => at'[t] = at[t]
    BY <1>6, <1>f DEF Live
  <2>2. \A r \in Roles : life[<<s, r>>] = "unborn"
    BY <1>a, <2>1 DEF StartsUnborn
  <2>3. LifeOK' /\ RunsOn /\ \A c \in Children : c[1] # s => life'[c] = life[c]
    BY <1>a, <1>6, <2>2, LaunchKeeps
  <2>4. StartsUnborn'
    <3>1. ASSUME NEW t \in Starts, at'[t] \in {"idle", "checked", "ready", "refused"}, NEW r \in Roles
          PROVE  life'[<<t, r>>] = "unborn"
      <4>1. t # s /\ at[t] = at'[t]
        BY <2>1, <3>1
      <4>2. <<t, r>> \in Children /\ <<t, r>>[1] = t
        BY DEF Children
      <4>3. life[<<t, r>>] = "unborn"
        BY <1>a, <3>1, <4>1 DEF StartsUnborn
      <4>. QED
        BY <2>3, <4>1, <4>2, <4>3
    <3>. QED
      BY <3>1 DEF StartsUnborn
  <2>. QED
    BY <1>b, <1>c, <1>6, <2>1, <2>3, <2>4
<1>7. ASSUME NEW s \in Starts, Spawn(s) PROVE Continues
  <2>1. PICK pidOf \in [Roles -> Pids] : Launch(s, pidOf)
    BY <1>7 DEF Spawn
  <2>. QED
    BY <1>6, <1>7, <1>b, <2>1 DEF Spawn
<1>8. ASSUME NEW s \in Starts, SpawnFails(s) PROVE Continues
  <2>0. faults' \in 0..MaxFaults /\ UNCHANGED <<pidfile, stopVars>>
    BY <1>8, <1>e DEF SpawnFails
  <2>1. CASE StartAt(s, "ready", "failed") /\ UNCHANGED childVars
    <3>1. /\ at' \in [Starts -> Live \cup {"idle", "refused", "failed", "dead", "done"}]
          /\ at'[s] = "failed" /\ \A t \in Starts : t # s => at'[t] = at[t]
      BY <2>1, <1>f
    <3>2. StartsUnborn'
      BY <1>a, <2>1, <3>1 DEF StartsUnborn, childVars
    <3>. QED
      BY <1>b, <1>c, <1>d, <2>0, <2>1, <3>1, <3>2 DEF childVars
  <2>2. CASE \E pidOf \in [{"honeypot"} -> Pids] : Launch(s, pidOf)
             /\ \/ /\ StartAt(s, "ready", "failed")
                   /\ signal' = [signal EXCEPT ![<<s, "honeypot">>] = "term"]
                \/ StartAt(s, "ready", "dead") /\ UNCHANGED signal
    <3>1. PICK pidOf \in [{"honeypot"} -> Pids] : Launch(s, pidOf)
      BY <2>2
    <3>2. {"honeypot"} \in SUBSET Roles
      BY DEF Roles
    <3>3. signal' \in [Children -> {"none", "term", "kill"}]
      BY <1>b, <2>2
    <3>4. \E to \in {"failed", "dead"} : StartAt(s, "ready", to)
      BY <2>2
    <3>. QED
      BY <1>6, <2>0, <3>1, <3>2, <3>3, <3>4
  <2>. QED
    BY <1>8, <2>1, <2>2 DEF SpawnFails
<1>9. ASSUME NEW s \in Starts, WritePidFile(s) \/ Unlink(s) PROVE Continues
  <2>1. /\ UNCHANGED <<childVars, stopVars, faults>> /\ pidfile' \subseteq Pids
        /\ \E from \in {"spawned", "waiting"}, to \in {"watching", "done"} : StartAt(s, from, to)
    BY <1>9 DEF WritePidFile, Unlink, PidsOf
  <2>2. /\ at' \in [Starts -> Live \cup {"idle", "refused", "failed", "dead", "done"}]
        /\ at'[s] \in {"watching", "done"} /\ \A t \in Starts : t # s => at'[t] = at[t]
    BY <2>1, <1>f DEF Live
  <2>3. StartsUnborn'
    BY <1>a, <2>1, <2>2 DEF StartsUnborn, childVars
  <2>. QED
    BY <1>b, <1>c, <1>d, <2>1, <2>2, <2>3 DEF childVars
<1>10. ASSUME NEW s \in Starts, Notice(s) \/ Interrupted(s) PROVE Continues
  <2>1. /\ EndBoth(s) /\ faults' \in 0..MaxFaults
    BY <1>10, <1>b, <1>e DEF Notice, Interrupted
  <2>2. /\ at' \in [Starts -> Live \cup {"idle", "refused", "failed", "dead", "done"}]
        /\ at'[s] = "waiting" /\ \A t \in Starts : t # s => at'[t] = at[t]
    BY <2>1, <1>f DEF Live, EndBoth
  <2>3. {s} \X Roles \in SUBSET Children
    BY DEF Children
  <2>4. LifeOK' /\ RunsOn /\ \A c \in Children : life'[c] = "unborn" <=> life[c] = "unborn"
    BY <1>a, <2>1, <2>3, ReapKeeps DEF EndBoth
  <2>5. signal' \in [Children -> {"none", "term", "kill"}]
    BY <2>1, SignalType DEF EndBoth
  <2>6. StartsUnborn'
    BY <1>a, <2>2, <2>4 DEF StartsUnborn, Children
  <2>. QED
    BY <1>b, <1>c, <2>1, <2>2, <2>4, <2>5, <2>6 DEF EndBoth
<1>11. ASSUME NEW s \in Starts, Killed(s) PROVE Continues
  <2>1. /\ at' = [at EXCEPT ![s] = "dead"] /\ faults' \in 0..MaxFaults
        /\ UNCHANGED <<holder, life, pidfile, stopVars>>
    BY <1>11, <1>e DEF Killed
  <2>2. signal' \in [Children -> {"none", "term", "kill"}]
    BY <1>11, <1>b, SignalType DEF Killed
  <2>3. at' \in [Starts -> Live \cup {"idle", "refused", "failed", "dead", "done"}]
    BY <1>b, <2>1
  <2>4. StartsUnborn'
    BY <1>a, <1>b, <2>1 DEF StartsUnborn
  <2>. QED
    BY <1>b, <1>c, <1>d, <2>1, <2>2, <2>3, <2>4
<1>12. ASSUME NEW s \in Starts, NEW r \in Roles, Wait(s, r) PROVE Continues
  <2>1. {<<s, r>>} \in SUBSET Children
    BY DEF Children
  <2>. QED
    BY <1>3, <1>12, <2>1 DEF Wait
<1>13. ASSUME NEW s \in Starts, NEW r \in Roles, WaitTimesOut(s, r) PROVE Continues
  <2>1. UNCHANGED <<holder, life, at, pidfile, stopVars, faults>>
        /\ signal' \in [Children -> {"none", "term", "kill"}]
    BY <1>13, SignalType DEF WaitTimesOut
  <2>. QED
    BY <1>a, <1>b, <1>c, <1>d, <2>1 DEF StartsUnborn
<1>. QED
  BY <1>1, <1>2, <1>4, <1>5, <1>7, <1>8, <1>9, <1>10, <1>11, <1>12, <1>13
  DEF Outside, System, Begin, End, Interference

-----------------------------------------------------------------------------
(* A stop writes neither the process table nor the starts, and of the      *)
(* stops only its own state.                                               *)
OwnStep(k) ==
    /\ TypeOK' /\ UNCHANGED <<holder, life, at>>
    /\ \A j \in Stops : j # k =>
          /\ stop'[j] = stop[j] /\ todo'[j] = todo[j] /\ target'[j] = target[j]
          /\ signaled'[j] = signaled[j] /\ denied'[j] = denied[j]
          /\ targets'[j] = targets[j] /\ known'[j] = known[j]

(* A stop's step is its own.                                               *)
LEMMA StopOwn ==
    ASSUME TypeOK, NEW k \in Stops, StopStep(k)
    PROVE  OwnStep(k)
<1>. USE DEF TypeOK
<1>a. IsFiniteSet(Pids) /\ Nobody \notin Pids
  BY ProcessConstants
<1>b. /\ stop \in [Stops -> {"idle", "asking", "waiting", "settling", "unlinking",
                             "partial", "stopped", "nothing"}]
      /\ target \in [Stops -> Pids \cup {Nobody}]
      /\ todo \in [Stops -> SUBSET Pids] /\ signaled \in [Stops -> SUBSET Pids]
      /\ denied \in [Stops -> SUBSET Pids] /\ found \in [Stops -> BOOLEAN]
      /\ targets \in [Stops -> SUBSET Children] /\ known \in [Stops -> SUBSET Pids]
      /\ struck \subseteq Pids /\ pidfile \subseteq Pids
      /\ signal \in [Children -> {"none", "term", "kill"}]
  OBVIOUS
(* What a look and a strike write. *)
<1>c. ASSUME NEW ps \in SUBSET Pids, Look(k, ps)
      PROVE  known' \in [Stops -> SUBSET Pids] /\ \A j \in Stops : j # k => known'[j] = known[j]
  BY <1>b, <1>c DEF Look
<1>d. ASSUME NEW ps, Strike(k, ps) PROVE struck' \subseteq Pids
  BY <1>b, <1>d DEF Strike
<1>e. ASSUME NEW to \in {"idle", "asking", "waiting", "settling", "unlinking",
                        "partial", "stopped", "nothing"}, StopAt(k, to)
      PROVE  /\ stop' \in [Stops -> {"idle", "asking", "waiting", "settling", "unlinking",
                                     "partial", "stopped", "nothing"}]
             /\ \A j \in Stops : j # k => stop'[j] = stop[j]
  BY <1>b, <1>e DEF StopAt
<1>1. CASE ReadPids(k)
  <2>1. {holder[p] : p \in {q \in pidfile : IsEchidra(q)}} \subseteq Children
    BY DEF IsEchidra
  <2>2. targets' \in [Stops -> SUBSET Children] /\ \A j \in Stops : j # k => targets'[j] = targets[j]
    BY <1>1, <1>b, <2>1 DEF ReadPids
  <2>3. /\ stop' \in [Stops -> {"idle", "asking", "waiting", "settling", "unlinking",
                                "partial", "stopped", "nothing"}]
        /\ \A j \in Stops : j # k => stop'[j] = stop[j]
    BY <1>1, <1>e DEF ReadPids
  <2>. QED
    BY <1>1, <1>b, <2>2, <2>3 DEF ReadPids, OwnStep, childVars
<1>2. ASSUME NEW p \in Pids, Ask(k, p) PROVE OwnStep(k)
  <2>1. known' \in [Stops -> SUBSET Pids] /\ \A j \in Stops : j # k => known'[j] = known[j]
    BY <1>2, <1>c DEF Ask
  <2>2. target' \in [Stops -> Pids \cup {Nobody}] /\ todo' \in [Stops -> SUBSET Pids]
    BY <1>2, <1>b DEF Ask
  <2>3. found' \in [Stops -> BOOLEAN]
    <3>1. IsEchidra(p) \in BOOLEAN
      BY DEF IsEchidra
    <3>2. \A j \in Stops : found[j] \in BOOLEAN
      BY <1>b
    <3>3. found' = [found EXCEPT ![k] = found[k] \/ IsEchidra(p)]
      BY <1>2 DEF Ask
    <3>. QED
      BY <1>b, <3>1, <3>2, <3>3
  <2>. QED
    BY <1>2, <1>b, <2>1, <2>2, <2>3 DEF Ask, OwnStep, childVars
<1>3. ASSUME NEW p \in Pids, SendTerm(k, p) PROVE OwnStep(k)
  <2>1. /\ target' \in [Stops -> Pids \cup {Nobody}] /\ denied' \in [Stops -> SUBSET Pids]
        /\ signaled' \in [Stops -> SUBSET Pids]
    BY <1>3, <1>b DEF SendTerm
  <2>2. signal' \in [Children -> {"none", "term", "kill"}] /\ struck' \subseteq Pids
    BY <1>3, <1>d, SignalType DEF SendTerm
  <2>. QED
    BY <1>3, <1>b, <2>1, <2>2 DEF SendTerm, OwnStep
<1>4. CASE Asked(k)
  <2>1. /\ stop' \in [Stops -> {"idle", "asking", "waiting", "settling", "unlinking",
                                "partial", "stopped", "nothing"}]
        /\ \A j \in Stops : j # k => stop'[j] = stop[j]
    BY <1>4, <1>e DEF Asked
  <2>. QED
    BY <1>4, <1>b, <2>1 DEF Asked, OwnStep, childVars
<1>5. CASE Recheck(k) \/ Settle(k)
  <2>1. /\ Look(k, signaled[k])
        /\ \E to \in {"waiting", "settling", "unlinking", "partial"} : StopAt(k, to)
        /\ UNCHANGED <<childVars, at, pidfile, todo, target, denied, found, targets, struck, faults>>
        /\ signaled' = [signaled EXCEPT ![k] = {p \in signaled[k] : IsEchidra(p)}]
    BY <1>5 DEF Recheck, Settle
  <2>2. known' \in [Stops -> SUBSET Pids] /\ \A j \in Stops : j # k => known'[j] = known[j]
    BY <1>b, <1>c, <2>1
  <2>3. /\ stop' \in [Stops -> {"idle", "asking", "waiting", "settling", "unlinking",
                                "partial", "stopped", "nothing"}]
        /\ \A j \in Stops : j # k => stop'[j] = stop[j]
    BY <1>e, <2>1
  <2>4. signaled' \in [Stops -> SUBSET Pids] /\ \A j \in Stops : j # k => signaled'[j] = signaled[j]
    BY <1>b, <2>1
  <2>. QED
    BY <2>1, <2>2, <2>3, <2>4 DEF OwnStep, childVars
<1>6. CASE KillRest(k)
  <2>1. signal' \in [Children -> {"none", "term", "kill"}] /\ struck' \subseteq Pids
    BY <1>6, <1>d, SignalType DEF KillRest
  <2>2. /\ stop' \in [Stops -> {"idle", "asking", "waiting", "settling", "unlinking",
                                "partial", "stopped", "nothing"}]
        /\ \A j \in Stops : j # k => stop'[j] = stop[j]
    BY <1>6, <1>e DEF KillRest
  <2>. QED
    BY <1>6, <2>1, <2>2 DEF KillRest, OwnStep
<1>7. CASE Report(k)
  <2>1. /\ stop' \in [Stops -> {"idle", "asking", "waiting", "settling", "unlinking",
                                "partial", "stopped", "nothing"}]
        /\ \A j \in Stops : j # k => stop'[j] = stop[j]
    BY <1>7, <1>e DEF Report
  <2>. QED
    BY <1>7, <2>1 DEF Report, OwnStep, childVars
<1>. QED
  BY <1>1, <1>2, <1>3, <1>4, <1>5, <1>6, <1>7 DEF StopStep

-----------------------------------------------------------------------------
(* The steps around a stop keep the invariant: what still runs kept its    *)
(* pid.                                                                    *)
LEMMA OutsideKeeps ==
    ASSUME StopInv, Outside
    PROVE  StopInv'
<1>1. TypeOK' /\ RunsOn /\ UNCHANGED stopVars /\ StartsUnborn'
  BY OutsideStep DEF StopInv, Continues
<1>2. UNCHANGED <<stop, todo, target, signaled, denied, found, targets, known, struck>>
  BY <1>1 DEF stopVars
<1>3. targets \in [Stops -> SUBSET Children] /\ \A k \in Stops : Pending(k) \subseteq Pids
  BY DEF StopInv, TypeOK, Pending
<1>4. BirthInv'
  BY <1>1, <1>2, <1>3 DEF StopInv, BirthInv, StartsUnborn, RunsOn
<1>5. LoopInv' /\ StrangerInv'
  BY <1>2 DEF StopInv, LoopInv, LoopAt, StrangerInv, SparesStrangers
<1>6. FollowInv'
  <2>1. ASSUME NEW k \in Stops, NEW c \in targets[k], life'[c] = "up"
        PROVE  /\ stop[k] \in {"asking", "waiting", "settling", "partial"}
               /\ stop[k] # "partial" => \E p \in Pending(k) : holder'[p] = c
    <3>1. c \in Children /\ life[c] # "unborn"
      BY <1>3 DEF StopInv, BirthInv
    <3>2. life[c] = "up" /\ \A p \in Pids : holder[p] = c => holder'[p] = c
      BY <1>1, <2>1, <3>1 DEF RunsOn
    <3>3. Follows(k, c)
      BY <3>2 DEF StopInv, FollowInv, Running
    <3>. QED
      BY <1>3, <3>2, <3>3 DEF Follows
  <2>. QED
    BY <1>2, <2>1 DEF FollowInv, Follows, Running, Pending
<1>. QED
  BY <1>1, <1>4, <1>5, <1>6 DEF StopInv

(* So do the steps of a stop: the pid of a running child goes from one of  *)
(* its lists to the next, and a look drops a stranger from all of them.    *)
LEMMA StopKeeps ==
    ASSUME StopInv, NEW k \in Stops, StopStep(k)
    PROVE  StopInv'
<1>a. TypeOK /\ LoopAt(k) /\ OwnStep(k)
  BY StopOwn DEF StopInv, LoopInv
<1>b. /\ stop \in [Stops -> {"idle", "asking", "waiting", "settling", "unlinking",
                             "partial", "stopped", "nothing"}]
      /\ target \in [Stops -> Pids \cup {Nobody}]
      /\ todo \in [Stops -> SUBSET Pids] /\ signaled \in [Stops -> SUBSET Pids]
      /\ denied \in [Stops -> SUBSET Pids] /\ pidfile \subseteq Pids
      /\ targets \in [Stops -> SUBSET Children] /\ known \in [Stops -> SUBSET Pids]
      /\ holder \in [Pids -> Children \cup {Nobody, Stranger}]
  BY <1>a DEF TypeOK
<1>c. Nobody \notin Pids /\ Nobody \notin Children /\ Stranger \notin Children
  BY ProcessConstants DEF Children, Roles
<1>d. UNCHANGED <<holder, life, at>> /\ (\A c : Running(c)' <=> Running(c)) /\ TypeOK'
  BY <1>a DEF OwnStep, Running
<1>e. known[k] = {} /\ struck = {} /\ \A c \in targets[k] : Running(c) => Follows(k, c)
  BY DEF StopInv, StrangerInv, SparesStrangers, FollowInv
(* It is enough to look at the stop that steps. *)
<1>f. ASSUME LoopAt(k)', known'[k] = {}, struck' = {},
             \A c \in targets'[k] : life[c] # "unborn" /\ (Running(c) => Follows(k, c)')
      PROVE  StopInv'
  <2>1. \A j \in Stops : LoopAt(j)' /\ known'[j] = {}
              /\ \A c \in targets'[j] : life[c] # "unborn" /\ (Running(c) => Follows(j, c)')
    <3>1. ASSUME NEW j \in Stops, j # k
          PROVE  LoopAt(j)' /\ known'[j] = {}
                 /\ \A c \in targets'[j] : life[c] # "unborn" /\ (Running(c) => Follows(j, c)')
      <4>1. /\ stop'[j] = stop[j] /\ todo'[j] = todo[j] /\ target'[j] = target[j]
            /\ signaled'[j] = signaled[j] /\ denied'[j] = denied[j]
            /\ targets'[j] = targets[j] /\ known'[j] = known[j] /\ holder' = holder
        BY <1>a, <3>1 DEF OwnStep
      <4>2. LoopAt(j)'
        BY <4>1 DEF StopInv, LoopInv, LoopAt
      <4>3. ASSUME NEW c \in targets'[j]
            PROVE  life[c] # "unborn" /\ (Running(c) => Follows(j, c)')
        <5>1. c \in targets[j]
          BY <4>1
        <5>2. life[c] # "unborn" /\ (Running(c) => Follows(j, c))
          BY <5>1 DEF StopInv, BirthInv, FollowInv
        <5>. QED
          BY <4>1, <5>2 DEF Follows, Pending
      <4>. QED
        BY <4>1, <4>2, <4>3 DEF StopInv, StrangerInv
    <3>. QED
      BY <1>f, <3>1
  <2>2. BirthInv'
    BY <1>d, <2>1 DEF StopInv, BirthInv
  <2>3. LoopInv' /\ FollowInv' /\ StrangerInv'
    BY <1>d, <1>f, <2>1 DEF LoopInv, FollowInv, StrangerInv, SparesStrangers
  <2>. QED
    BY <1>d, <2>2, <2>3 DEF StopInv
<1>g. \A c \in targets[k] : life[c] # "unborn"
  BY DEF StopInv, BirthInv
<1>h. \A ps : Strike(k, ps) => struck' = {}
  BY <1>e DEF Strike
<1>1. CASE ReadPids(k)
  <2>1. /\ stop[k] = "idle" /\ stop'[k] = (IF pidfile = {} THEN "nothing" ELSE "asking")
        /\ todo'[k] = pidfile /\ UNCHANGED <<target, signaled, denied, known, struck>>
        /\ targets'[k] = {holder[p] : p \in {q \in pidfile : IsEchidra(q)}}
    BY <1>1, <1>b DEF ReadPids, StopAt
  <2>2. target[k] = Nobody /\ signaled[k] = {}
    BY <1>a, <2>1 DEF LoopAt
  <2>3. LoopAt(k)'
    BY <1>b, <1>c, <2>1, <2>2 DEF LoopAt
  <2>4. ASSUME NEW c \in targets'[k] PROVE life[c] # "unborn" /\ Follows(k, c)'
    <3>1. PICK p \in pidfile : IsEchidra(p) /\ c = holder[p]
      BY <2>1
    <3>2. life[c] = "up"
      BY <3>1 DEF IsEchidra, Running
    <3>3. p \in Pending(k)'
      BY <2>1, <3>1 DEF Pending
    <3>. QED
      BY <1>d, <2>1, <3>1, <3>2, <3>3 DEF Follows
  <2>. QED
    BY <1>e, <1>f, <2>1, <2>3, <2>4
(* What a look leaves of the strangers it saw: none. *)
<1>i. ASSUME NEW ps \in SUBSET Pids, Look(k, ps),
             \A p \in ps : holder[p] = Stranger => p \notin signaled'[k] /\ p # target'[k]
      PROVE  known'[k] = {}
  BY <1>b, <1>e, <1>i DEF Look
<1>2. ASSUME NEW p \in Pids, Ask(k, p) PROVE StopInv'
  <2>1. /\ stop[k] = "asking" /\ target[k] = Nobody /\ p \in todo[k]
        /\ target'[k] = (IF IsEchidra(p) THEN p ELSE Nobody) /\ todo'[k] = todo[k] \ {p}
        /\ UNCHANGED <<stop, signaled, denied, targets, struck>> /\ Look(k, {p})
    BY <1>2, <1>b DEF Ask
  <2>2. LoopAt(k)'
    BY <1>a, <1>b, <1>c, <2>1 DEF LoopAt
  <2>3. known'[k] = {}
    <3>1. p \notin signaled[k] /\ (holder[p] = Stranger => target'[k] = Nobody)
      BY <1>a, <1>c, <2>1 DEF LoopAt, IsEchidra
    <3>. QED
      BY <1>c, <1>i, <2>1, <3>1
  <2>4. ASSUME NEW c \in targets[k], Running(c) PROVE Follows(k, c)'
    <3>1. c \in Children
      BY <1>b
    <3>2. PICK q \in Pending(k) : holder[q] = c
      BY <1>e, <2>1, <2>4 DEF Follows
    <3>3. q \in Pending(k)'
      <4>1. q = p => IsEchidra(p)
        BY <2>4, <3>1, <3>2 DEF IsEchidra
      <4>. QED
        BY <1>c, <2>1, <3>2, <4>1 DEF Pending
    <3>. QED
      BY <1>d, <2>1, <3>2, <3>3 DEF Follows
  <2>. QED
    BY <1>e, <1>f, <1>g, <2>1, <2>2, <2>3, <2>4
<1>3. ASSUME NEW p \in Pids, SendTerm(k, p) PROVE StopInv'
  <2>1. /\ target[k] = p /\ target'[k] = Nobody
        /\ denied'[k] = (IF MayNot(p) THEN denied[k] \cup {p} ELSE denied[k])
        /\ signaled'[k] = (IF MayNot(p) \/ holder[p] = Nobody THEN signaled[k] ELSE signaled[k] \cup {p})
        /\ UNCHANGED <<stop, todo, targets, known>> /\ struck' = {}
    BY <1>3, <1>b, <1>h DEF SendTerm
  <2>2. stop[k] = "asking"
    BY <1>a, <1>c, <2>1 DEF LoopAt
  <2>3. LoopAt(k)'
    BY <1>a, <1>b, <1>c, <2>1, <2>2 DEF LoopAt
  <2>4. ASSUME NEW c \in targets[k], Running(c) PROVE Follows(k, c)'
    <3>1. c \in Children
      BY <1>b
    <3>2. PICK q \in Pending(k) : holder[q] = c
      BY <1>e, <2>2, <2>4 DEF Follows
    <3>3. q \in Pending(k)'
      BY <1>c, <2>1, <3>1, <3>2 DEF Pending
    <3>. QED
      BY <1>d, <2>1, <2>2, <3>2, <3>3 DEF Follows
  <2>. QED
    BY <1>e, <1>f, <1>g, <2>1, <2>3, <2>4
<1>4. CASE Asked(k)
  <2>1. /\ stop[k] = "asking" /\ target[k] = Nobody /\ todo[k] = {}
        /\ stop'[k] \in {"settling", "waiting"}
        /\ UNCHANGED <<todo, target, signaled, denied, targets, known, struck>>
    BY <1>4, <1>b DEF Asked, StopAt
  <2>2. LoopAt(k)'
    BY <1>b, <1>c, <2>1 DEF LoopAt
  <2>3. ASSUME NEW c \in targets[k], Running(c) PROVE Follows(k, c)'
    BY <1>d, <1>e, <2>1, <2>3 DEF Follows, Pending
  <2>. QED
    BY <1>e, <1>f, <1>g, <2>1, <2>2, <2>3
<1>5. CASE Recheck(k) \/ Settle(k)
  <2>1. /\ stop[k] \in {"waiting", "settling"} /\ Look(k, signaled[k])
        /\ signaled'[k] = {p \in signaled[k] : IsEchidra(p)}
        /\ stop'[k] \in {"waiting", "settling", "unlinking", "partial"}
        /\ stop'[k] = "unlinking" => denied[k] = {} /\ signaled'[k] = {}
        /\ UNCHANGED <<todo, target, denied, targets, struck>>
    BY <1>5, <1>b DEF Recheck, Settle, StopAt
  <2>2. target[k] = Nobody /\ todo[k] = {}
    BY <1>a, <2>1 DEF LoopAt
  <2>3. LoopAt(k)'
    BY <2>1, <2>2 DEF LoopAt
  <2>4. known'[k] = {}
    <3>1. \A p \in signaled[k] : holder[p] = Stranger => p \notin signaled'[k] /\ p # target'[k]
      BY <1>b, <1>c, <2>1, <2>2 DEF IsEchidra
    <3>. QED
      BY <1>b, <1>i, <2>1, <3>1
  <2>5. ASSUME NEW c \in targets[k], Running(c) PROVE Follows(k, c)'
    <3>1. c \in Children
      BY <1>b
    <3>2. PICK q \in Pending(k) : holder[q] = c
      BY <1>e, <2>1, <2>5 DEF Follows
    <3>3. q \in denied[k] \/ q \in signaled'[k]
      BY <1>c, <2>1, <2>2, <2>5, <3>1, <3>2 DEF Pending, IsEchidra
    <3>. QED
      BY <1>d, <2>1, <3>2, <3>3 DEF Follows, Pending
  <2>. QED
    BY <1>e, <1>f, <1>g, <2>1, <2>3, <2>4, <2>5
<1>6. CASE KillRest(k)
  <2>1. /\ stop[k] = "waiting" /\ stop'[k] = "settling" /\ struck' = {}
        /\ UNCHANGED <<todo, target, signaled, denied, targets, known>>
    BY <1>6, <1>b, <1>h DEF KillRest, StopAt
  <2>2. LoopAt(k)'
    BY <1>a, <2>1 DEF LoopAt
  <2>3. ASSUME NEW c \in targets[k], Running(c) PROVE Follows(k, c)'
    BY <1>d, <1>e, <2>1, <2>3 DEF Follows, Pending
  <2>. QED
    BY <1>e, <1>f, <1>g, <2>1, <2>2, <2>3
<1>7. CASE Report(k)
  <2>1. /\ stop[k] = "unlinking" /\ stop'[k] \in {"stopped", "nothing"}
        /\ UNCHANGED <<todo, target, signaled, denied, targets, known, struck>>
    BY <1>7, <1>b DEF Report, StopAt
  <2>2. LoopAt(k)'
    BY <1>a, <2>1 DEF LoopAt
  <2>3. \A c \in targets[k] : ~Running(c)
    BY <1>e, <2>1 DEF Follows
  <2>. QED
    BY <1>e, <1>f, <1>g, <2>1, <2>2, <2>3
<1>. QED
  BY <1>1, <1>2, <1>3, <1>4, <1>5, <1>6, <1>7 DEF StopStep

-----------------------------------------------------------------------------
(* Nothing has been started yet.                                           *)
LEMMA InitStop == Init => StopInv
<1>. SUFFICES ASSUME Init PROVE StopInv
  OBVIOUS
<1>1. TypeOK
  BY ProcessConstants DEF Init, TypeOK
<1>2. BirthInv /\ StrangerInv
  BY DEF Init, BirthInv, StrangerInv, SparesStrangers, Children
<1>3. LoopInv /\ FollowInv
  BY DEF Init, LoopInv, LoopAt, FollowInv
<1>. QED
  BY <1>1, <1>2, <1>3 DEF StopInv

(* Every step keeps the invariant.                                         *)
LEMMA StopInvStep == StopInv /\ [Next]_vars => StopInv'
<1>. SUFFICES ASSUME StopInv, [Next]_vars PROVE StopInv'
  OBVIOUS
<1>1. CASE Outside
  BY <1>1, OutsideKeeps
<1>2. ASSUME NEW k \in Stops, StopStep(k) PROVE StopInv'
  BY <1>2, StopKeeps
<1>3. CASE UNCHANGED vars
  <2>1. UNCHANGED <<holder, life, signal, at, pidfile, stop, todo, target, signaled, denied,
                    found, targets, known, struck, faults>>
    BY <1>3 DEF vars, childVars, stopVars
  <2>2. TypeOK' /\ BirthInv' /\ LoopInv' /\ StrangerInv'
    BY <2>1 DEF StopInv, TypeOK, BirthInv, LoopInv, LoopAt, StrangerInv, SparesStrangers
  <2>3. FollowInv'
    BY <2>1 DEF StopInv, FollowInv, Follows, Pending, Running
  <2>. QED
    BY <2>2, <2>3 DEF StopInv
<1>. QED
  BY <1>1, <1>2, <1>3 DEF Next, Outside

(* The invariant holds in every behaviour.                                 *)
LEMMA StopInvHolds == Spec => []StopInv
BY InitStop, StopInvStep, PTL DEF Spec

(* `echidra stop` says that Echidra has stopped, or was not running, only  *)
(* when none of the processes it read from the pid file runs.              *)
THEOREM StopSaysTheTruth == Spec => []StopReportsTruth
<1>1. StopInv => StopReportsTruth
  BY DEF StopInv, FollowInv, Follows, StopReportsTruth
<1>. QED
  BY <1>1, StopInvHolds, PTL

(* It signals no process it has looked at and found not to be Echidra's,   *)
(* whatever pids are freed and taken meanwhile.                            *)
THEOREM NoKnownStrangerIsStruck == Spec => []SparesStrangers
<1>1. StopInv => SparesStrangers
  BY DEF StopInv, StrangerInv
<1>. QED
  BY <1>1, StopInvHolds, PTL
===============================================================================
