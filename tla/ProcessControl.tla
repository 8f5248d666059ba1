---------------------------- MODULE ProcessControl ----------------------------
(***************************************************************************)
(* `echidra start` and `echidra stop` (echidra/cli.py): the two processes  *)
(* a start launches and watches over, the pid file they are listed in, and *)
(* the stop that finds them there.                                         *)
(*                                                                         *)
(* Commands are processes of their own and interleave at every call to the *)
(* operating system.  A process that has exited keeps its pid until its    *)
(* parent has waited for it; then any other program may be given the pid.  *)
(* The pid file is the set of pids it lists: a missing file and an empty   *)
(* one read the same.  The listening ports of a child are one resource,    *)
(* held or not.                                                            *)
(***************************************************************************)
EXTENDS Naturals, FiniteSets

CONSTANTS Starts,    \* invocations of `echidra start`
          Stops,     \* invocations of `echidra stop`
          Foreign,   \* the starts that were run as another user
          Pids,      \* process numbers
          MaxFaults, \* starts killed, children that fail, failed launches
          Nobody,    \* a free pid
          Stranger   \* a pid held by a program that is not Echidra

ASSUME ProcessConstants ==
    /\ Foreign \subseteq Starts
    /\ MaxFaults \in Nat
    /\ Pids \subseteq Nat /\ IsFiniteSet(Pids)
    /\ Nobody # Stranger /\ Nobody \notin Pids
    /\ {Nobody, Stranger} \cap (Starts \X {"honeypot", "api"}) = {}

Roles    == {"honeypot", "api"}
Children == Starts \X Roles

VARIABLES
    holder,   \* the process table
    life,     \* each child: "unborn", "up", "zombie", "gone"
    signal,   \* the strongest signal a child was sent
    at,       \* where each start is
    pidfile,  \* PID_PATH
    stop,     \* where each stop is
    todo,     \* the pids its loop has still to come to
    target,   \* the pid it has looked at and is about to signal
    signaled, \* signaled
    denied,   \* permission_denied
    found,    \* found_running
    faults,   \* faults so far
    targets,  \* history: the running children a stop read from the file
    known,    \* history: pids it means to signal and has seen a stranger hold
    struck    \* history: strangers signalled although they were known

childVars == <<holder, life, signal>>
stopVars  == <<stop, todo, target, signaled, denied, found, targets, known, struck>>
vars == <<childVars, at, pidfile, stopVars, faults>>

Running(c) == life[c] = "up"
PidsOf(s)  == {p \in Pids : holder[p] \in {s} \X Roles}
Live       == {"checked", "ready", "spawned", "watching", "waiting"}

Init ==
    /\ holder = [p \in Pids |-> Nobody]
    /\ life = [c \in Children |-> "unborn"]
    /\ signal = [c \in Children |-> "none"]
    /\ at = [s \in Starts |-> "idle"]
    /\ pidfile = {}
    /\ stop = [k \in Stops |-> "idle"]
    /\ todo = [k \in Stops |-> {}]
    /\ target = [k \in Stops |-> Nobody]
    /\ signaled = [k \in Stops |-> {}]
    /\ denied = [k \in Stops |-> {}]
    /\ found = [k \in Stops |-> FALSE]
    /\ faults = 0
    /\ targets = [k \in Stops |-> {}]
    /\ known = [k \in Stops |-> {}]
    /\ struck = {}

Fault == faults < MaxFaults /\ faults' = faults + 1

-----------------------------------------------------------------------------
(* The operating system *)

(* _pid_is_echidra_process: alive, and its command line is one of ours.    *)
(* The command line of a zombie is empty.                                  *)
IsEchidra(p) == holder[p] \in Children /\ Running(holder[p])

(* A signal reaches the process that holds the pid now.  SIGKILL is never  *)
(* weakened to SIGTERM.                                                    *)
Signal(cs, sig) ==
    signal' = [c \in Children |->
        IF c \in cs /\ Running(c) /\ signal[c] # "kill" THEN sig ELSE signal[c]]

Reap(cs) ==
    /\ life' = [c \in Children |-> IF c \in cs /\ life[c] = "zombie" THEN "gone" ELSE life[c]]
    /\ holder' = [p \in Pids |->
           IF holder[p] \in cs /\ life[holder[p]] = "zombie" THEN Nobody ELSE holder[p]]

(* A program takes a free pid.  Only the pids a command may yet look at    *)
(* matter.                                                                 *)
Listed(p) == p \in pidfile \/ \E k \in Stops : p \in todo[k] \cup signaled[k] \cup {target[k]}

TakePid(p) ==
    /\ holder[p] = Nobody /\ Listed(p)
    /\ holder' = [holder EXCEPT ![p] = Stranger]
    /\ UNCHANGED <<life, signal, at, pidfile, stopVars, faults>>

(* Two children of one role want the same ports: the later one ends.       *)
PortsWanted(role) == {s \in Starts : life[<<s, role>>] = "up"}

FailToBind(c) ==
    /\ life[c] = "up" /\ PortsWanted(c[2]) # {c[1]}
    /\ life' = [life EXCEPT ![c] = "zombie"]
    /\ signal' = [signal EXCEPT ![c] = "none"]
    /\ UNCHANGED <<holder, at, pidfile, stopVars, faults>>

(* A child that was signalled ends; after SIGTERM it may also not. *)
Exit(c) ==
    /\ Running(c) /\ signal[c] # "none"
    /\ life' = [life EXCEPT ![c] = "zombie"]
    /\ signal' = [signal EXCEPT ![c] = "none"]
    /\ UNCHANGED <<holder, at, pidfile, stopVars, faults>>

Fail(c) ==
    /\ Running(c) /\ signal[c] = "none"
    /\ Fault
    /\ life' = [life EXCEPT ![c] = "zombie"]
    /\ UNCHANGED <<holder, signal, at, pidfile, stopVars>>

(* A child whose parent has gone is waited for by init. *)
InitReaps(c) ==
    /\ life[c] = "zombie" /\ at[c[1]] \in {"dead", "failed"}
    /\ Reap({c})
    /\ UNCHANGED <<signal, at, pidfile, stopVars, faults>>

-----------------------------------------------------------------------------
(* echidra start *)

StartAt(s, from, to) == at[s] = from /\ at' = [at EXCEPT ![s] = to]

CheckRunning(s) ==
    /\ StartAt(s, "idle", IF \E p \in pidfile : IsEchidra(p) THEN "refused" ELSE "checked")
    /\ UNCHANGED <<childVars, pidfile, stopVars, faults>>

(* The stale file goes, then the ports are tried: a child that is up may   *)
(* not have bound its own yet.                                             *)
ClearAndCheckPorts(s) ==
    /\ \/ StartAt(s, "checked", "ready")
       \/ (\E r \in Roles : PortsWanted(r) # {}) /\ StartAt(s, "checked", "refused")
    /\ pidfile' = {}
    /\ UNCHANGED <<childVars, stopVars, faults>>

(* Numbers are handed out in increasing order. *)
Launch(s, pidOf) ==
    /\ \A r \in DOMAIN pidOf : holder[pidOf[r]] = Nobody
    /\ holder' = [p \in Pids |->
           IF \E r \in DOMAIN pidOf : pidOf[r] = p
           THEN <<s, CHOOSE r \in DOMAIN pidOf : pidOf[r] = p>> ELSE holder[p]]
    /\ life' = [c \in Children |-> IF c \in {s} \X DOMAIN pidOf THEN "up" ELSE life[c]]

Spawn(s) ==
    /\ StartAt(s, "ready", "spawned")
    /\ \E pidOf \in [Roles -> Pids] : pidOf["honeypot"] < pidOf["api"] /\ Launch(s, pidOf)
    /\ UNCHANGED <<signal, pidfile, stopVars, faults>>

(* The first launch fails; or the second does, and what was started is     *)
(* told to end and not waited for; or the start is killed between the two. *)
SpawnFails(s) ==
    /\ Fault
    /\ \/ /\ StartAt(s, "ready", "failed")
          /\ UNCHANGED childVars
       \/ /\ \E pidOf \in [{"honeypot"} -> Pids] : Launch(s, pidOf)
          /\ \/ /\ StartAt(s, "ready", "failed")
                /\ signal' = [signal EXCEPT ![<<s, "honeypot">>] = "term"]
             \/ StartAt(s, "ready", "dead") /\ UNCHANGED signal
    /\ UNCHANGED <<pidfile, stopVars>>

(* The pids are written and the SIGTERM handler is installed. *)
WritePidFile(s) ==
    /\ StartAt(s, "spawned", "watching")
    /\ pidfile' = PidsOf(s)
    /\ UNCHANGED <<childVars, stopVars, faults>>

(* The loop is over: poll() waits for a child that has ended, and the      *)
(* others are sent SIGTERM.                                                *)
EndBoth(s) ==
    /\ StartAt(s, "watching", "waiting")
    /\ Reap({s} \X Roles)
    /\ Signal({s} \X Roles, "term")
    /\ UNCHANGED <<pidfile, stopVars>>

(* A child has ended... *)
Notice(s) ==
    /\ \E r \in Roles : life[<<s, r>>] = "zombie"
    /\ EndBoth(s)
    /\ UNCHANGED faults

(* ... or the start gets SIGTERM or Ctrl+C... *)
Interrupted(s) == Fault /\ EndBoth(s)

(* ... which ends it on the spot before the handler is installed, as a     *)
(* second Ctrl+C does while it waits.  The children get the Ctrl+C too.    *)
Killed(s) ==
    /\ at[s] \in Live
    /\ Fault
    /\ at' = [at EXCEPT ![s] = "dead"]
    /\ UNCHANGED signal \/ Signal({s} \X Roles, "term")
    /\ UNCHANGED <<holder, life, pidfile, stopVars>>

(* proc.wait(): the child has ended... *)
Wait(s, role) ==
    /\ at[s] = "waiting" /\ life[<<s, role>>] = "zombie"
    /\ Reap({<<s, role>>})
    /\ UNCHANGED <<signal, at, pidfile, stopVars, faults>>

(* Mutant: a child that does not end in time is sent SIGTERM again. *)
WaitTimesOutTerm(s, role) ==
    /\ at[s] = "waiting" /\ life[<<s, role>>] = "up" /\ signal[<<s, role>>] # "kill"
    /\ Signal({<<s, role>>}, "term")
    /\ UNCHANGED <<holder, life, at, pidfile, stopVars, faults>>

(* ... or has not within ten seconds, and is killed. *)
WaitTimesOut(s, role) ==
    /\ at[s] = "waiting" /\ life[<<s, role>>] = "up" /\ signal[<<s, role>>] # "kill"
    /\ Signal({<<s, role>>}, "kill")
    /\ UNCHANGED <<holder, life, at, pidfile, stopVars, faults>>

Unlink(s) ==
    /\ \A r \in Roles : life[<<s, r>>] = "gone"
    /\ StartAt(s, "waiting", "done")
    /\ pidfile' = {}
    /\ UNCHANGED <<childVars, stopVars, faults>>

-----------------------------------------------------------------------------
(* echidra stop *)

StopAt(k, to) == stop' = [stop EXCEPT ![k] = to]

(* Strangers a look has found among the pids the stop still means to       *)
(* signal.                                                                 *)
Look(k, ps) ==
    known' = [known EXCEPT ![k] =
        {p \in @ \cup ps : holder[p] = Stranger} \cap (signaled'[k] \cup {target'[k]})]

ReadPids(k) ==
    /\ stop[k] = "idle"
    /\ StopAt(k, IF pidfile = {} THEN "nothing" ELSE "asking")
    /\ todo' = [todo EXCEPT ![k] = pidfile]
    /\ targets' = [targets EXCEPT ![k] = {holder[p] : p \in {q \in pidfile : IsEchidra(q)}}]
    /\ UNCHANGED <<childVars, at, pidfile, target, signaled, denied, found, known, struck, faults>>

(* The first loop: a pid is looked at... *)
Ask(k, p) ==
    /\ stop[k] = "asking" /\ target[k] = Nobody /\ p \in todo[k]
    /\ target' = [target EXCEPT ![k] = IF IsEchidra(p) THEN p ELSE Nobody]
    /\ found' = [found EXCEPT ![k] = @ \/ IsEchidra(p)]
    /\ todo' = [todo EXCEPT ![k] = @ \ {p}]
    /\ UNCHANGED <<childVars, at, pidfile, stop, signaled, denied, targets, struck, faults>>
    /\ Look(k, {p})

Reached(p) == IF holder[p] \in Children THEN {holder[p]} ELSE {}
MayNot(p)  == \E c \in Reached(p) : c[1] \in Foreign
Strike(k, ps) == struck' = struck \cup {p \in ps \cap known[k] : holder[p] = Stranger}

(* ... and signalled: it may be gone, or another's, by now. *)
SendTerm(k, p) ==
    /\ target[k] = p
    /\ target' = [target EXCEPT ![k] = Nobody]
    /\ denied' = [denied EXCEPT ![k] = IF MayNot(p) THEN @ \cup {p} ELSE @]
    /\ signaled' = [signaled EXCEPT ![k] =
           IF MayNot(p) \/ holder[p] = Nobody THEN @ ELSE @ \cup {p}]
    /\ Signal(IF MayNot(p) THEN {} ELSE Reached(p), "term")
    /\ Strike(k, {p})
    /\ UNCHANGED <<holder, life, at, pidfile, stop, todo, found, targets, known, faults>>

Asked(k) ==
    /\ stop[k] = "asking" /\ target[k] = Nobody /\ todo[k] = {}
    /\ StopAt(k, IF signaled[k] = {} THEN "settling" ELSE "waiting")
    /\ UNCHANGED <<childVars, at, pidfile, todo, target, signaled, denied, found, targets, known, struck,
                   faults>>

(* Mutant: the second loop asks whether the pid is in use, not by whom. *)
RecheckAlive(k) ==
    /\ stop[k] = "waiting"
    /\ LET left == {p \in signaled[k] : holder[p] # Nobody}
       IN  /\ left # signaled[k]
           /\ signaled' = [signaled EXCEPT ![k] = left]
           /\ StopAt(k, IF left = {} THEN "settling" ELSE "waiting")
    /\ UNCHANGED <<childVars, at, pidfile, todo, target, denied, found, targets, struck, faults>>
    /\ Look(k, signaled[k])

(* The second loop drops the pids that are no longer ours... *)
Recheck(k) ==
    /\ stop[k] = "waiting"
    /\ LET left == {p \in signaled[k] : IsEchidra(p)}
       IN  /\ left # signaled[k]
           /\ signaled' = [signaled EXCEPT ![k] = left]
           /\ StopAt(k, IF left = {} THEN "settling" ELSE "waiting")
    /\ UNCHANGED <<childVars, at, pidfile, todo, target, denied, found, targets, struck, faults>>
    /\ Look(k, signaled[k])

(* ... for ten seconds; then what is left is killed. *)
KillRest(k) ==
    /\ stop[k] = "waiting"
    /\ StopAt(k, "settling")
    /\ Signal(UNION {Reached(p) : p \in {q \in signaled[k] : ~MayNot(q)}}, "kill")
    /\ Strike(k, signaled[k])
    /\ UNCHANGED <<holder, life, at, pidfile, todo, target, signaled, denied, found, targets, known,
                   faults>>

(* Mutant: whatever was sent SIGKILL counts as ended. *)
SettleBlind(k) ==
    /\ stop[k] = "settling"
    /\ signaled' = [signaled EXCEPT ![k] = {}]
    /\ StopAt(k, IF denied[k] = {} THEN "unlinking" ELSE "partial")
    /\ UNCHANGED <<childVars, at, pidfile, todo, target, denied, found, targets, known, struck, faults>>

(* The last look decides what is reported. *)
Settle(k) ==
    /\ stop[k] = "settling"
    /\ signaled' = [signaled EXCEPT ![k] = {p \in @ : IsEchidra(p)}]
    /\ StopAt(k, IF denied[k] \cup signaled'[k] = {} THEN "unlinking" ELSE "partial")
    /\ UNCHANGED <<childVars, at, pidfile, todo, target, denied, found, targets, struck, faults>>
    /\ Look(k, signaled[k])

Report(k) ==
    /\ stop[k] = "unlinking"
    /\ pidfile' = {}
    /\ StopAt(k, IF found[k] THEN "stopped" ELSE "nothing")
    /\ UNCHANGED <<childVars, at, todo, target, signaled, denied, found, targets, known, struck, faults>>

-----------------------------------------------------------------------------
System ==
    \/ \E p \in Pids : TakePid(p)
    \/ \E c \in Children : FailToBind(c) \/ Exit(c) \/ Fail(c) \/ InitReaps(c)

Begin(s) == CheckRunning(s) \/ ClearAndCheckPorts(s) \/ Spawn(s) \/ WritePidFile(s)

End(s) ==
    \/ Notice(s) \/ Unlink(s)
    \/ \E r \in Roles : Wait(s, r) \/ WaitTimesOut(s, r)

Interference(s) == SpawnFails(s) \/ Interrupted(s) \/ Killed(s)

StopStep(k) ==
    \/ ReadPids(k) \/ Asked(k) \/ Recheck(k) \/ KillRest(k) \/ Settle(k) \/ Report(k)
    \/ \E p \in Pids : Ask(k, p) \/ SendTerm(k, p)

Next ==
    \/ System
    \/ \E s \in Starts : Begin(s) \/ End(s) \/ Interference(s)
    \/ \E k \in Stops : StopStep(k)

(* A running command goes on, a child's launch leads to its ports or its   *)
(* end, and SIGKILL works.  Nothing makes a child obey SIGTERM, a user run *)
(* a command, or a stranger give a pid back.                               *)
Fairness ==
    /\ \A s \in Starts : WF_vars(End(s))
    /\ \A c \in Children : WF_vars(signal[c] = "kill" /\ Exit(c))
    /\ \A k \in Stops : WF_vars(stop[k] # "idle" /\ StopStep(k))

Spec == Init /\ [][Next]_vars /\ Fairness

-----------------------------------------------------------------------------
(* Properties *)

TypeOK ==
    /\ holder \in [Pids -> Children \cup {Nobody, Stranger}]
    /\ life \in [Children -> {"unborn", "up", "zombie", "gone"}]
    /\ signal \in [Children -> {"none", "term", "kill"}]
    /\ at \in [Starts -> Live \cup {"idle", "refused", "failed", "dead", "done"}]
    /\ pidfile \subseteq Pids
    /\ stop \in [Stops -> {"idle", "asking", "waiting", "settling", "unlinking",
                           "partial", "stopped", "nothing"}]
    /\ target \in [Stops -> Pids \cup {Nobody}]
    /\ todo \in [Stops -> SUBSET Pids] /\ signaled \in [Stops -> SUBSET Pids]
    /\ denied \in [Stops -> SUBSET Pids] /\ found \in [Stops -> BOOLEAN]
    /\ faults \in 0..MaxFaults
    /\ targets \in [Stops -> SUBSET Children] /\ known \in [Stops -> SUBSET Pids]
    /\ struck \subseteq Pids

(* A stop that says Echidra has stopped, or was not running, leaves none   *)
(* of the processes running that it read from the pid file, however they   *)
(* took the signals (_cmd_stop; the types included).                       *)
StopReportsTruth ==
    /\ TypeOK
    /\ \A k \in Stops : stop[k] \in {"stopped", "nothing"} =>
           \A c \in targets[k] : ~Running(c)

(* A stop never signals a process it has looked at and found not to be     *)
(* Echidra's.  A stranger is only ever hit when it gets the pid between    *)
(* the last look and the signal (the re-checks of _cmd_stop).              *)
SparesStrangers == struck = {}

(* A start that watches over its children ends both when one of them ends, *)
(* even one that ignores SIGTERM, unless the start itself is killed first. *)
EndsTogether ==
    \A s \in Starts :
        (at[s] = "watching" /\ \E r \in Roles : life[<<s, r>>] = "zombie")
            ~> (at[s] = "dead" \/ \A r \in Roles : life[<<s, r>>] = "gone")

=============================================================================
