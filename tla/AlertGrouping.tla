---------------------------- MODULE AlertGrouping ----------------------------
(***************************************************************************)
(* How repeated alerts are held back and counted: the window kept for each *)
(* (persona, source address, lead technique), the follow-up timer of a     *)
(* window that holds something back, and the levels each session has       *)
(* already alerted at (classifier/alerts.py).                              *)
(*                                                                         *)
(* Alerts come from several threads: classifier workers, the live          *)
(* classifier of an SSH session still open, the API, and the timers.  The  *)
(* decision is taken under _grouping_lock and is one step; the settings    *)
(* read before it and the message sent after it are steps of their own.    *)
(* Time is the age of each window, in ticks; an age stops at the window's  *)
(* length, beyond which the code no longer tells ages apart.               *)
(***************************************************************************)
EXTENDS Integers, Sequences, FiniteSets, FiniteSetsExt, SequencesExt

CONSTANTS Sessions,   \* session ids
          Keys,       \* group keys: persona, source address, technique
          KeysOf,     \* the keys the classifications of a session may have
          Ranks,      \* risk ranks at or above the alert threshold
          Callers,    \* threads that call _maybe_send_alert
          Timers,     \* threading.Timer objects; bound: alive at one time
          Window,     \* _repeat_window_seconds, in ticks; 0 sends everything
          PruneEvery, \* _PRUNE_INTERVAL_SECONDS, in ticks
          MaxTracked, \* _MAX_TRACKED_SESSIONS
          NoGroup,    \* no entry in _alert_groups
          NoTimer,    \* a group's timer is None
          MaxHeld,    \* bound: sessions held back in a window
          MaxExits    \* bound: stops of the process

Critical == 4
NoRank   == -1   \* not in _alerted_session_ranks

Groups ==
    [age : 0..Window, rank : Ranks, held : 0..MaxHeld, latest : Ranks \cup {NoRank},
     timer : Timers \cup {NoTimer}]

ASSUME AlertConstants ==
    /\ KeysOf \in [Sessions -> SUBSET Keys]
    /\ Ranks \subseteq 0..4
    /\ Window \in Nat /\ PruneEvery \in Nat \ {0} /\ MaxTracked \in Nat \ {0}
    /\ MaxHeld \in Nat \ {0} /\ MaxExits \in Nat
    /\ NoTimer \notin Timers /\ NoGroup \notin Groups
    /\ IsFiniteSet(Sessions) /\ IsFiniteSet(Callers) /\ IsFiniteSet(Timers)

VARIABLES
    group,       \* _alert_groups
    seen,        \* the ranks of _alerted_session_ranks
    order,       \* its sessions, the oldest entry first
    sincePrune,  \* the age of _last_pruned_at
    call,        \* what each caller is doing
    timer,       \* what each timer thread is doing
    outstanding, \* history: per key, alerts held back and not yet reported or dropped
    alerted,     \* history: the highest rank each session was sent an alert for
    exits        \* stops so far

vars == <<group, seen, order, sincePrune, call, timer, outstanding, alerted, exits>>

-----------------------------------------------------------------------------
(* _AlertGroup(opened_at=now, rank=rank). *)
NewGroup(rank) ==
    [age |-> 0, rank |-> rank, held |-> 0, latest |-> NoRank, timer |-> NoTimer]

IdleCall  == [at |-> "idle"]
DeadTimer == [at |-> "dead"]

(* A classification of a session, as _maybe_send_alert is given it. *)
Events == {e \in [session : Sessions, key : Keys, rank : Ranks] : e.key \in KeysOf[e.session]}

Init ==
    /\ group = [k \in Keys |-> NoGroup]
    /\ seen = [s \in Sessions |-> NoRank]
    /\ order = <<>>
    /\ sincePrune = PruneEvery
    /\ call = [c \in Callers |-> IdleCall]
    /\ timer = [t \in Timers |-> DeadTimer]
    /\ outstanding = [k \in Keys |-> 0]
    /\ alerted = [s \in Sessions |-> NoRank]
    /\ exits = 0

Alive(t) == timer[t].at # "dead"

(* timer.cancel() stops a timer that is still waiting.  One whose wait is  *)
(* over runs _send_follow_up all the same.                                 *)
Cancel(t) == IF t # NoTimer /\ timer[t].at = "waiting" THEN [timer EXCEPT ![t] = DeadTimer]
             ELSE timer

-----------------------------------------------------------------------------
(* _maybe_send_alert up to the decision: the alert settings let this       *)
(* session alert.  When they do not, or cannot be read, nothing happens.   *)
Call(c, e) ==
    /\ call[c] = IdleCall
    /\ call' = [call EXCEPT ![c] = [at |-> "decide", event |-> e]]
    /\ UNCHANGED <<group, seen, order, sincePrune, timer, outstanding, alerted, exits>>

(* The groups left by the pruning at the head of a decision. *)
Stale(k) == group[k] # NoGroup /\ group[k].timer = NoTimer /\ group[k].age >= Window

(* Mutant: pruning also deletes windows that still hold something back. *)
PrunedHeldToo ==
    IF sincePrune >= PruneEvery
    THEN [k \in Keys |-> IF group[k] # NoGroup /\ group[k].age >= Window THEN NoGroup
                         ELSE group[k]]
    ELSE group

Pruned == IF sincePrune >= PruneEvery
          THEN [k \in Keys |-> IF Stale(k) THEN NoGroup ELSE group[k]]
          ELSE group

(* Mutant: the level itself is let through again. *)
AlreadyAlertedBelow(e) == seen[e.session] # NoRank /\ e.rank < seen[e.session]

(* A session alerts once per level. *)
AlreadyAlerted(e) == seen[e.session] # NoRank /\ e.rank <= seen[e.session]

DropRepeat(c) ==
    /\ call[c].at = "decide"
    /\ AlreadyAlerted(call[c].event)
    /\ call' = [call EXCEPT ![c] = IdleCall]
    /\ UNCHANGED <<group, seen, order, sincePrune, timer, outstanding, alerted, exits>>

(* The session's rank is recorded as the newest entry; the oldest entries  *)
(* beyond the limit are forgotten.                                         *)
Place(s)   == CHOOSE i \in 1..Len(order) : order[i] = s
Newest(s)  == Append(IF seen[s] = NoRank THEN order ELSE RemoveAt(order, Place(s)), s)
Latest(sq) == IF Len(sq) <= MaxTracked THEN sq
              ELSE SubSeq(sq, Len(sq) - MaxTracked + 1, Len(sq))

Track(e) ==
    /\ order' = Latest(Newest(e.session))
    /\ seen' = [s \in Sessions |-> IF s \notin ToSet(order') THEN NoRank
                                   ELSE IF s = e.session THEN e.rank ELSE seen[s]]

(* The first of its window, a higher level than the window was opened for, *)
(* or critical: it goes out at once.                                       *)
GoesOut(g, rank) ==
    Window > 0 /\ g # NoGroup => g.age >= Window \/ rank > g.rank \/ rank = Critical

(* The count a new alert takes over from the window it closes. *)
Repeats(g) == IF g = NoGroup THEN 0 ELSE g.held

PruneNow == sincePrune' = IF sincePrune >= PruneEvery /\ Window > 0 THEN 0 ELSE sincePrune

Alert(c) ==
    LET e == call[c].event
        g == Pruned[e.key]
    IN  /\ call[c].at = "decide"
        /\ ~AlreadyAlerted(e)
        /\ GoesOut(g, e.rank)
        /\ Track(e)
        /\ PruneNow
        /\ group' = IF Window = 0 THEN group ELSE [Pruned EXCEPT ![e.key] = NewGroup(e.rank)]
        /\ timer' = IF g = NoGroup THEN timer ELSE Cancel(g.timer)
        /\ call' = [call EXCEPT ![c] = [at |-> "send", event |-> e, repeats |-> Repeats(g)]]
        /\ UNCHANGED <<outstanding, alerted, exits>>

(* Mutant: no timer is started when the window is nearly over. *)
StartsTimerEarly(g) == g.timer = NoTimer /\ g.age + 1 < Window

(* Held back and counted.  The first one starts the timer of the window. *)
StartsTimer(g) == g.timer = NoTimer

Held(g, e, t) ==
    [g EXCEPT !.held = @ + 1, !.latest = e.rank, !.timer = t]

Hold(c) ==
    LET e == call[c].event
        g == Pruned[e.key]
    IN  /\ call[c].at = "decide"
        /\ ~AlreadyAlerted(e)
        /\ ~GoesOut(g, e.rank)
        /\ g.held < MaxHeld
        /\ Track(e)
        /\ PruneNow
        /\ \/ /\ ~StartsTimer(g)
              /\ group' = [Pruned EXCEPT ![e.key] = Held(g, e, g.timer)]
              /\ UNCHANGED timer
           \/ \E t \in Timers :
              /\ StartsTimer(g) /\ ~Alive(t)
              /\ group' = [Pruned EXCEPT ![e.key] = Held(g, e, t)]
              /\ timer' = [timer EXCEPT ![t] = [at |-> "waiting", key |-> e.key,
                                                left |-> Window - g.age]]
        /\ outstanding' = [outstanding EXCEPT ![e.key] = @ + 1]
        /\ call' = [call EXCEPT ![c] = IdleCall]
        /\ UNCHANGED <<alerted, exits>>

(* _dispatch_alerts, outside the lock: sent or failed, it is recorded and  *)
(* not tried again.                                                        *)
Dispatch(c) ==
    LET e == call[c].event IN
    /\ call[c].at = "send"
    /\ outstanding' = [outstanding EXCEPT ![e.key] = @ - call[c].repeats]
    /\ alerted' = [alerted EXCEPT ![e.session] = Max({@, e.rank})]
    /\ call' = [call EXCEPT ![c] = IdleCall]
    /\ UNCHANGED <<group, seen, order, sincePrune, timer, exits>>

-----------------------------------------------------------------------------
(* The wait of a timer is over: its thread goes on to _send_follow_up. *)
TimerEnds(t) ==
    /\ timer[t].at = "waiting" /\ timer[t].left = 0
    /\ timer' = [timer EXCEPT ![t] = [at |-> "fired", key |-> @.key]]
    /\ UNCHANGED <<group, seen, order, sincePrune, call, outstanding, alerted, exits>>

(* _send_follow_up, first half: nothing is held back under this key... *)
NothingHeld(k) == group[k] # NoGroup => group[k].held = 0

FollowUpEmpty(t) ==
    /\ timer[t].at = "fired"
    /\ NothingHeld(timer[t].key)
    /\ timer' = [timer EXCEPT ![t] = DeadTimer]
    /\ UNCHANGED <<group, seen, order, sincePrune, call, outstanding, alerted, exits>>

(* Mutant: the count is read under the lock and cleared after the send. *)
FollowUpClearsLater(t) ==
    LET k == timer[t].key IN
    /\ timer[t].at = "fired"
    /\ ~NothingHeld(k)
    /\ timer' = [timer EXCEPT ![t] = [at |-> "targets", key |-> k, repeats |-> group[k].held]]
    /\ UNCHANGED <<group, seen, order, sincePrune, call, outstanding, alerted, exits>>

(* ... or the count is taken, and a new window opened, under the lock. *)
FollowUp(t) ==
    LET k == timer[t].key IN
    /\ timer[t].at = "fired"
    /\ ~NothingHeld(k)
    /\ timer' = [timer EXCEPT ![t] = [at |-> "targets", key |-> k, repeats |-> group[k].held]]
    /\ group' = [group EXCEPT ![k] = NewGroup(@.rank)]
    /\ UNCHANGED <<seen, order, sincePrune, call, outstanding, alerted, exits>>

(* Second half: the settings are read again.  The message is dispatched,   *)
(* or the settings no longer allow it, or they cannot be read: either way  *)
(* the count is gone.                                                      *)
FollowUpDone(t) ==
    LET k == timer[t].key IN
    /\ timer[t].at = "targets"
    /\ outstanding' = [outstanding EXCEPT ![k] = @ - timer[t].repeats]
    /\ timer' = [timer EXCEPT ![t] = DeadTimer]
    /\ UNCHANGED <<group, seen, order, sincePrune, call, alerted, exits>>

-----------------------------------------------------------------------------
(* Time passes: every window and every timer grows older by one tick. *)
Older(age, limit) == Min({age + 1, limit})

Tick ==
    /\ group' = [k \in Keys |-> IF group[k] = NoGroup THEN NoGroup
                                ELSE [group[k] EXCEPT !.age = Older(@, Window)]]
    /\ sincePrune' = Older(sincePrune, PruneEvery)
    /\ timer' = [t \in Timers |-> IF timer[t].at = "waiting"
                                  THEN [timer[t] EXCEPT !.left = Max({@ - 1, 0})]
                                  ELSE timer[t]]
    /\ UNCHANGED <<seen, order, call, outstanding, alerted, exits>>

(* The process stops: windows, counts and timers (daemon threads) are      *)
(* memory only, and so is what a session has alerted at.                   *)
Exit ==
    /\ exits < MaxExits
    /\ exits' = exits + 1
    /\ group' = [k \in Keys |-> NoGroup]
    /\ seen' = [s \in Sessions |-> NoRank]
    /\ order' = <<>>
    /\ sincePrune' = PruneEvery
    /\ call' = [c \in Callers |-> IdleCall]
    /\ timer' = [t \in Timers |-> DeadTimer]
    /\ outstanding' = [k \in Keys |-> 0]
    /\ alerted' = [s \in Sessions |-> NoRank]

CallerStep(c) == DropRepeat(c) \/ Alert(c) \/ Hold(c) \/ Dispatch(c)

TimerStep(t) == TimerEnds(t) \/ FollowUpEmpty(t) \/ FollowUp(t) \/ FollowUpDone(t)

Next ==
    \/ \E c \in Callers : (\E e \in Events : Call(c, e)) \/ CallerStep(c)
    \/ \E t \in Timers : TimerStep(t)
    \/ Tick
    \/ Exit

Spec == Init /\ [][Next]_vars

(* Time passes, and a timer thread whose wait is over gets the lock: no    *)
(* thread waits for anything while it holds it.                            *)
FairSpec == Spec /\ WF_vars(Tick) /\ \A t \in Timers : WF_vars(TimerStep(t))

-----------------------------------------------------------------------------
Calls ==
    {IdleCall} \cup [at : {"decide"}, event : Events]
               \cup [at : {"send"}, event : Events, repeats : 0..MaxHeld]

TimerStates ==
    {DeadTimer} \cup [at : {"waiting"}, key : Keys, left : 0..Window]
                \cup [at : {"fired"}, key : Keys]
                \cup [at : {"targets"}, key : Keys, repeats : 0..MaxHeld]

(* Type of the state.  The tracked sessions are exactly those with a rank, *)
(* each listed once, never more than _MAX_TRACKED_SESSIONS.                *)
TypeOK ==
    /\ group \in [Keys -> Groups \cup {NoGroup}]
    /\ seen \in [Sessions -> Ranks \cup {NoRank}]
    /\ order \in Seq(Sessions) /\ Len(order) <= MaxTracked
    /\ IsInjective(order)
    /\ ToSet(order) = {s \in Sessions : seen[s] # NoRank}
    /\ sincePrune \in 0..PruneEvery
    /\ call \in [Callers -> Calls] /\ timer \in [Timers -> TimerStates]
    /\ outstanding \in [Keys -> Nat]
    /\ alerted \in [Sessions -> Ranks \cup {NoRank}]
    /\ exits \in 0..MaxExits

(* A window that holds sessions back always has a live timer of its own,   *)
(* due when the window ends: no count can be stranded, whichever timers    *)
(* were cancelled too late or left behind by a window closed early         *)
(* (_alert_decision, _send_follow_up).  And nothing urgent is among them:  *)
(* "A higher risk level, or a critical session, always alerts at once"     *)
(* (docs/DEPLOYMENT.md).                                                   *)
HeldHasTimer ==
  /\ TypeOK
  /\ \A k \in Keys : group[k] # NoGroup /\ group[k].held > 0 =>
        LET t == group[k].timer IN
        /\ group[k].latest <= group[k].rank /\ group[k].latest < Critical
        /\ t # NoTimer
        /\ timer[t].at \in {"waiting", "fired"}
        /\ timer[t].key = k
        /\ timer[t].at = "waiting" => timer[t].left = Window - group[k].age

(* One element for each repeat the messages of some threads tell of. *)
Told(threads, repeats) == UNION {{x} \X (1..repeats[x]) : x \in threads}

Sending(k) == {c \in Callers : call[c].at = "send" /\ call[c].event.key = k}
Telling(k) == {t \in Timers : timer[t].at = "targets" /\ timer[t].key = k}

InFlight(k) ==
    Cardinality(Told(Sending(k), [c \in Sending(k) |-> call[c].repeats]))
    + Cardinality(Told(Telling(k), [t \in Telling(k) |-> timer[t].repeats]))

(* Everything held back is counted once: what has not been reported is     *)
(* exactly what the current window holds plus what messages on their way   *)
(* say, with alerts and timers racing for the same window.                 *)
CountExact ==
    \A k \in Keys :
        outstanding[k] = InFlight(k) + (IF group[k] = NoGroup THEN 0 ELSE group[k].held)

(* With no more sessions than are tracked, the live classifier, the        *)
(* end-of-session classification and the API, deciding in any order, never *)
(* send two alerts for a session at one level, nor one at a lower level    *)
(* than an alert already sent or on its way.                               *)
OncePerLevel ==
    [][\A c \in Callers :
         call[c].at = "decide" /\ call'[c].at = "send" =>
            LET e == call[c].event IN
            /\ e.rank > alerted[e.session]
            /\ \A d \in Callers \ {c} :
                 call[d].at = "send" /\ call[d].event.session = e.session =>
                     call[d].event.rank < e.rank]_vars

(* What a window holds back leaves it: reported by its follow-up or by an  *)
(* alert that goes out first.                                              *)
HeldIsReported ==
    \A k \in Keys : (group[k] # NoGroup /\ group[k].held > 0)
                    ~> (group[k] = NoGroup \/ group[k].held = 0)
=============================================================================
