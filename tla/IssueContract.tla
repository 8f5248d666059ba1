---------------------------- MODULE IssueContract ----------------------------
(***************************************************************************)
(* What the roll-up of runs into issues promises, whichever processes run  *)
(* passes, however they overlap and wherever they are aborted: a stored    *)
(* run waits until a commit rolls it up, and that commit puts it in the    *)
(* issue of each of its pairs; an issue, once there, is never taken away,  *)
(* and one of the classifier never loses a session or risk and reopens     *)
(* exactly when it gains a session.  Only the shared issue may be handed   *)
(* to the repeat-connection check and back, and comes back with every run  *)
(* of its pair that was rolled up meanwhile.                               *)
(***************************************************************************)
EXTENDS Naturals

CONSTANTS Runs, Sessions, Pairs, Shared, SessionOf, PairsOf, RankOf

VARIABLES
    waiting,   \* stored runs that no commit has rolled up yet
    rolled,    \* runs that were rolled up
    owner,     \* whose each issue is: "none", "classifier" or "repeat"
    sessions,  \* the sessions it links
    risk,      \* its highest risk
    triage     \* its status

issue == <<owner, sessions, risk, triage>>
vars == <<waiting, rolled, issue>>

Init ==
    /\ waiting \in SUBSET Runs
    /\ rolled = {}
    /\ owner = [p \in Pairs |-> "none"]
    /\ sessions = [p \in Pairs |-> {}]
    /\ risk = [p \in Pairs |-> 0]
    /\ triage = [p \in Pairs |-> "open"]

(* The runs of R that are in a pair, and their sessions. *)
OfPair(R, p) == {r \in R : p \in PairsOf[r]}
SessionsOf(R, p) == {SessionOf[r] : r \in OfPair(R, p)}

Arrive(r) ==
    /\ r \notin waiting \cup rolled
    /\ waiting' = waiting \cup {r}
    /\ UNCHANGED <<rolled, issue>>

(* The analyst opens or closes an issue. *)
Decide(p, new) ==
    /\ owner[p] # "none"
    /\ triage' = [triage EXCEPT ![p] = new]
    /\ UNCHANGED <<waiting, rolled, owner, sessions, risk>>

-----------------------------------------------------------------------------
(* What a commit may do to one issue. *)
Untouched(p) ==
    /\ owner'[p] = owner[p] /\ sessions'[p] = sessions[p]
    /\ risk'[p] = risk[p] /\ triage'[p] = triage[p]

(* A new issue, or more sessions and risk for one of the classifier. *)
Grows(p) ==
    /\ owner[p] \in {"none", "classifier"} /\ owner'[p] = "classifier"
    /\ sessions[p] \subseteq sessions'[p]
    /\ owner[p] = "classifier" => risk'[p] >= risk[p]
    /\ triage'[p] = IF sessions'[p] = sessions[p] THEN triage[p] ELSE "open"

(* The check of repeated connections counts by other rules than the        *)
(* classifier: when an issue changes hands its sessions are exchanged, and *)
(* it is reopened at most for a session that is new to it.                 *)
ReopenedForNews(p) ==
    \/ triage'[p] = triage[p]
    \/ triage'[p] = "open" /\ ~(sessions'[p] \subseteq sessions[p])

Returns(p) ==
    /\ owner[p] = "repeat" /\ owner'[p] = "classifier"
    /\ ReopenedForNews(p)

Taken(p) ==
    /\ p = Shared /\ owner'[p] = "repeat"
    /\ risk'[p] = risk[p]
    /\ ReopenedForNews(p)

(* An issue the classifier has written links sessions of stored runs of    *)
(* its pair only, and the risk is that of one of them; it covers every run *)
(* that was rolled up.                                                     *)
Sound(p) ==
    /\ sessions'[p] \subseteq SessionsOf(waiting' \cup rolled', p)
    /\ \E r \in OfPair(waiting' \cup rolled', p) : risk'[p] = RankOf[r]
    /\ \A r \in OfPair(rolled', p) : SessionOf[r] \in sessions'[p] /\ risk'[p] >= RankOf[r]

(* Only an issue of the repeat-connection check may be left as it is by a  *)
(* commit that rolls up a run of its pair.                                 *)
RollUp(R) ==
    /\ waiting' = waiting \ R
    /\ rolled' = rolled \cup R
    /\ \A p \in Pairs :
          \/ Untouched(p) /\ (OfPair(R, p) = {} \/ owner[p] = "repeat")
          \/ (Grows(p) \/ Returns(p)) /\ Sound(p)

TakeOver ==
    /\ UNCHANGED <<waiting, rolled>>
    /\ \A p \in Pairs : Untouched(p) \/ Taken(p)

Next ==
    \/ \E r \in Runs : Arrive(r)
    \/ \E p \in Pairs, new \in {"open", "closed"} : Decide(p, new)
    \/ \E R \in SUBSET waiting : RollUp(R)
    \/ TakeOver

Spec == Init /\ [][Next]_vars
=============================================================================
