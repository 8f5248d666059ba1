---------------------------- MODULE SessionCustody ----------------------------
(***************************************************************************)
(* What the capture pipeline promises about a finished session, whatever   *)
(* the queue, the workers, the files and the database do: it is taken into *)
(* memory or refused at once; from memory it is stored, moved to disk or   *)
(* left to the session log on purpose, and only a kill takes it away       *)
(* unnoticed; on disk it survives kills, and leaves only stored or on      *)
(* purpose; a stored session stays stored.                                 *)
(***************************************************************************)
CONSTANT Sessions

VARIABLES custody,   \* where each session is
          reported   \* sessions the code has left to the session log

vars == <<custody, reported>>

Places == {"open", "memory", "disk", "stored", "dropped"}

In(place) == {s \in Sessions : custody[s] = place}

(* The sessions of S go to a place; all others stay where they are. *)
Move(S, place) == custody' = [s \in Sessions |-> IF s \in S THEN place ELSE custody[s]]

Init ==
    /\ custody = [s \in Sessions |-> "open"]
    /\ reported = {}

Accept(s) == s \in In("open") /\ Move({s}, "memory") /\ UNCHANGED reported

Refuse(s) == s \in In("open") /\ Move({s}, "dropped") /\ reported' = reported \cup {s}

Store(s) ==
    /\ s \in In("memory") \cup In("disk") \cup In("dropped")
    /\ Move({s}, "stored")
    /\ UNCHANGED reported

Keep(S) == S \subseteq In("memory") /\ Move(S, "disk") /\ UNCHANGED reported

(* Left to the session log: the message may be about stored sessions too,  *)
(* which stay where they are.                                              *)
GiveUp(S) ==
    /\ S \subseteq In("memory") \cup In("stored")
    /\ Move(S \cap In("memory"), "dropped")
    /\ reported' = reported \cup S

(* A message about a session that is in custody changes nothing else. *)
Report(S) == S \subseteq Sessions \ In("open") /\ reported' = reported \cup S /\ UNCHANGED custody

Retire(S) == S \subseteq In("disk") \cap reported /\ Move(S, "dropped") /\ UNCHANGED reported

Kill == Move(In("memory"), "dropped") /\ UNCHANGED reported

Next ==
    \/ \E s \in Sessions : Accept(s) \/ Refuse(s) \/ Store(s)
    \/ \E S \in SUBSET Sessions : Keep(S) \/ GiveUp(S) \/ Report(S) \/ Retire(S)
    \/ Kill

Spec == Init /\ [][Next]_vars
=============================================================================
