----------------------------- MODULE MCIssueSync -----------------------------
(* Small instances of IssueSync for TLC: two runs of one session with      *)
(* different risks, and one of another session from the same source IP.    *)
EXTENDS IssueSync

CONSTANTS r1, r2, r3, s1, s2, s3, shared, ip

MCSessionOf == [r \in Runs |-> IF r = r3 THEN s2 ELSE s1]
MCRankOf    == [r \in Runs |-> CASE r = r1 -> 3 [] r = r2 -> 1 [] OTHER -> 2]
MCIpOf      == [s \in Sessions |-> ip]

(* Three sessions with one run each, all of the shared pair. *)
MCSessionOwn == [r \in Runs |-> CASE r = r1 -> s1 [] r = r2 -> s2 [] OTHER -> s3]
MCPairsShared == [r \in Runs |-> {shared}]
=============================================================================
