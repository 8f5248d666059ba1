------------------------- MODULE MCDashboardAccounts -------------------------
(* Instances of DashboardAccounts for TLC. *)
EXTENDS DashboardAccounts, TLC
CONSTANTS w1, w2, r1, r2, e1, e2, p1, p2
Symmetry == Permutations(Workers) \cup Permutations(Requests) \cup Permutations(Emails)
            \cup Permutations(Passwords)
=============================================================================
