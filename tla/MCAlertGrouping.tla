--------------------------- MODULE MCAlertGrouping ---------------------------
(* Small instances of AlertGrouping for TLC: every session may be of any   *)
(* group.                                                                  *)
EXTENDS AlertGrouping

MCKeysOf == [s \in Sessions |-> Keys]
=============================================================================
