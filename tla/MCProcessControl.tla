--------------------------- MODULE MCProcessControl ---------------------------
(* Instances of ProcessControl for TLC. *)
EXTENDS ProcessControl
CONSTANTS s1, s2, k1
=============================================================================
