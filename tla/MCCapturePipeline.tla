-------------------------- MODULE MCCapturePipeline --------------------------
(* Small instances of CapturePipeline for TLC. *)
EXTENDS CapturePipeline, TLC

(* Sessions are interchangeable, and so are workers. *)
Interchangeable == Permutations(Sessions) \cup Permutations(Workers)
=============================================================================
