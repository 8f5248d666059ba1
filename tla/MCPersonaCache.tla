---------------------------- MODULE MCPersonaCache ----------------------------
(* Instances of PersonaCache for TLC. *)
EXTENDS PersonaCache
CONSTANTS t1, t2, boot
=============================================================================
