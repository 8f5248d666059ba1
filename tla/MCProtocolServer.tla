--------------------------- MODULE MCProtocolServer ---------------------------
(* Small instances of ProtocolServer for TLC: one connection of each kind. *)
EXTENDS ProtocolServer

CONSTANTS telnet, ftp, http

MCKindOf ==
    [c \in Conns |-> CASE c = telnet -> "telnet" [] c = ftp -> "ftp" [] OTHER -> "http"]
=============================================================================
