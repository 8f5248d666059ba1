----------------------------- MODULE MCSshServer -----------------------------
(* Small instances of SshServer for TLC: two channels over the first       *)
(* connection, one over the second.                                        *)
EXTENDS SshServer

CONSTANTS c1, c2, c3, h1, h2, h3

MCConnOf == [h \in Channels |-> IF h = h3 THEN c2 ELSE c1]
=============================================================================
