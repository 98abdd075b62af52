--------------------------- MODULE MCSessionTable ---------------------------
(* Instances of SessionTable for TLC. *)
EXTENDS SessionTable

CONSTANTS s1, s2, c1, c2, none

TwoSessions == {s1, s2}
TwoChannels == {c1, c2}
=============================================================================
