--------------------------- MODULE MCPublishQueue ---------------------------
(* Instances of PublishQueue for TLC. *)
EXTENDS PublishQueue

CONSTANTS r1, r2, s1, s2, none

TwoRequests == {r1, r2}
TwoSubscriptions == {s1, s2}
TwoPriorities == {1, 2}
=============================================================================
