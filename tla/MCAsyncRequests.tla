--------------------------- MODULE MCAsyncRequests ---------------------------
(* Instances of AsyncRequests for TLC. *)
EXTENDS AsyncRequests

CONSTANTS r1, r2, r3, none

ThreeRequests == {r1, r2, r3}
ThreeKinds == {"Read", "HistoryRead", "Call"}
=============================================================================
