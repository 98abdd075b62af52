--------------------------- MODULE MCVPIScheduler ---------------------------
(* Instances of VPIScheduler for TLC. *)
EXTENDS VPIScheduler

CONSTANTS a, b

TwoValues == {a, b}
=============================================================================
