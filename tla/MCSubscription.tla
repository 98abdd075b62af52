--------------------------- MODULE MCSubscription ---------------------------
(* Instances of Subscription for TLC. *)
EXTENDS Subscription, TLC

CONSTANTS i1, i2, v1, v2, null

OneItem  == {i1}
TwoItems == {i1, i2}
TwoValues == {v1, v2}
SeesAll(v) == v
SeesNoStatus(v) == "data"
ReportingOnly == {"Reporting"}
EveryMode == {"Reporting", "Sampling", "Disabled"}

(* Items and values are interchangeable where no liveness is checked:      *)
(* Subscription_reporting uses Symmetry, Subscription_modes, with one item,*)
(* ValueSymmetry; the other runs use none.                                 *)
Symmetry == Permutations(TwoItems) \cup Permutations(TwoValues)
ValueSymmetry == Permutations(TwoValues)
=============================================================================
