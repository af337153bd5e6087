--------------------------- MODULE MCSchedulePlan ---------------------------
(* Instances of SchedulePlan.  The altitudes lie on both sides of a minimum   *)
(* of 15 degrees and of the halves at which round() turns.                    *)
EXTENDS SchedulePlan

MCAlts == {-10, 145, 149, 151, 156}
=============================================================================
