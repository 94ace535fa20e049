---------------------------- MODULE MCTimekeeping ----------------------------
(* Clock settings for the configurations of Timekeeping. *)
EXTENDS Timekeeping

NoJumps == {}
BackAndForth == {-3, 2}
=============================================================================
