----------------------------- MODULE MCTracker ------------------------------
(***************************************************************************)
(* Two trips of a user, with a minute between two samples of either.       *)
(* Distances and times are the code's, a tolerance of 5 m and a gap of 90 s,*)
(* so that a sample left out of the rows makes a gap.                      *)
(***************************************************************************)
EXTENDS Tracker
=============================================================================
