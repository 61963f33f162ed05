------------------------------- MODULE Metric -------------------------------
(***************************************************************************)
(* Where vehicles are.  Places are points of a line, in meters, so that    *)
(* haversine_m (db/src/lib.rs, sim/src/lib.rs) is a difference.            *)
(***************************************************************************)
EXTENDS Integers

CONSTANT Eps   \* MOVEMENT_EPS_METERS

ASSUME EpsIsDistance == Eps \in Nat

\* haversine_m.
Distance(p, q) == IF p < q THEN q - p ELSE p - q

\* coords_equal.
Near(p, q) == Distance(p, q) <= Eps
=============================================================================
