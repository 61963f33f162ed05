--------------------------- MODULE MovementStats ----------------------------
(***************************************************************************)
(* The figures of STATS: trajectory_for_user and compute_movement_stats    *)
(* (db/src/lib.rs).                                                        *)
(*                                                                         *)
(* The positions table of one user is a set of rows                        *)
(* [trip, ts, at, stopped]; its primary key (trip, ts) makes the order of  *)
(* the query total.  Times are in seconds.                                 *)
(***************************************************************************)
EXTENDS Metric, FiniteSets, Functions

CONSTANT MaxGap   \* MAX_SAMPLE_GAP_SECS

ASSUME MaxGapIsTime == MaxGap \in Nat

\* Mutant: the order of the query is by time alone.
BeforeInTime(r, s) == r.ts < s.ts \/ (r.ts = s.ts /\ r.trip < s.trip)

\* ORDER BY trip_id, ts.
Before(r, s) == r.trip < s.trip \/ (r.trip = s.trip /\ r.ts < s.ts)

\* windows(2) of the rows in that order.
Windows(rows) == {w \in rows \X rows :
  /\ Before(w[1], w[2])
  /\ ~\E r \in rows : Before(w[1], r) /\ Before(r, w[2])}

Span(w) == w[2].ts - w[1].ts

\* The windows that count: within one trip, and neither backwards nor longer
\* than a credible gap.
Counted(rows) == {w \in Windows(rows) : w[1].trip = w[2].trip /\ Span(w) \in 1..MaxGap}

IsPause(w) == w[2].stopped \/ Near(w[1].at, w[2].at)

Seconds(W) == SumFunction([w \in W |-> Span(w)])

Meters(W) == SumFunction([w \in W |-> Distance(w[1].at, w[2].at)])

\* Mutant: the query has no lower end.
UpTo(rows, from, to) == {r \in rows : r.ts \in 0..to}

\* WHERE p.ts >= from AND p.ts <= to.
Between(rows, from, to) == {r \in rows : r.ts \in from..to}

\* The answer to an interval that ends before it begins: an error, no figures.
Refused == [error |-> "invalid time interval"]

\* compute_movement_stats on the rows of an interval; the average speed is
\* the quotient of two of its figures and is left out.
Stats(rows, from, to) ==
  LET counted == Counted(Between(rows, from, to))
      moves == {w \in counted : ~IsPause(w)}
  IN  IF from > to
      THEN Refused
      ELSE [distance |-> Meters(moves),
            movement |-> Seconds(moves),
            pause |-> Seconds(counted \ moves),
            total |-> Seconds(counted)]
=============================================================================
