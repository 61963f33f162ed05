------------------------------ MODULE MCStats -------------------------------
(***************************************************************************)
(* What STATS answers: two trips of a user, and the calendar of the client *)
(* that asks.  The distance and the gap are the code's: 5 m and 90 s.      *)
(***************************************************************************)
EXTENDS Tracker, Calendar

MCYears == 1970..2110

\* The dates of these years are right (CalendarRight): a fact about constants,
\* which TLC is asked once, in the initial state.
DatesRight == rows = {} => CalendarRight
=============================================================================
