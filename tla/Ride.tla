-------------------------------- MODULE Ride --------------------------------
(***************************************************************************)
(* A trip of the map page: the simulated vehicle, the page's timer that    *)
(* sends its position every SEND_SECS (web/index.html), and the pause      *)
(* detector of the server that gets these positions                        *)
(* (server/src/trips/mod.rs).                                              *)
(*                                                                         *)
(* A call of the timer advances the vehicle (Frame and the walk that       *)
(* follows) and then sends a position if it is time (Sample).  The         *)
(* detector is that of Tracker.tla, with the connection and the rows left  *)
(* out: every position arrives and is recorded.                            *)
(***************************************************************************)
EXTENDS Simulator

CONSTANTS Period,     \* SEND_SECS
          Threshold   \* STOP_THRESHOLD_SAMPLES

ASSUME PeriodPositive == Period \in Nat \ {0}
\* The timer fires more often than it sends (ANIM_MS, TIME_SCALE).
ASSUME TicksFit == Ticks \subseteq 1..Period
ASSUME ThresholdPositive == Threshold \in Nat \ {0}

VARIABLES due,        \* seconds the frame in progress has advanced, or None
          sinceSend,  \* seconds since the last position
          anchor, n, inserted,   \* CoordState of the trip
          still       \* seconds the vehicle has been in the pause (history)

detector == <<anchor, n, inserted>>
vars == <<simvars, due, sinceSend, detector, still>>

RideTypeOK == /\ TypeOK
              /\ due \in Ticks \cup {None}
              /\ sinceSend \in 0..Period - 1
              /\ anchor \in Int /\ n \in 1..Threshold /\ inserted \in BOOLEAN
              /\ still \in Nat

\* START_TRIP with the first position.
RideInit == /\ Init
            /\ due = None
            /\ sinceSend = 0
            /\ anchor = at /\ n = 1 /\ inserted = FALSE
            /\ still = 0

\* The timer fires.
Frame == /\ due = None
         /\ \E dt \in Ticks :
              /\ Advance(dt)
              /\ due' = dt
              /\ still' = IF pause > dt THEN still + dt ELSE 0
         /\ UNCHANGED <<sinceSend, detector>>

Drive == /\ Walk
         /\ UNCHANGED <<due, sinceSend, detector, still>>

\* Mutant: one sample more is counted.
JudgeLate(p) ==
  \/ /\ Near(anchor, p)
     /\ n' = IF n <= Threshold THEN n + 1 ELSE n
     /\ inserted' = (inserted \/ n > Threshold)
     /\ UNCHANGED anchor
  \/ /\ ~Near(anchor, p)
     /\ anchor' = p
     /\ n' = 1
     /\ inserted' = FALSE

\* update_trip.
Judge(p) ==
  \/ /\ Near(anchor, p)
     /\ n' = IF n < Threshold THEN n + 1 ELSE n
     /\ inserted' = (inserted \/ n = Threshold)
     /\ UNCHANGED anchor
  \/ /\ ~Near(anchor, p)
     /\ anchor' = p
     /\ n' = 1
     /\ inserted' = FALSE

\* Time to send, or not yet.
Sample == /\ due # None
          /\ Returned
          /\ \/ /\ sinceSend + due >= Period
                /\ sinceSend' = sinceSend + due - Period
                /\ Judge(at)
             \/ /\ sinceSend + due < Period
                /\ sinceSend' = sinceSend + due
                /\ UNCHANGED detector
          /\ due' = None
          /\ UNCHANGED <<simvars, still>>

Next == Frame \/ Drive \/ Sample

Spec == RideInit /\ [][Next]_vars /\ WF_vars(Next)

-----------------------------------------------------------------------------
(***************************************************************************)
(* Properties.                                                             *)
(***************************************************************************)

\* "Some exceed 180 s => the server recognizes them as the "stationary" state"
\* (sim/src/lib.rs:28): a vehicle that has stood for Threshold + 1 periods is
\* recognized, wherever its pause began between two positions.  (Between
\* Threshold and Threshold + 1 periods it depends on where that was.)
LongPausesSeen == due = None /\ still >= (Threshold + 1) * Period => inserted
=============================================================================
