------------------------------ MODULE Tracker -------------------------------
(***************************************************************************)
(* The pause detector: update_trip (server/src/trips/mod.rs) and the rows  *)
(* it writes, for the trips of one user.                                   *)
(*                                                                         *)
(* update_trip judges a sample under the store's lock and changes the      *)
(* trip's entry there and then; the row it decided on is inserted after    *)
(* the lock is released, and the status is set only if the insert          *)
(* succeeds.  An insert fails when the trip already has a row with that    *)
(* timestamp, which is the client's.                                       *)
(***************************************************************************)
EXTENDS MovementStats, Sequences

CONSTANTS Trips,       \* trips of the user, numbers
          Places,      \* where the samples are, numbers
          Steps,       \* seconds from one sample to the next
          Threshold,   \* STOP_THRESHOLD_SAMPLES
          MaxSamples,  \* bound on the samples of a behaviour
          None,        \* no entry, no row to write
          Faults       \* "db": any insert may fail

ASSUME TripsOrdered == Trips \subseteq Nat
ASSUME TripsFinite == IsFiniteSet(Trips)
ASSUME PlacesOnLine == Places \subseteq Int
ASSUME TimeGoesOn == Steps \subseteq Nat
ASSUME ThresholdPositive == Threshold \in Nat \ {0}

VARIABLES coord,    \* last_coordinates: entry of each tracked trip
          rows,     \* positions table
          shown,    \* status of the user
          pending,  \* what update_trip has decided and not yet written
          clock,    \* timestamp of the last sample
          heard     \* the samples of each trip, in order of arrival (history)

vars == <<coord, rows, shown, pending, clock, heard>>

Entry == [at : Places, n : 1..Threshold, inserted : BOOLEAN]
Row == [trip : Trips, ts : Nat, at : Places, stopped : BOOLEAN]
Decision == [row : Row, status : {"stationary", "moving", None}]

ASSUME NoneIsNothing == None \notin Entry \cup {"stationary", "moving"} /\ None \notin Decision

TypeOK == /\ coord \in [Trips -> Entry \cup {None}]
          /\ rows \subseteq Row
          /\ shown \in {"stationary", "moving"}
          /\ pending = None \/ pending \in Decision
          /\ clock \in Nat
          /\ heard \in [Trips -> Seq([ts : Nat, at : Places])]

Init == /\ coord = [i \in Trips |-> None]
        /\ rows = {}
        /\ shown = "stationary"
        /\ pending = None
        /\ clock = 0
        /\ heard = [i \in Trips |-> <<>>]

-----------------------------------------------------------------------------
NewEntry(p) == [at |-> p, n |-> 1, inserted |-> FALSE]

\* Sample p of trip i arrives d seconds after the one before.
Hear(i, p, d) == /\ pending = None
                 /\ SumFunction([j \in Trips |-> Len(heard[j])]) < MaxSamples
                 /\ clock' = clock + d
                 /\ heard' = [heard EXCEPT ![i] = Append(@, [ts |-> clock + d, at |-> p])]

\* START_TRIP: first row, new entry, stationary.
Start(i, p, d) ==
  /\ coord[i] = None
  /\ Hear(i, p, d)
  /\ rows' = rows \cup {[trip |-> i, ts |-> clock + d, at |-> p, stopped |-> FALSE]}
  /\ coord' = [coord EXCEPT ![i] = NewEntry(p)]
  /\ shown' = "stationary"
  /\ UNCHANGED pending

Decide(i, p, d, stopped, status) ==
  pending' = [row |-> [trip |-> i, ts |-> clock + d, at |-> p, stopped |-> stopped],
              status |-> status]

\* Mutant: the threshold is one sample too low.
LongTooSoon(entry) == entry.n >= Threshold - 1

\* The samples near the anchor before this one are a pause.
Long(entry) == entry.n >= Threshold

\* Mutant: the count goes on during a pause.
StillCounting(i, p, d) == /\ Near(coord[i].at, p)
                          /\ coord' = [coord EXCEPT ![i].n = @ + 1]
                          /\ Decide(i, p, d, FALSE, None)

\* Near the anchor, and not for long enough yet.
Still(i, p, d) == /\ Near(coord[i].at, p)
                  /\ ~Long(coord[i])
                  /\ coord' = [coord EXCEPT ![i].n = @ + 1]
                  /\ Decide(i, p, d, FALSE, None)

\* Mutant: the row of a pause is like the others.
StopUnmarked(i, p, d) == /\ Near(coord[i].at, p)
                         /\ Long(coord[i]) /\ ~coord[i].inserted
                         /\ coord' = [coord EXCEPT ![i].inserted = TRUE]
                         /\ Decide(i, p, d, FALSE, "stationary")

\* The sample that makes it a pause: the one row with stopped = TRUE.
Stop(i, p, d) == /\ Near(coord[i].at, p)
                 /\ Long(coord[i]) /\ ~coord[i].inserted
                 /\ coord' = [coord EXCEPT ![i].inserted = TRUE]
                 /\ Decide(i, p, d, TRUE, "stationary")

\* The rest of the pause is not recorded.
Skip(i, p, d) == /\ Near(coord[i].at, p)
                 /\ Long(coord[i]) /\ coord[i].inserted
                 /\ UNCHANGED <<coord, pending>>

\* Mutant: moving on starts a new count and keeps the flag.
MoveFlagged(i, p, d) == /\ ~Near(coord[i].at, p)
                        /\ coord' = [coord EXCEPT ![i].at = p, ![i].n = 1]
                        /\ Decide(i, p, d, FALSE, "moving")

\* Away from the anchor: the sample is the new one.
Move(i, p, d) == /\ ~Near(coord[i].at, p)
                 /\ coord' = [coord EXCEPT ![i] = NewEntry(p)]
                 /\ Decide(i, p, d, FALSE, "moving")

Sample(i, p, d) == /\ coord[i] # None
                   /\ Hear(i, p, d)
                   /\ Still(i, p, d) \/ Stop(i, p, d) \/ Skip(i, p, d) \/ Move(i, p, d)
                   /\ UNCHANGED <<rows, shown>>

\* PRIMARY KEY (trip_id, ts).
KeyFree(row) == \A r \in rows : <<r.trip, r.ts>> # <<row.trip, row.ts>>

\* insert_position, then status::set.
Write == /\ pending # None
         /\ KeyFree(pending.row)
         /\ rows' = rows \cup {pending.row}
         /\ shown' = IF pending.status = None THEN shown ELSE pending.status
         /\ pending' = None
         /\ UNCHANGED <<coord, clock, heard>>

\* UPDATE_TRIP_FAILED: the entry keeps what the sample made of it.
WriteFails == /\ pending # None
              /\ ~KeyFree(pending.row) \/ "db" \in Faults
              /\ pending' = None
              /\ UNCHANGED <<coord, rows, shown, clock, heard>>

Next == \/ \E i \in Trips, p \in Places, d \in Steps : Start(i, p, d) \/ Sample(i, p, d)
        \/ Write \/ WriteFails

Spec == Init /\ [][Next]_vars

-----------------------------------------------------------------------------
(***************************************************************************)
(* Properties.                                                             *)
(***************************************************************************)

\* All samples from the k-th on are near the k-th.
StaysNear(track, k) == \A j \in k..Len(track) : Near(track[j].at, track[k].at)

\* A user is shown as stationary only if one of the user's trips has stayed near
\* one place for Threshold samples after the first one there, or ever since
\* its start.  (The status is one for all trips of a user.)
NoEarlyPause ==
  pending = None /\ shown = "stationary" /\ (\E i \in Trips : coord[i] # None)
    => \E i \in Trips : \E k \in DOMAIN heard[i] :
         /\ k = 1 \/ Len(heard[i]) - k >= Threshold
         /\ StaysNear(heard[i], k)

\* The last Threshold + 1 samples of a trip are at one place, or all of them.
Stands(track) == \A k \in DOMAIN track :
  k >= Len(track) - Threshold => track[k].at = track[Len(track)].at

\* "Number of consecutive `POSITION` samples with identical coordinates beyond
\* which the user is marked "stationary"" (server/src/trips/mod.rs:84-86): a
\* user none of whose trips goes anywhere is.
PauseMarked == pending = None /\ (\A i \in Trips : Stands(heard[i]))
                 => shown = "stationary"

\* A gap too long to count, "e.g. client offline, app crashed, server
\* restarted" (db/src/lib.rs:367-372), is one in which the server heard
\* nothing, or it is the rest of a pause: the row before it marks one, and
\* nothing it leaves out was anywhere else.  (So a long pause counts as
\* Threshold samples, whatever its length.)
GapsOnlyInPauses == \A w \in Windows(rows) : w[1].trip = w[2].trip /\ Span(w) > MaxGap =>
  LET track == heard[w[1].trip]
  IN  \A k \in DOMAIN track : track[k].ts \in w[1].ts + 1..w[2].ts - 1
        => w[1].stopped /\ Distance(track[k].at, w[1].at) <= 2 * Eps

\* Two trips of a user do not blend, even when they are under way at the same
\* time: the figures are the sums of those of the trips.
TripsAddUp ==
  LET all == Stats(rows, 0, clock)
      of(i) == Stats({r \in rows : r.trip = i}, 0, clock)
  IN  /\ all.total = SumFunction([i \in Trips |-> of(i).total])
      /\ all.distance = SumFunction([i \in Trips |-> of(i).distance])
      /\ all.movement + all.pause = all.total
      /\ \A i \in Trips : of(i).total <= clock

\* The figures of a longer interval cover those of its parts: a week is at
\* least its days, and nothing is counted twice where they meet.  (Both parts
\* are intervals STATS answers: the second begins no later than now.)
IntervalsAddUp == \A cut \in {r.ts : r \in rows} : cut < clock =>
  LET all == Stats(rows, 0, clock)
      before == Stats(rows, 0, cut)
      after == Stats(rows, cut + 1, clock)
  IN  /\ before.total + after.total <= all.total
      /\ before.pause + after.pause <= all.pause
      /\ before.distance + after.distance <= all.distance
=============================================================================
