------------------------------ MODULE TripLife ------------------------------
(***************************************************************************)
(* What a server may expect to be told about a trip by the client that     *)
(* started it: the client takes note of the trip at most once, reports     *)
(* positions for it, and sends the end of it at most once; a report that   *)
(* was under way when the end was sent may come after it, but only one.    *)
(*                                                                         *)
(* Client.tla is shown to implement this module.                           *)
(***************************************************************************)
CONSTANT Trips

VARIABLES phase,  \* "unknown", "current" or "dropped"
          ends,   \* ends sent for each trip
          late    \* reports of each trip that have followed its end

vars == <<phase, ends, late>>

Init == /\ phase = [i \in Trips |-> "unknown"]
        /\ ends = [i \in Trips |-> 0]
        /\ late = [i \in Trips |-> 0]

\* The client learns of a trip it has not heard of, and forgets the one
\* before.
Learn(i) ==
  /\ phase[i] = "unknown"
  /\ phase' = [j \in Trips |-> IF j = i THEN "current"
                               ELSE IF phase[j] = "current" THEN "dropped"
                               ELSE phase[j]]
  /\ UNCHANGED <<ends, late>>

\* The client forgets its trip, whether or not it is going to end it.
Drop(i) == /\ phase[i] = "current"
           /\ phase' = [phase EXCEPT ![i] = "dropped"]
           /\ UNCHANGED <<ends, late>>

\* The end is sent for a trip that the client has let go of, and never again.
End(i) == /\ phase[i] = "dropped"
          /\ ends[i] = 0
          /\ ends' = [ends EXCEPT ![i] = 1]
          /\ UNCHANGED <<phase, late>>

\* The report that was under way; any other one changes nothing here.
LateReport(i) == /\ ends[i] = 1
                 /\ late[i] = 0
                 /\ late' = [late EXCEPT ![i] = 1]
                 /\ UNCHANGED <<phase, ends>>

Next == \E i \in Trips : Learn(i) \/ Drop(i) \/ End(i) \/ LateReport(i)

Spec == Init /\ [][Next]_vars
=============================================================================
