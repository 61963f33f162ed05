------------------------------- MODULE Server -------------------------------
(***************************************************************************)
(* The trip requests of handle_client (server/src/main.rs) on top of the   *)
(* sessions of Sessions.tla: the trips table of the database, the store of *)
(* tracked trips in memory (server/src/trips/mod.rs), and the way both are *)
(* kept together through starts, positions, ends, logouts, lost            *)
(* connections, failing queries and restarts.                              *)
(*                                                                         *)
(* Sessions.tla says when a connection may serve a request (Serve) and     *)
(* when it is on its way out ("closing").  Here a request is the sequence  *)
(* of queries and locks its arm of the dispatcher goes through, one action *)
(* each, and close_open_trips is a loop over what its query returned.      *)
(* Coordinates are left out: what update_trip computes from them is a      *)
(* choice between its outcomes.                                            *)
(***************************************************************************)
EXTENDS Naturals, FiniteSets

CONSTANTS Users, Conns, Tokens, None, Faults,
          TripIds   \* ids of the trips table; bounds the trips of a behaviour

ASSUME NoneIsNoTrip == None \notin Users \cup Conns \cup Tokens \cup TripIds
ASSUME FaultKinds == Faults \subseteq {"send", "db", "crash"}

VARIABLES users, sessions, issuedTo, status, sinks, pc, userState, target, offered,
          owner,    \* trips.username of each row, None while there is no row
          open,     \* rows whose ended_at is NULL
          tracked,  \* keys of last_coordinates
          step,     \* next step of a request or of close_open_trips
          trip,     \* trip_id a handler is working on
          todo      \* ids close_open_trips has still to visit

Auth == INSTANCE Sessions

\* The variables of Sessions.tla.
access == <<users, sessions, issuedTo, status, sinks, pc, userState, target, offered>>
rows == <<owner, open>>
work == <<step, trip, todo>>
vars == <<access, rows, tracked, work>>

TripSteps == {"none", "insertTrip", "insertFirst", "track", "stationary",
              "findTrip", "checkTracked", "endOrphan", "update", "record",
              "endTrip", "untrack", "reply", "endOpen", "dropOpen"}

TypeOK == /\ Auth!TypeOK
          /\ owner \in [TripIds -> Users \cup {None}]
          /\ open \subseteq TripIds
          /\ tracked \subseteq TripIds
          /\ step \in [Conns -> TripSteps]
          /\ trip \in [Conns -> TripIds \cup {None}]
          /\ todo \in [Conns -> SUBSET TripIds]

\* Any trips may be in the database a server starts with, but no user is
\* served yet and nothing is tracked.
Init == /\ Auth!Init
        /\ owner \in [TripIds -> users \cup {None}]
        /\ open \in SUBSET {i \in TripIds : owner[i] # None}
        /\ tracked = {}
        /\ step = [c \in Conns |-> "none"]
        /\ trip = [c \in Conns |-> None]
        /\ todo = [c \in Conns |-> {}]

-----------------------------------------------------------------------------
(***************************************************************************)
(* The trips table.                                                        *)
(***************************************************************************)

\* Mutant: the WHERE clause forgets the username.
AnyOpen(i, u) == i \in open

\* WHERE id = ? AND username = ? AND ended_at IS NULL.
OpenFor(i, u) == i \in open /\ owner[i] = u

\* Mutant: only the trips the server still tracks are looked up.
TrackedTrips(u) == {i \in open \cap tracked : owner[i] = u}

\* open_trip_ids_for.
OpenTrips(u) == {i \in TripIds : OpenFor(i, u)}

\* db::end_trip's UPDATE of the row, if the WHERE clause finds it.
CloseRow(i, u) == open' = {j \in open : ~(j = i /\ OpenFor(j, u))}

DbError == "db" \in Faults

Goto(c, s) == step' = [step EXCEPT ![c] = s]

\* The connection's user; None would be a request by nobody.
User(c) == userState[c]

-----------------------------------------------------------------------------
(***************************************************************************)
(* START_TRIP: initialize_trips.                                           *)
(***************************************************************************)

\* Bound on the model, not in the code: ids are left for all who want one.
Room == Cardinality({i \in TripIds : owner[i] = None})
          > Cardinality({c \in Conns : step[c] = "insertTrip"})

StartTrip(c, t) == /\ Room
                   /\ Auth!Serve(c, t)
                   /\ Goto(c, "insertTrip")
                   /\ UNCHANGED <<rows, tracked, trip, todo>>

\* Mutant: the id of the new row is not kept.
InsertUnnamed(c) == /\ step[c] = "insertTrip"
                    /\ \E i \in TripIds :
                         /\ owner[i] = None
                         /\ owner' = [owner EXCEPT ![i] = User(c)]
                         /\ open' = open \cup {i}
                    /\ Goto(c, "insertFirst")
                    /\ UNCHANGED <<access, tracked, trip, todo>>

\* db::start_trip, its first query: the row is there from now on.
InsertTrip(c) ==
  /\ step[c] = "insertTrip"
  /\ \/ \E i \in TripIds :
          /\ owner[i] = None
          /\ owner' = [owner EXCEPT ![i] = User(c)]
          /\ open' = open \cup {i}
          /\ trip' = [trip EXCEPT ![c] = i]
          /\ Goto(c, "insertFirst")
     \/ /\ DbError
        /\ Goto(c, "reply")
        /\ UNCHANGED <<rows, trip>>
  /\ UNCHANGED <<access, tracked, todo>>

\* ... and its second one, the first position; the row stays if it fails.
InsertFirst(c) == /\ step[c] = "insertFirst"
                  /\ \/ Goto(c, "track")
                     \/ DbError /\ Goto(c, "reply")
                  /\ UNCHANGED <<access, rows, tracked, trip, todo>>

Track(c) == /\ step[c] = "track"
            /\ tracked' = tracked \cup {trip[c]}
            /\ Goto(c, "stationary")
            /\ UNCHANGED <<access, rows, trip, todo>>

Stationary(c) == /\ step[c] = "stationary"
                 /\ Auth!Track(c, "stationary")
                 /\ Goto(c, "reply")
                 /\ UNCHANGED <<rows, tracked, trip, todo>>

(***************************************************************************)
(* POSITION: the trip is looked up in the database, then in memory, and    *)
(* only then updated.                                                      *)
(***************************************************************************)
Position(c, t, i) == /\ Auth!Serve(c, t)
                     /\ trip' = [trip EXCEPT ![c] = i]
                     /\ Goto(c, "findTrip")
                     /\ UNCHANGED <<rows, tracked, todo>>

\* db::trip_open_for.
FindTrip(c) == /\ step[c] = "findTrip"
               /\ \/ OpenFor(trip[c], User(c)) /\ Goto(c, "checkTracked")
                  \/ ~OpenFor(trip[c], User(c)) /\ Goto(c, "reply")
                  \/ DbError /\ Goto(c, "reply")
               /\ UNCHANGED <<access, rows, tracked, trip, todo>>

CheckTracked(c) == /\ step[c] = "checkTracked"
                   /\ Goto(c, IF trip[c] \in tracked THEN "update" ELSE "endOrphan")
                   /\ UNCHANGED <<access, rows, tracked, trip, todo>>

\* An orphan is closed and answered with TRIP_TERMINATED, even when closing
\* it fails.
EndOrphan(c) == /\ step[c] = "endOrphan"
                /\ \/ CloseRow(trip[c], User(c))
                   \/ DbError /\ UNCHANGED open
                /\ Goto(c, "reply")
                /\ UNCHANGED <<access, owner, tracked, trip, todo>>

\* update_trip under the store's lock: the trip must still be in the store.
Update(c) == /\ step[c] = "update"
             /\ Goto(c, IF trip[c] \in tracked THEN "record" ELSE "reply")
             /\ UNCHANGED <<access, rows, tracked, trip, todo>>

\* insert_position and, if that succeeds, the status the sample calls for.
Record(c) == /\ step[c] = "record"
             /\ \/ \E s \in {"moving", "stationary"} : Auth!Track(c, s)
                \/ UNCHANGED access
             /\ Goto(c, "reply")
             /\ UNCHANGED <<rows, tracked, trip, todo>>

(***************************************************************************)
(* END_TRIP: terminate_trip, first the row, then the store.                *)
(***************************************************************************)
EndTrip(c, t, i) == /\ Auth!Serve(c, t)
                    /\ trip' = [trip EXCEPT ![c] = i]
                    /\ Goto(c, "endTrip")
                    /\ UNCHANGED <<rows, tracked, todo>>

\* Mutant: the entry leaves the store before the row is looked at.
UntrackFirst(c) == /\ step[c] = "endTrip"
                   /\ tracked' = tracked \ {trip[c]}
                   /\ CloseRow(trip[c], User(c))
                   /\ Goto(c, "reply")
                   /\ UNCHANGED <<access, owner, trip, todo>>

\* db::end_trip: owned and still open, or an error.
EndRow(c) == /\ step[c] = "endTrip"
             /\ \/ /\ OpenFor(trip[c], User(c))
                   /\ CloseRow(trip[c], User(c))
                   /\ Goto(c, "untrack")
                \/ /\ ~OpenFor(trip[c], User(c)) \/ DbError
                   /\ Goto(c, "reply")
                   /\ UNCHANGED open
             /\ UNCHANGED <<access, owner, tracked, trip, todo>>

\* Mutant: the entry of an ended trip stays in the store.
NeverUntrack(c) == /\ step[c] = "untrack"
                   /\ Goto(c, "reply")
                   /\ UNCHANGED <<access, rows, tracked, trip, todo>>

Untrack(c) == /\ step[c] = "untrack"
              /\ tracked' = tracked \ {trip[c]}
              /\ Goto(c, "reply")
              /\ UNCHANGED <<access, rows, trip, todo>>

\* STATS and CHAT_TO_SERVER read and log, and change nothing of this module.
Query(c, t) == /\ Auth!Serve(c, t)
               /\ Goto(c, "reply")
               /\ UNCHANGED <<rows, tracked, trip, todo>>

\* The one reply of a request, TRIP_STARTED, ACK or an error.
Answer(c) == /\ step[c] = "reply"
             /\ Auth!Served(c)
             /\ Goto(c, "none")
             /\ trip' = [trip EXCEPT ![c] = None]
             /\ UNCHANGED <<rows, tracked, todo>>

-----------------------------------------------------------------------------
(***************************************************************************)
(* close_open_trips, on DISCONNECT and in the cleanup.                     *)
(***************************************************************************)

\* The loop is over: nothing to visit, or no list because the query failed.
LoopDone(c) == /\ Auth!TripsClosed(c)
               /\ Goto(c, "none")
               /\ trip' = [trip EXCEPT ![c] = None]

\* Mutant: the error of the lookup leaves handle_client.
ListOpenOrQuit(c) ==
  /\ pc[c] = "closing" /\ step[c] = "none"
  /\ DbError
  /\ Auth!Goto(c, "gone")
  /\ UNCHANGED <<users, sessions, issuedTo, status, sinks, userState, target, offered>>
  /\ UNCHANGED <<rows, tracked, work>>

ListOpen(c) ==
  /\ pc[c] = "closing" /\ step[c] = "none"
  /\ \/ /\ OpenTrips(User(c)) # {}
        /\ todo' = [todo EXCEPT ![c] = OpenTrips(User(c))]
        /\ Goto(c, "endOpen")
        /\ UNCHANGED <<access, trip>>
     \/ /\ OpenTrips(User(c)) = {} \/ DbError
        /\ LoopDone(c)
        /\ UNCHANGED todo
  /\ UNCHANGED <<rows, tracked>>

\* Mutant: the loop starts over with the trip it has just closed.
EndOpenAgain(c) == /\ step[c] = "endOpen"
                   /\ \E i \in todo[c] :
                        /\ CloseRow(i, User(c))
                        /\ trip' = [trip EXCEPT ![c] = i]
                   /\ Goto(c, "dropOpen")
                   /\ UNCHANGED <<access, owner, tracked, todo>>

\* An error of end_trip is logged, and the loop goes on.
EndOpen(c) ==
  /\ step[c] = "endOpen"
  /\ \E i \in todo[c] :
       /\ \/ CloseRow(i, User(c))
          \/ DbError /\ UNCHANGED open
       /\ trip' = [trip EXCEPT ![c] = i]
       /\ todo' = [todo EXCEPT ![c] = @ \ {i}]
  /\ Goto(c, "dropOpen")
  /\ UNCHANGED <<access, owner, tracked>>

DropOpen(c) == /\ step[c] = "dropOpen"
               /\ tracked' = tracked \ {trip[c]}
               /\ \/ /\ todo[c] # {}
                     /\ Goto(c, "endOpen")
                     /\ UNCHANGED <<access, trip>>
                  \/ todo[c] = {} /\ LoopDone(c)
               /\ UNCHANGED <<rows, todo>>

-----------------------------------------------------------------------------
\* The memory of the server is lost, the database is what remains.
Restart == /\ Auth!Crash
           /\ tracked' = {}
           /\ step' = [c \in Conns |-> "none"]
           /\ trip' = [c \in Conns |-> None]
           /\ todo' = [c \in Conns |-> {}]
           /\ UNCHANGED rows

\* The handler steps that have nothing to do with trips.  An account switch
\* is one of them: it does not close the trips of the old user.
Session(c) == /\ Auth!Enter(c) \/ Auth!Switch(c) \/ Auth!Install(c) \/ Auth!Quit(c)
              /\ UNCHANGED <<rows, tracked, work>>

\* What follows close_open_trips.
Forget(c) == /\ Auth!LeaveStatus(c) \/ Auth!LeaveSink(c) \/ Auth!LeaveSession(c)
             /\ UNCHANGED <<rows, tracked, work>>

Request(c) ==
  \/ \E t \in Tokens : StartTrip(c, t) \/ Query(c, t)
  \/ \E t \in Tokens, i \in TripIds : Position(c, t, i) \/ EndTrip(c, t, i)
  \/ InsertTrip(c) \/ InsertFirst(c) \/ Track(c) \/ Stationary(c)
  \/ FindTrip(c) \/ CheckTracked(c) \/ EndOrphan(c) \/ Update(c) \/ Record(c)
  \/ EndRow(c) \/ Untrack(c) \/ Answer(c)

CloseTrips(c) == ListOpen(c) \/ EndOpen(c) \/ DropOpen(c)

Leave(c) == CloseTrips(c) \/ Forget(c)

Next == (\E c \in Conns : Session(c) \/ Request(c) \/ Leave(c)) \/ Restart

\* As in Sessions.tla: a handler on its way out waits for locks and queries,
\* and each of those comes back, with an error if need be.
Fairness == \A c \in Conns : WF_vars(Leave(c))

Spec == Init /\ [][Next]_vars /\ Fairness

-----------------------------------------------------------------------------
(***************************************************************************)
(* Properties.                                                             *)
(***************************************************************************)

\* What POSITION has read stays true until it acts on it: between the query
\* that found the trip open and the end of the request, nobody closes the
\* trip, and once it was found tracked nobody drops it.  (Two locks and two
\* queries are taken one after the other in server/src/main.rs:547-583.)
LookupStands == \A c \in Conns :
  /\ step[c] \in {"checkTracked", "endOrphan", "update", "record"}
       => trip[c] \in open /\ owner[trip[c]] = userState[c]
  /\ step[c] \in {"update", "record"} => trip[c] \in tracked

\* Open in the database, unknown to the store, and not about to be added.
Orphan(i) == /\ i \in open \ tracked
             /\ \A c \in Conns : trip[c] = i => step[c] \notin {"insertFirst", "track"}

\* No trip becomes an orphan, to be closed under its user with "state lost",
\* unless the server is restarted (server/src/main.rs:564-567 says
\* "typically") or a query fails.
NoNewOrphan == [][\A i \in TripIds : Orphan(i)' => Orphan(i) \/ Restart]_vars

\* The store has no entry for a closed trip, but for the moment in which its
\* handler has closed the row and not yet dropped the entry.
TrackedTripsOpen == \A i \in tracked :
  i \in open \/ \E c \in Conns : trip[c] = i /\ step[c] \in {"untrack", "dropOpen"}

\* A handler past close_open_trips has left its user no open trip and no
\* tracked one, also of trips opened before a restart.
NothingLeftOpen == \A c \in Conns, i \in TripIds :
  pc[c] \in {"leaveStatus", "leaveSink", "leaveSession"} /\ owner[i] = userState[c]
    => i \notin open \cup tracked

\* "Prevents orphan entries piling up in `last_coordinates` and trips staying
\* open forever in the DB for clients that close the WS without sending
\* `Disconnect`" (server/src/main.rs:705-708), for trips of this run of the
\* server: when every connection is closed, none of them is tracked.
TripsEndWithConnections == (\A c \in Conns : pc[c] = "closed") => tracked = {}

\* Only the connection that holds the owner's session closes a trip or drops
\* it from the store: no cleanup and no request of anybody else does.
OwnerActs == [][\A i \in TripIds :
  (i \in open \ open' \/ i \in tracked \ tracked') /\ ~Restart
    => \E c \in Conns : Auth!Holds(c, owner[i]) /\ step'[c] # step[c]]_vars

\* A connection that is on its way out gets there: the loop over its trips
\* ends, and so does the cleanup.
LeavingEnds == \A c \in Conns : pc[c] = "closing" ~> pc[c] = "closed"

\* Trips do not disturb the sessions: what Sessions.tla shows holds here.
ImplementsSessions == Auth!Spec
=============================================================================
