---------------------------- MODULE ServerProofs ----------------------------
(***************************************************************************)
(* Theorems about Server.tla, for any users, connections, tokens, trips    *)
(* and faults.                                                             *)
(*                                                                         *)
(* A step of the server is a step of the sessions or leaves them alone, so *)
(* what SessionsProofs.tla shows of the sessions holds here: of the        *)
(* handlers that act for a user there is one (OneActor).  A handler's step *)
(* touches rows and store entries of its own user only (TouchesOwnRows).   *)
(* The two together are why what a handler has read of a trip stays true   *)
(* between two queries although no lock is held: only it could change it.  *)
(***************************************************************************)
EXTENDS Server, TLAPS

\* The facts SessionsProofs.tla proves of the variables of the sessions.
Proved == INSTANCE SessionsProofs

\* The assumption SessionsProofs.tla makes.
LEMMA NobodyIsNone == None \notin Users \cup Conns \cup Tokens
BY NoneIsNoTrip

\* Both instances of the sessions are the same module.
LEMMA SameSteps == Auth!Next <=> Proved!Next
<1> USE DEF Auth!Goto, Auth!shared, Auth!accounts, Auth!locals, Proved!Goto, Auth!Reply, Proved!Reply, Proved!shared, Proved!accounts, Proved!locals,
            Auth!SessionFree, Proved!SessionFree, Auth!Accepts, Proved!Accepts,
            Auth!Expire, Proved!Expire, Auth!Cleanup, Proved!Cleanup
<1>1. ASSUME NEW c \in Conns
      PROVE  Auth!Handler(c) <=> Proved!Handler(c)
  <2>1. Auth!Enter(c) <=> Proved!Enter(c)
    BY DEF Auth!Enter, Auth!Connect, Auth!Refuse, Auth!Login, Auth!Register, Auth!SaveUser, Auth!TryInsertToken,
           Proved!Enter, Proved!Connect, Proved!Refuse, Proved!Login, Proved!Register, Proved!SaveUser,
           Proved!TryInsertToken
  <2>2. Auth!Switch(c) <=> Proved!Switch(c)
    BY DEF Auth!Switch, Auth!DropSession, Auth!DropStatus, Auth!DropSink,
           Proved!Switch, Proved!DropSession, Proved!DropStatus, Proved!DropSink
  <2>3. Auth!Install(c) <=> Proved!Install(c)
    BY DEF Auth!Install, Auth!SetStatus, Auth!SetSink, Proved!Install, Proved!SetStatus, Proved!SetSink
  <2>4. Auth!Request(c) <=> Proved!Request(c)
    BY DEF Auth!Request, Auth!Serve, Auth!Track, Auth!Served,
           Proved!Request, Proved!Serve, Proved!Track, Proved!Served
  <2>5. Auth!Quit(c) <=> Proved!Quit(c)
    BY DEF Auth!Quit, Auth!Hangup, Auth!Disconnect, Auth!DisconnectOther,
           Proved!Quit, Proved!Hangup, Proved!Disconnect, Proved!DisconnectOther
  <2>6. Auth!Leave(c) <=> Proved!Leave(c)
    BY DEF Auth!Leave, Auth!TripsClosed, Auth!LeaveStatus, Auth!LeaveSink, Auth!LeaveSession, Auth!Invalidate,
           Proved!Leave, Proved!TripsClosed, Proved!LeaveStatus, Proved!LeaveSink, Proved!LeaveSession,
           Proved!Invalidate
  <2>7. QED
    BY <2>1, <2>2, <2>3, <2>4, <2>5, <2>6 DEF Auth!Handler, Proved!Handler
<1>2. Auth!Crash <=> Proved!Crash
  BY DEF Auth!Crash, Auth!Nobody, Auth!AllDisconnected, Auth!AllClosed,
         Proved!Crash, Proved!Nobody, Proved!AllDisconnected, Proved!AllClosed
<1>3. QED
  BY <1>1, <1>2 DEF Auth!Next, Proved!Next

\* ... in its states too.
LEMMA SameStates ==
  /\ UNCHANGED Auth!vars <=> UNCHANGED Proved!vars
  /\ Auth!Init <=> Proved!Init
  /\ Auth!TypeOK <=> Proved!TypeOK
  /\ \A c, u : Auth!Holds(c, u) <=> Proved!Holds(c, u)
BY DEF Auth!vars, Auth!shared, Auth!accounts, Auth!locals, Proved!vars, Proved!shared, Proved!accounts, Proved!locals, Auth!Init, Proved!Init, Auth!Nobody, Auth!AllDisconnected, Auth!AllClosed,
         Proved!Nobody, Proved!AllDisconnected, Proved!AllClosed,
       Auth!TypeOK, Proved!TypeOK, Auth!Steps, Auth!Statuses, Proved!Steps, Proved!Statuses, Auth!Holds, Proved!Holds

-----------------------------------------------------------------------------
\* Every step of the server is a step of the sessions or leaves them alone.
LEMMA StepIsSessionStep == [Next]_vars => [Auth!Next]_(Auth!vars)
<1> SUFFICES ASSUME [Next]_vars
             PROVE  Auth!Next \/ UNCHANGED access
  BY DEF access, Auth!vars, Auth!shared, Auth!accounts, Auth!locals
<1>1. ASSUME NEW c \in Conns, Session(c)
      PROVE  Auth!Next
  BY <1>1 DEF Session, Auth!Next, Auth!Handler
<1>2. ASSUME NEW c \in Conns, Request(c)
      PROVE  Auth!Next \/ UNCHANGED access
  <2>1. CASE \E t \in Tokens : Auth!Serve(c, t)
    BY <2>1 DEF Auth!Next, Auth!Handler, Auth!Request
  <2>2. CASE \E s \in {"stationary", "moving"} : Auth!Track(c, s)
    BY <2>2 DEF Auth!Next, Auth!Handler, Auth!Request
  <2>3. CASE Auth!Served(c)
    BY <2>3 DEF Auth!Next, Auth!Handler, Auth!Request
  <2>4. CASE \/ InsertTrip(c) \/ InsertFirst(c) \/ Track(c) \/ FindTrip(c) \/ CheckTracked(c)
             \/ EndOrphan(c) \/ Update(c) \/ EndRow(c) \/ Untrack(c)
    BY <2>4 DEF InsertTrip, InsertFirst, Track, FindTrip, CheckTracked, EndOrphan, Update, EndRow, Untrack
  <2>5. QED
    BY <1>2, <2>1, <2>2, <2>3, <2>4 DEF Request, StartTrip, Query, Position, EndTrip, Stationary, Record, Answer
<1>3. ASSUME NEW c \in Conns, Leave(c)
      PROVE  Auth!Next \/ UNCHANGED access
  <2>1. CASE Auth!Leave(c)
    BY <2>1 DEF Auth!Next, Auth!Handler
  <2>2. CASE UNCHANGED access
    BY <2>2
  <2>3. QED
    BY <1>3, <2>1, <2>2 DEF Leave, CloseTrips, ListOpen, LoopDone, EndOpen, DropOpen, Forget, Auth!Leave
<1>4. CASE Restart
  BY <1>4 DEF Restart, Auth!Next
<1>5. CASE UNCHANGED vars
  BY <1>5 DEF vars
<1>6. QED
  BY <1>1, <1>2, <1>3, <1>4, <1>5 DEF Next

\* The sessions inside the server keep everything SessionsProofs.tla shows.
LEMMA SessionsHold ==
  /\ Init => Proved!SessionInv
  /\ Proved!SessionInv /\ [Next]_vars => Proved!SessionInv'
<1> USE NobodyIsNone, FaultKinds
<1>1. Init => Proved!SessionInv
  BY SameStates, Proved!TypeInit, Proved!HoldInit, Proved!ShownInit DEF Init, Proved!SessionInv
<1>2. [Next]_vars => [Proved!Next]_(Proved!vars)
  BY StepIsSessionStep, SameSteps, SameStates 
<1>3. Proved!SessionInv /\ [Next]_vars => Proved!SessionInv'
  BY <1>2, Proved!TypeStep, Proved!LocalStep, Proved!HoldStep, Proved!SinkStep, Proved!StatusStep
     DEF Proved!SessionInv
<1>4. QED
  BY <1>1, <1>3

\* Trips do not disturb the sessions: what the server does to the variables of
\* the sessions is what Sessions.tla allows.
THEOREM ServerStepsAreSessionSteps == Spec => Auth!Init /\ [][Auth!Next]_(Auth!vars)
<1>1. Init => Auth!Init
  BY DEF Init
<1>2. QED
  BY <1>1, StepIsSessionStep, PTL DEF Spec

-----------------------------------------------------------------------------
(***************************************************************************)
(* The invariant.                                                          *)
(***************************************************************************)

\* The steps of a request, and of close_open_trips.
RequestSteps == {"insertTrip", "insertFirst", "track", "stationary", "findTrip", "checkTracked",
                 "endOrphan", "update", "record", "endTrip", "untrack", "reply"}
LoopSteps == {"endOpen", "dropOpen"}

\* A request has a step while the handler serves, and the loop while it closes.
StepInv == \A c \in Conns :
  /\ step[c] \in RequestSteps <=> pc[c] = "serving"
  /\ step[c] \in LoopSteps => pc[c] = "closing"

\* What handler c knows of the trip it works on and of those it has to visit.
Knows(c) ==
  /\ step[c] \in {"findTrip", "endTrip"} => trip[c] \in TripIds
  /\ step[c] \in {"insertFirst", "track", "stationary", "checkTracked", "endOrphan", "update", "record"}
       => trip[c] \in open /\ owner[trip[c]] = userState[c]
  /\ step[c] \in {"update", "record"} => trip[c] \in tracked
  /\ step[c] = "endOrphan" => trip[c] \notin tracked
  /\ step[c] \in {"untrack", "dropOpen"} => trip[c] \in TripIds /\ owner[trip[c]] = userState[c]
  /\ step[c] = "untrack" \/ (step[c] = "dropOpen" /\ ~DbError) => trip[c] \notin open
  /\ step[c] \in LoopSteps => \A i \in todo[c] : owner[i] = userState[c]
  /\ step[c] \in LoopSteps /\ ~DbError => \A i \in open : owner[i] = userState[c] => i \in todo[c]

TripInv == \A c \in Conns : Knows(c)

\* A row that is open or tracked is there.
RowInv == \A i \in open \cup tracked : owner[i] # None

Settled == ~DbError => NothingLeftOpen

\* Handlers that act for their user are not in the middle of a switch.
Acting == {"serving", "closing", "leaveStatus", "leaveSink", "leaveSession"}

\* The inductive invariant.
ServerInv == /\ Proved!SessionInv /\ TypeOK /\ StepInv /\ TripInv /\ RowInv
             /\ TrackedTripsOpen /\ Settled

\* Of the handlers that act for a user there is one.
LEMMA OneActor ==
  ASSUME Proved!SessionInv, NEW c \in Conns, NEW d \in Conns,
         pc[c] \in Acting, pc[d] \in Acting, userState[c] = userState[d]
  PROVE  c = d /\ userState[c] \in Users
<1> USE NobodyIsNone, FaultKinds
<1>1. userState[c] # None /\ userState[c] \in Users
  BY DEF Proved!SessionInv, Proved!TypeInv, Proved!TypeOK, Proved!LocalInv, Proved!Leaving, Acting
<1>2. Proved!Holds(c, userState[c]) /\ Proved!Holds(d, userState[c])
  BY <1>1 DEF Proved!SessionInv, Proved!HoldInv, Proved!SessionOwned, Proved!Switching, Acting
<1>3. QED
  BY <1>1, <1>2, Proved!OneHolder DEF Proved!SessionInv, Proved!HoldInv

-----------------------------------------------------------------------------
\* Types and control flow are preserved by every step.
LEMMA TypeStep == TypeOK /\ TripInv /\ Proved!TypeOK' /\ [Next]_vars => TypeOK'
<1> SUFFICES ASSUME TypeOK, TripInv, Proved!TypeOK', [Next]_vars
             PROVE  TypeOK'
  OBVIOUS
<1>1. Auth!TypeOK'
  BY DEF Auth!TypeOK, Auth!Steps, Auth!Statuses, Proved!TypeOK, Proved!Steps, Proved!Statuses
<1> USE <1>1 DEF TypeOK, TripSteps, Goto
<1>2. ASSUME NEW c \in Conns, Session(c) \/ Forget(c)
      PROVE  TypeOK'
  BY <1>2 DEF Session, Forget, rows, work
<1>3. ASSUME NEW c \in Conns, Request(c)
      PROVE  TypeOK'
  <2> USE DEF rows
  <2>1. CASE \E t \in Tokens : StartTrip(c, t) \/ Query(c, t)
    BY <2>1 DEF StartTrip, Query
  <2>2. CASE \E t \in Tokens, i \in TripIds : Position(c, t, i) \/ EndTrip(c, t, i)
    BY <2>2 DEF Position, EndTrip
  <2>3. CASE InsertTrip(c)
    <3>1. User(c) \in Users \cup {None}
      BY DEF User, Auth!TypeOK
    <3>2. QED
      BY <2>3, <3>1 DEF InsertTrip
  <2>4. CASE Track(c)
    BY <2>4 DEF Track, TripInv, Knows
  <2>5. CASE InsertFirst(c) \/ Stationary(c) \/ FindTrip(c) \/ CheckTracked(c)
    BY <2>5 DEF InsertFirst, Stationary, FindTrip, CheckTracked
  <2>6. CASE EndOrphan(c) \/ Update(c) \/ Record(c) \/ EndRow(c) \/ Untrack(c) \/ Answer(c)
    BY <2>6 DEF EndOrphan, Update, Record, EndRow, Untrack, Answer, CloseRow
  <2>7. QED
    BY <1>3, <2>1, <2>2, <2>3, <2>4, <2>5, <2>6 DEF Request
<1>4. ASSUME NEW c \in Conns, CloseTrips(c)
      PROVE  TypeOK'
  BY <1>4 DEF CloseTrips, ListOpen, EndOpen, DropOpen, LoopDone, CloseRow, OpenTrips, rows
<1>5. CASE Restart
  BY <1>5 DEF Restart, rows
<1>6. CASE UNCHANGED vars
  BY <1>6 DEF vars, rows, work
<1>7. QED
  BY <1>2, <1>3, <1>4, <1>5, <1>6 DEF Next, Leave

LEMMA StepStep == Proved!TypeInv /\ TypeOK /\ StepInv /\ [Next]_vars => StepInv'
<1> SUFFICES ASSUME Proved!TypeInv, TypeOK, StepInv, [Next]_vars
             PROVE  StepInv'
  OBVIOUS
<1> USE DEF Proved!TypeInv, Proved!TypeOK, TypeOK, StepInv, RequestSteps, LoopSteps, Goto,
            Auth!Goto, Auth!Reply
<1>1. ASSUME NEW c \in Conns, Session(c)
      PROVE  StepInv'
  <2> USE DEF work, Auth!shared, Auth!accounts, Auth!locals
  <2>1. CASE Auth!Enter(c)
    BY <1>1, <2>1 DEF Session, Auth!Enter, Auth!Connect, Auth!Refuse, Auth!Login, Auth!Register,
                      Auth!SaveUser, Auth!TryInsertToken
  <2>2. CASE Auth!Switch(c) \/ Auth!Install(c)
    BY <1>1, <2>2 DEF Session, Auth!Switch, Auth!DropSession, Auth!DropStatus, Auth!DropSink,
                      Auth!Install, Auth!SetStatus, Auth!SetSink
  <2>3. CASE Auth!Quit(c)
    BY <1>1, <2>3 DEF Session, Auth!Quit, Auth!Hangup, Auth!Disconnect, Auth!DisconnectOther, Auth!Cleanup
  <2>4. QED
    BY <1>1, <2>1, <2>2, <2>3 DEF Session
<1>2. ASSUME NEW c \in Conns, Request(c)
      PROVE  StepInv'
  <2> USE DEF access
  <2>1. CASE \E t \in Tokens : StartTrip(c, t) \/ Query(c, t)
    BY <2>1 DEF StartTrip, Query, Auth!Serve
  <2>2. CASE \E t \in Tokens, i \in TripIds : Position(c, t, i) \/ EndTrip(c, t, i)
    BY <2>2 DEF Position, EndTrip, Auth!Serve
  <2>3. CASE InsertTrip(c) \/ InsertFirst(c) \/ Track(c) \/ Stationary(c)
    BY <2>3 DEF InsertTrip, InsertFirst, Track, Stationary, Auth!Track
  <2>4. CASE FindTrip(c) \/ CheckTracked(c) \/ EndOrphan(c)
    BY <2>4 DEF FindTrip, CheckTracked, EndOrphan
  <2>5. CASE Update(c) \/ Record(c) \/ EndRow(c) \/ Untrack(c)
    BY <2>5 DEF Update, Record, EndRow, Untrack, Auth!Track
  <2>6. CASE Answer(c)
    BY <2>6 DEF Answer, Auth!Served
  <2>7. QED
    BY <1>2, <2>1, <2>2, <2>3, <2>4, <2>5, <2>6 DEF Request
<1>3. ASSUME NEW c \in Conns, CloseTrips(c)
      PROVE  StepInv'
  BY <1>3 DEF CloseTrips, ListOpen, EndOpen, DropOpen, LoopDone, Auth!TripsClosed, access
<1>4. ASSUME NEW c \in Conns, Forget(c)
      PROVE  StepInv'
  BY <1>4 DEF Forget, Auth!LeaveStatus, Auth!LeaveSink, Auth!LeaveSession, work
<1>5. CASE Restart
  BY <1>5 DEF Restart, Auth!Crash, Auth!AllClosed
<1>6. CASE UNCHANGED vars
  BY <1>6 DEF vars, access, work
<1>7. QED
  BY <1>1, <1>2, <1>3, <1>4, <1>5, <1>6 DEF Next, Leave

-----------------------------------------------------------------------------
(***************************************************************************)
(* What a handler's step does to the rows, and what others know of theirs. *)
(***************************************************************************)

\* What a handler's step may do to the rows and the store: add a row for its
\* user, and close or drop the trips of that user.
OwnRows(c) == \A i \in TripIds :
  /\ owner[i] # None => owner'[i] = owner[i]
  /\ owner[i] # userState[c] =>
       \/ owner'[i] = owner[i] /\ (i \in open' <=> i \in open) /\ (i \in tracked' <=> i \in tracked)
       \/ owner[i] = None /\ owner'[i] = userState[c]

\* ... so that what another handler knows of its trip stays true.
LEMMA OthersKnow ==
  ASSUME Proved!SessionInv, TypeOK, TypeOK', StepInv, TripInv, NEW c \in Conns, NEW d \in Conns, d # c,
         pc[c] \in Acting, OwnRows(c),
         step'[d] = step[d], trip'[d] = trip[d], todo'[d] = todo[d], userState'[d] = userState[d]
  PROVE  Knows(d)'
<1>1. CASE pc[d] \in {"serving", "closing"}
  <2>1. userState[d] # userState[c] /\ userState[d] # None /\ userState[c] # None
    BY <1>1, OneActor, NoneIsNoTrip DEF Acting
  <2>2. Knows(d)
    BY DEF TripInv
  <2>3. \A i \in TripIds : owner[i] = userState[d] =>
          owner'[i] = owner[i] /\ (i \in open' <=> i \in open) /\ (i \in tracked' <=> i \in tracked)
    BY <2>1 DEF OwnRows
  <2>4. \A i \in TripIds : owner'[i] = userState[d] => owner[i] = userState[d]
    BY <2>1 DEF OwnRows
  <2>5. open \subseteq TripIds /\ todo[d] \subseteq TripIds
    BY DEF TypeOK
  <2>6. open' \subseteq TripIds
    BY DEF TypeOK
  <2>7. QED
    BY <2>2, <2>3, <2>4, <2>5, <2>6 DEF Knows, LoopSteps, DbError
<1>2. CASE pc[d] \notin {"serving", "closing"}
  BY <1>2 DEF StepInv, RequestSteps, LoopSteps, Knows
<1>3. QED
  BY <1>1, <1>2

\* The steps of a handler that work on trips.
TripStep(c) == Request(c) \/ CloseTrips(c)

\* They move no other handler, change nobody's user, and leave the rows alone
\* unless the handler already acts for its user.
LEMMA StepsOfOne ==
  ASSUME TypeOK, StepInv, NEW c \in Conns, TripStep(c), NEW d \in Conns, d # c
  PROVE  /\ step'[d] = step[d] /\ trip'[d] = trip[d] /\ todo'[d] = todo[d]
         /\ pc'[d] = pc[d]
<1> USE DEF TypeOK, Auth!TypeOK, Goto, Auth!Goto, Auth!Reply, access, Auth!locals
<1>1. CASE Request(c)
  BY <1>1 DEF Request, StartTrip, InsertTrip, InsertFirst, Track, Stationary, Position, FindTrip, CheckTracked,
       EndOrphan, Update, Record, EndTrip, EndRow, Untrack, Query, Answer, Auth!Serve, Auth!Track, Auth!Served
<1>2. CASE CloseTrips(c)
  BY <1>2 DEF CloseTrips, ListOpen, EndOpen, DropOpen, LoopDone, Auth!TripsClosed
<1>3. QED
  BY <1>1, <1>2 DEF TripStep

LEMMA SameUsers ==
  ASSUME NEW c \in Conns, TripStep(c)
  PROVE  UNCHANGED userState
<1> USE DEF access, Auth!locals
<1>1. CASE Request(c)
  BY <1>1 DEF Request, StartTrip, InsertTrip, InsertFirst, Track, Stationary, Position, FindTrip, CheckTracked,
       EndOrphan, Update, Record, EndTrip, EndRow, Untrack, Query, Answer, Auth!Serve, Auth!Track, Auth!Served
<1>2. CASE CloseTrips(c)
  BY <1>2 DEF CloseTrips, ListOpen, EndOpen, DropOpen, LoopDone, Auth!TripsClosed
<1>3. QED
  BY <1>1, <1>2 DEF TripStep

LEMMA ActsAsUser ==
  ASSUME StepInv, NEW c \in Conns, TripStep(c), OwnRows(c), ~(pc[c] \in Acting)
  PROVE  pc[c] = "idle" /\ UNCHANGED <<rows, tracked>>
BY DEF TripStep, Request, StartTrip, InsertTrip, InsertFirst, Track, Stationary, Position, FindTrip, CheckTracked,
       EndOrphan, Update, Record, EndTrip, EndRow, Untrack, Query, Answer, Auth!Serve,
       CloseTrips, ListOpen, EndOpen, DropOpen, LoopDone, Acting, StepInv, RequestSteps, LoopSteps

\* A step touches the rows of the handler's own user only.
LEMMA TouchesOwnRows ==
  ASSUME TypeOK, StepInv, TripInv, NEW c \in Conns, TripStep(c)
  PROVE  OwnRows(c)
<1> USE DEF OwnRows, rows, TypeOK
<1>1. Knows(c)
  BY DEF TripInv
<1>2. CASE InsertTrip(c)
  BY <1>2 DEF InsertTrip, User
<1>3. CASE Track(c) \/ Untrack(c)
  BY <1>1, <1>3 DEF Track, Untrack, Knows
<1>4. CASE EndOrphan(c) \/ EndRow(c) \/ EndOpen(c)
  BY <1>4 DEF EndOrphan, EndRow, EndOpen, CloseRow, OpenFor, User
<1>5. CASE DropOpen(c)
  BY <1>1, <1>5 DEF DropOpen, Knows
<1>6. CASE UNCHANGED <<rows, tracked>>
  BY <1>6
<1>7. QED
  BY <1>2, <1>3, <1>4, <1>5, <1>6
     DEF TripStep, Request, StartTrip, InsertFirst, Stationary, Position, FindTrip, CheckTracked, Update, Record,
         EndTrip, Query, Answer, CloseTrips, ListOpen

\* No other handler works on a trip of this one's user.
LEMMA OwnTrip ==
  ASSUME Proved!SessionInv, StepInv, TripInv, NEW c \in Conns, NEW d \in Conns,
         pc[c] \in Acting, step[d] \in {"insertFirst", "track", "untrack", "dropOpen"},
         owner[trip[d]] = userState[c]
  PROVE  d = c
BY OneActor DEF TripInv, Knows, StepInv, RequestSteps, LoopSteps, Acting

\* Each step leaves its handler with what the next one relies on.
LEMMA KnowsNext ==
  ASSUME Proved!SessionInv, TypeOK, StepInv, TripInv, RowInv, TrackedTripsOpen, NEW c \in Conns, TripStep(c)
  PROVE  Knows(c)'
<1>1. Knows(c)
  BY DEF TripInv
<1> USE DEF Knows, LoopSteps, Goto, TypeOK, rows, DbError
<1>2. UNCHANGED userState
  BY SameUsers
<1>3. ASSUME Request(c)
      PROVE  Knows(c)'
  <2> USE <1>1, <1>2 DEF OpenFor, User, CloseRow
  <2>1. CASE \E t \in Tokens : StartTrip(c, t) \/ Query(c, t)
    BY <2>1 DEF StartTrip, Query
  <2>2. CASE \E t \in Tokens, i \in TripIds : Position(c, t, i) \/ EndTrip(c, t, i)
    BY <2>2 DEF Position, EndTrip
  <2>3. CASE InsertTrip(c)
    BY <2>3 DEF InsertTrip
  <2>4. CASE InsertFirst(c) \/ Track(c) \/ Stationary(c)
    BY <2>4 DEF InsertFirst, Track, Stationary
  <2>5. CASE FindTrip(c) \/ CheckTracked(c)
    BY <2>5 DEF FindTrip, CheckTracked
  <2>6. CASE EndOrphan(c) \/ Update(c) \/ Record(c) \/ Untrack(c) \/ Answer(c)
    BY <2>6 DEF EndOrphan, Update, Record, Untrack, Answer
  <2>7. CASE EndRow(c)
    BY <2>7 DEF EndRow
  <2>8. QED
    BY <1>3, <2>1, <2>2, <2>3, <2>4, <2>5, <2>6, <2>7 DEF Request
<1>4. CASE ListOpen(c)
  BY <1>1, <1>2, <1>4 DEF ListOpen, LoopDone, OpenTrips, OpenFor, User
<1>5. CASE EndOpen(c)
  <2>1. PICK i \in todo[c] : /\ CloseRow(i, User(c)) \/ (DbError /\ UNCHANGED open)
                             /\ trip' = [trip EXCEPT ![c] = i]
                             /\ todo' = [todo EXCEPT ![c] = @ \ {i}]
    BY <1>5 DEF EndOpen
  <2>2. i \in TripIds /\ owner[i] = userState[c] /\ UNCHANGED owner /\ step' = [step EXCEPT ![c] = "dropOpen"]
    BY <1>1, <1>5 DEF EndOpen
  <2>3. ~DbError => i \notin open' /\ \A j \in open' : j \in open
    BY <2>1, <2>2 DEF CloseRow, OpenFor, User
  <2>4. QED
    BY <1>1, <1>2, <1>5, <2>1, <2>2, <2>3 DEF EndOpen
<1>6. CASE DropOpen(c)
  BY <1>1, <1>2, <1>6 DEF DropOpen, LoopDone
<1>7. QED
  BY <1>3, <1>4, <1>5, <1>6 DEF TripStep, CloseTrips

\* A store entry outlives its row by no more than one step.
LEMMA TrackedNext ==
  ASSUME Proved!SessionInv, TypeOK, StepInv, TripInv, RowInv, TrackedTripsOpen, NEW c \in Conns, TripStep(c)
  PROVE  TrackedTripsOpen'
<1>1. Knows(c)
  BY DEF TripInv
<1> USE DEF TrackedTripsOpen, Goto, rows, TypeOK
<1>2. CASE InsertTrip(c)
  BY <1>2 DEF InsertTrip
<1>3. CASE Track(c)
  BY <1>1, <1>3 DEF Track, Knows
<1>4. CASE EndOrphan(c)
  <2>1. trip[c] \notin tracked /\ \A j \in open : j # trip[c] => j \in open'
    BY <1>1, <1>4 DEF EndOrphan, Knows, CloseRow
  <2>2. QED
    BY <1>4, <2>1 DEF EndOrphan
<1>5. CASE EndRow(c)
  <2>1. \A j \in open : j # trip[c] => j \in open'
    BY <1>5 DEF EndRow, CloseRow
  <2>2. CASE step' = [step EXCEPT ![c] = "untrack"]
    BY <1>5, <2>1, <2>2 DEF EndRow
  <2>3. CASE step' = [step EXCEPT ![c] = "reply"] /\ UNCHANGED open
    BY <1>5, <2>3 DEF EndRow
  <2>4. QED
    BY <1>5, <2>2, <2>3 DEF EndRow
<1>6. CASE EndOpen(c)
  <2>1. PICK i \in todo[c] : /\ CloseRow(i, User(c)) \/ (DbError /\ UNCHANGED open)
                             /\ trip' = [trip EXCEPT ![c] = i]
    BY <1>6 DEF EndOpen
  <2>2. \A j \in open : j # i => j \in open'
    BY <2>1 DEF CloseRow
  <2>3. QED
    BY <1>6, <2>1, <2>2 DEF EndOpen
<1>7. CASE Untrack(c) \/ DropOpen(c)
  BY <1>7 DEF Untrack, DropOpen, LoopDone
<1>8. CASE /\ UNCHANGED <<open, tracked>> /\ step[c] \notin {"untrack", "dropOpen"}
           /\ \A d \in Conns \ {c} : step'[d] = step[d] /\ trip'[d] = trip[d]
  BY <1>8
<1>9. QED
  BY <1>2, <1>3, <1>4, <1>5, <1>6, <1>7, <1>8, StepsOfOne
     DEF TripStep, Request, StartTrip, InsertFirst, Stationary, Position, FindTrip, CheckTracked, Update, Record,
         EndTrip, Query, Answer, CloseTrips, ListOpen, Auth!Serve, StepInv, RequestSteps, LoopSteps

\* A row, once inserted, has an owner.
LEMMA RowNext ==
  ASSUME TypeOK, Proved!SessionInv, StepInv, TripInv, RowInv, NEW c \in Conns, TripStep(c)
  PROVE  RowInv'
<1>1. Knows(c)
  BY DEF TripInv
<1>2. pc[c] \in {"serving", "closing"} => userState[c] # None
  BY OneActor, NoneIsNoTrip DEF Acting
<1> USE DEF RowInv, rows, TypeOK
<1>3. CASE InsertTrip(c)
  BY <1>2, <1>3 DEF InsertTrip, User, StepInv, RequestSteps
<1>4. CASE Track(c)
  BY <1>1, <1>4 DEF Track, Knows
<1>5. CASE open' \subseteq open /\ tracked' \subseteq tracked /\ UNCHANGED owner
  BY <1>5
<1>6. QED
  BY <1>3, <1>4, <1>5
     DEF TripStep, Request, StartTrip, InsertFirst, Stationary, Position, FindTrip, CheckTracked, Update, Record,
         EndTrip, EndOrphan, EndRow, Untrack, Query, Answer, CloseTrips, ListOpen, EndOpen, DropOpen, CloseRow

\* A request ends in the loop that reads the next one, or in nothing.
LEMMA RequestNeverLeaves ==
  ASSUME TypeOK, StepInv, NEW c \in Conns, Request(c)
  PROVE  pc'[c] \in {"serving", "idle", "gone"}
BY DEF TypeOK, Auth!TypeOK, StepInv, RequestSteps, access, Auth!Goto, Auth!Reply, Request, StartTrip, InsertTrip,
       InsertFirst, Track, Stationary, Position, FindTrip, CheckTracked, EndOrphan, Update, Record, EndTrip, EndRow,
       Untrack, Query, Answer, Auth!Serve, Auth!Track, Auth!Served

\* A handler that leaves has nothing of its user left when its loop is over.
LEMMA LoopLeavesNothing ==
  ASSUME ServerInv, ~DbError, NEW c \in Conns, CloseTrips(c), pc'[c] # pc[c],
         NEW i \in TripIds, owner[i] = userState[c]
  PROVE  i \notin open' \cup tracked'
<1> USE DEF ServerInv, Goto, Auth!Goto, access
<1>1. Knows(c)
  BY DEF TripInv
<1>2. pc[c] = "closing"
  BY DEF CloseTrips, ListOpen, EndOpen, DropOpen, StepInv, LoopSteps
<1>3. CASE ListOpen(c)
  <2>1. OpenTrips(User(c)) = {} /\ step[c] = "none" /\ UNCHANGED <<open, tracked>>
    BY <1>3 DEF ListOpen, rows, DbError
  <2>2. i \notin open
    BY <2>1 DEF OpenTrips, OpenFor, User
  <2>3. ASSUME i \in tracked
        PROVE  FALSE
    <3>1. PICK d \in Conns : trip[d] = i /\ step[d] \in {"untrack", "dropOpen"}
      BY <2>2, <2>3 DEF TrackedTripsOpen
    <3>2. d = c
      BY <1>2, <3>1, OwnTrip DEF Acting
    <3>3. QED
      BY <2>1, <3>1, <3>2
  <2>4. QED
    BY <2>1, <2>2, <2>3
<1>4. CASE DropOpen(c)
  <2>1. todo[c] = {} /\ UNCHANGED open /\ tracked' = tracked \ {trip[c]} /\ step[c] = "dropOpen"
    BY <1>4 DEF DropOpen, rows
  <2>2. i \notin open
    BY <1>1, <2>1 DEF Knows, LoopSteps
  <2>3. ASSUME i \in tracked, i # trip[c]
        PROVE  FALSE
    <3>1. PICK d \in Conns : trip[d] = i /\ step[d] \in {"untrack", "dropOpen"}
      BY <2>2, <2>3 DEF TrackedTripsOpen
    <3>2. d = c
      BY <1>2, <3>1, OwnTrip DEF Acting
    <3>3. QED
      BY <2>3, <3>1, <3>2
  <2>4. QED
    BY <2>1, <2>2, <2>3
<1>5. QED
  BY <1>3, <1>4 DEF CloseTrips, EndOpen

\* Past close_open_trips.
Left == {"leaveStatus", "leaveSink", "leaveSession"}

\* Nobody adds to what a leaving handler has left behind.
LEMMA SettledNext ==
  ASSUME ServerInv, NEW c \in Conns, TripStep(c)
  PROVE  Settled'
<1> SUFFICES ASSUME ~DbError, NEW d \in Conns, NEW i \in TripIds,
                    pc'[d] \in Left, owner'[i] = userState'[d]
             PROVE  i \notin open' \cup tracked'
  BY DEF Settled, NothingLeftOpen, DbError, Left
<1> USE DEF ServerInv
<1>1. OwnRows(c) /\ UNCHANGED userState
  BY TouchesOwnRows, SameUsers
<1>2. CASE d # c
  <2>1. pc[d] \in Left
    BY <1>2, StepsOfOne
  <2>2. userState[d] # None
    BY <2>1, OneActor, NoneIsNoTrip DEF Left, Acting
  <2>3. CASE pc[c] \in Acting
    <3>1. userState[c] # userState[d] /\ userState[c] # None
      BY <1>2, <2>1, <2>3, OneActor, NoneIsNoTrip DEF Left, Acting
    <3>2. owner[i] = userState[d] /\ (i \in open' <=> i \in open) /\ (i \in tracked' <=> i \in tracked)
      BY <1>1, <3>1 DEF OwnRows
    <3>3. QED
      BY <2>1, <3>2 DEF Settled, NothingLeftOpen, Left
  <2>4. CASE pc[c] \notin Acting
    BY <1>1, <2>1, <2>4, ActsAsUser DEF Settled, NothingLeftOpen, Left, rows
  <2>5. QED
    BY <2>3, <2>4
<1>3. CASE d = c
  <2>1. CASE Request(c)
    BY <1>3, <2>1, RequestNeverLeaves DEF Left
  <2>2. CASE CloseTrips(c)
    <3>1. pc[c] = "closing" /\ UNCHANGED owner
      BY <2>2 DEF CloseTrips, ListOpen, EndOpen, DropOpen, StepInv, LoopSteps, rows
    <3>2. QED
      BY <1>1, <1>3, <2>2, <3>1, LoopLeavesNothing DEF Left
  <2>3. QED
    BY <2>1, <2>2 DEF TripStep
<1>4. QED
  BY <1>2, <1>3

\* Steps of a handler that have nothing to do with trips.
LEMMA OtherNext ==
  ASSUME ServerInv, TypeOK', NEW c \in Conns, Session(c) \/ Forget(c)
  PROVE  TripInv' /\ RowInv' /\ TrackedTripsOpen' /\ Settled'
<1> USE DEF ServerInv, rows, work
<1>1. UNCHANGED <<rows, tracked, work>>
  BY DEF Session, Forget
<1>2. RowInv' /\ TrackedTripsOpen'
  BY <1>1 DEF RowInv, TrackedTripsOpen
<1>3. step[c] \notin RequestSteps \cup LoopSteps
  BY DEF StepInv, RequestSteps, LoopSteps, Session, Forget,
         Auth!Enter, Auth!Connect, Auth!Refuse, Auth!Login, Auth!Register, Auth!SaveUser, Auth!TryInsertToken,
         Auth!Switch, Auth!DropSession, Auth!DropStatus, Auth!DropSink, Auth!Install, Auth!SetStatus, Auth!SetSink,
         Auth!Quit, Auth!Hangup, Auth!Disconnect, Auth!DisconnectOther,
         Auth!LeaveStatus, Auth!LeaveSink, Auth!LeaveSession
<1>4. \A d \in Conns : d # c => userState'[d] = userState[d] /\ pc'[d] = pc[d]
  BY DEF TypeOK, Auth!TypeOK, Auth!Goto, Auth!Reply, Auth!locals, Session, Forget,
         Auth!Enter, Auth!Connect, Auth!Refuse, Auth!Login, Auth!Register, Auth!SaveUser, Auth!TryInsertToken,
         Auth!Switch, Auth!DropSession, Auth!DropStatus, Auth!DropSink, Auth!Install, Auth!SetStatus, Auth!SetSink,
         Auth!Quit, Auth!Hangup, Auth!Disconnect, Auth!DisconnectOther, Auth!Cleanup,
         Auth!LeaveStatus, Auth!LeaveSink, Auth!LeaveSession
<1>5. TripInv'
  BY <1>1, <1>3, <1>4 DEF TripInv, Knows, RequestSteps, LoopSteps, DbError
<1>6. pc'[c] \in Left => pc[c] \in Left /\ userState'[c] = userState[c]
  BY DEF TypeOK, Auth!TypeOK, Auth!Goto, Auth!Reply, Auth!locals, Session, Forget, Left,
         Auth!Enter, Auth!Connect, Auth!Refuse, Auth!Login, Auth!Register, Auth!SaveUser, Auth!TryInsertToken,
         Auth!Switch, Auth!DropSession, Auth!DropStatus, Auth!DropSink, Auth!Install, Auth!SetStatus, Auth!SetSink,
         Auth!Quit, Auth!Hangup, Auth!Disconnect, Auth!DisconnectOther, Auth!Cleanup,
         Auth!LeaveStatus, Auth!LeaveSink, Auth!LeaveSession
<1>7. Settled'
  BY <1>1, <1>4, <1>6 DEF Settled, NothingLeftOpen, DbError, Left
<1>8. QED
  BY <1>2, <1>5, <1>7

-----------------------------------------------------------------------------
\* The invariant holds at first, under every step, and so always.
LEMMA ServerInvInit == Init => ServerInv
<1> SUFFICES ASSUME Init
             PROVE  ServerInv
  OBVIOUS
<1>1. Proved!SessionInv
  BY SessionsHold
<1>2. TypeOK
  BY <1>1, SameStates DEF Init, TypeOK, TripSteps, Proved!SessionInv, Proved!TypeInv, Proved!TypeOK
<1>3. StepInv /\ TripInv /\ RowInv /\ TrackedTripsOpen
  BY DEF Init, Auth!Init, Auth!AllClosed, StepInv, TripInv, Knows, RowInv, TrackedTripsOpen, RequestSteps, LoopSteps
<1>4. Settled
  BY DEF Init, Auth!Init, Auth!AllClosed, Settled, NothingLeftOpen
<1>5. QED
  BY <1>1, <1>2, <1>3, <1>4 DEF ServerInv

LEMMA ServerInvStep == ServerInv /\ [Next]_vars => ServerInv'
<1> SUFFICES ASSUME ServerInv, [Next]_vars
             PROVE  ServerInv'
  OBVIOUS
<1> USE DEF ServerInv
<1>1. Proved!SessionInv'
  BY SessionsHold
<1>2. TypeOK'
  BY <1>1, TypeStep DEF Proved!SessionInv, Proved!TypeInv
<1>3. StepInv'
  BY StepStep DEF Proved!SessionInv
<1>4. ASSUME NEW c \in Conns, TripStep(c)
      PROVE  TripInv' /\ RowInv' /\ TrackedTripsOpen' /\ Settled'
  <2>1. OwnRows(c) /\ UNCHANGED userState
    BY <1>4, TouchesOwnRows, SameUsers
  <2>2. Knows(c)'
    BY <1>4, KnowsNext
  <2>3. ASSUME NEW d \in Conns, d # c
        PROVE  Knows(d)'
    <3>1. step'[d] = step[d] /\ trip'[d] = trip[d] /\ todo'[d] = todo[d] /\ userState'[d] = userState[d]
      BY <1>4, <2>1, <2>3, StepsOfOne
    <3>2. CASE pc[c] \in Acting
      BY <1>2, <2>1, <2>3, <3>1, <3>2, OthersKnow
    <3>3. CASE pc[c] \notin Acting
      <4>1. UNCHANGED <<owner, open, tracked>>
        BY <1>4, <2>1, <3>3, ActsAsUser DEF rows
      <4>2. QED
        BY <3>1, <4>1 DEF TripInv, Knows, DbError
    <3>4. QED
      BY <3>2, <3>3
  <2>4. TripInv'
    BY <2>2, <2>3 DEF TripInv
  <2>5. RowInv' /\ TrackedTripsOpen' /\ Settled'
    BY <1>4, RowNext, TrackedNext, SettledNext
  <2>6. QED
    BY <2>4, <2>5
<1>5. ASSUME NEW c \in Conns, Session(c) \/ Forget(c)
      PROVE  TripInv' /\ RowInv' /\ TrackedTripsOpen' /\ Settled'
  BY <1>2, <1>5, OtherNext
<1>6. CASE Restart
  <2>1. TripInv' /\ TrackedTripsOpen'
    BY <1>6 DEF Restart, TripInv, Knows, TrackedTripsOpen, LoopSteps
  <2>2. RowInv'
    BY <1>6 DEF Restart, RowInv, rows
  <2>3. Settled'
    BY <1>6 DEF Restart, Settled, NothingLeftOpen, Auth!Crash, Auth!AllClosed
  <2>4. QED
    BY <1>1, <1>2, <1>3, <2>1, <2>2, <2>3
<1>7. CASE UNCHANGED vars
  <2> USE <1>7 DEF vars, access, rows, work
  <2>1. TripInv'
    BY DEF TripInv, Knows, DbError
  <2>2. RowInv' /\ TrackedTripsOpen'
    BY DEF RowInv, TrackedTripsOpen
  <2>3. Settled'
    BY DEF Settled, NothingLeftOpen, DbError
  <2>4. QED
    BY <1>1, <1>2, <1>3, <2>1, <2>2, <2>3
<1>8. QED
  BY <1>1, <1>2, <1>3, <1>4, <1>5, <1>6, <1>7 DEF Next, Leave, TripStep

LEMMA ServerInvariant == Spec => []ServerInv
BY ServerInvInit, ServerInvStep, PTL DEF Spec

-----------------------------------------------------------------------------
(***************************************************************************)
(* The theorems.                                                           *)
(***************************************************************************)

\* Every variable keeps its type.
THEOREM ServerTypeCorrect == Spec => []TypeOK
<1>1. ServerInv => TypeOK
  BY DEF ServerInv
<1>2. QED
  BY <1>1, ServerInvariant, PTL

\* The answers POSITION got from the database and from the store stay true
\* until it has acted on them.
THEOREM LookupsStand == Spec => []LookupStands
<1>1. ServerInv => LookupStands
  BY DEF ServerInv, TripInv, Knows, LookupStands
<1>2. QED
  BY <1>1, ServerInvariant, PTL

\* The store never keeps a trip the database has closed, but for the moment
\* between the two.
THEOREM StoreFollowsTable == Spec => []TrackedTripsOpen
<1>1. ServerInv => TrackedTripsOpen
  BY DEF ServerInv
<1>2. QED
  BY <1>1, ServerInvariant, PTL

\* If no query fails, a connection that has run close_open_trips has left its
\* user nothing.
THEOREM CleanupLeavesNothing == ("db" \notin Faults) => (Spec => []NothingLeftOpen)
<1> SUFFICES ASSUME "db" \notin Faults
             PROVE  Spec => []NothingLeftOpen
  OBVIOUS
<1>1. ServerInv => NothingLeftOpen
  BY DEF ServerInv, Settled, DbError
<1>2. QED
  BY <1>1, ServerInvariant, PTL

\* A trip is closed or dropped by a step of the connection that holds its
\* owner's session.
THEOREM OnlyOwnersAct == Spec => OwnerActs
<1> DEFINE Acts == \A i \in TripIds :
             (i \in open \ open' \/ i \in tracked \ tracked') /\ ~Restart
               => \E c \in Conns : Auth!Holds(c, owner[i]) /\ step'[c] # step[c]
<1>1. ServerInv /\ [Next]_vars => [Acts]_vars
  <2> SUFFICES ASSUME ServerInv, Next, ~Restart, NEW i \in TripIds,
                      i \in open \ open' \/ i \in tracked \ tracked'
               PROVE  \E c \in Conns : Auth!Holds(c, owner[i]) /\ step'[c] # step[c]
    OBVIOUS
  <2> USE DEF ServerInv
  <2>1. PICK c \in Conns : TripStep(c)
    BY DEF Next, Leave, TripStep, Session, Forget, rows
  <2>2. OwnRows(c) /\ owner[i] # None
    BY <2>1, TouchesOwnRows DEF RowInv
  <2>3. owner[i] = userState[c]
    BY <2>2 DEF OwnRows
  <2>4. \/ EndOrphan(c) \/ EndRow(c) \/ Untrack(c) \/ EndOpen(c) \/ DropOpen(c)
    BY <2>1 DEF TripStep, Request, StartTrip, InsertTrip, InsertFirst, Track, Stationary, Position, FindTrip,
                CheckTracked, Update, Record, EndTrip, Query, Answer, CloseTrips, ListOpen, rows
  <2>5. step'[c] # step[c]
    BY <2>4 DEF EndOrphan, EndRow, Untrack, EndOpen, DropOpen, LoopDone, Goto, TypeOK
  <2>6. pc[c] \in {"serving", "closing"}
    BY <2>4 DEF EndOrphan, EndRow, Untrack, EndOpen, DropOpen, StepInv, RequestSteps, LoopSteps
  <2>7. Auth!Holds(c, userState[c])
    BY <2>2, <2>3, <2>6, SameStates
       DEF Proved!SessionInv, Proved!HoldInv, Proved!SessionOwned, Proved!Switching
  <2>8. QED
    BY <2>3, <2>5, <2>7
<1>2. QED
  BY <1>1, ServerInvariant, PTL DEF Spec, OwnerActs

\* If no query fails, only a restart makes orphans.
THEOREM OrphansComeFromRestarts == ("db" \notin Faults) => (Spec => NoNewOrphan)
<1> SUFFICES ASSUME "db" \notin Faults
             PROVE  Spec => NoNewOrphan
  OBVIOUS
<1> DEFINE Old == \A i \in TripIds : Orphan(i)' => Orphan(i) \/ Restart
<1>1. ServerInv /\ [Next]_vars => [Old]_vars
  <2> SUFFICES ASSUME ServerInv, Next, ~Restart, NEW i \in TripIds, Orphan(i)'
               PROVE  Orphan(i)
    OBVIOUS
  <2> USE DEF ServerInv, Orphan
  <2>1. ASSUME NEW c \in Conns, Session(c) \/ Forget(c)
        PROVE  Orphan(i)
    BY <2>1 DEF Session, Forget, rows, work
  <2>2. ASSUME NEW c \in Conns, TripStep(c)
        PROVE  Orphan(i)
    <3> USE DEF Goto, TypeOK, rows, DbError
    <3>1. Knows(c) /\ \A d \in Conns : d # c => step'[d] = step[d] /\ trip'[d] = trip[d]
      BY <2>2, StepsOfOne DEF TripInv
    <3>2. i \in open
      BY <2>2 DEF TripStep, Request, StartTrip, InsertTrip, InsertFirst, Track, Stationary, Position, FindTrip,
             CheckTracked, EndOrphan, Update, Record, EndTrip, EndRow, Untrack, Query, Answer, CloseTrips,
             ListOpen, EndOpen, DropOpen, CloseRow
    <3>3. i \notin tracked
      <4>1. CASE UNCHANGED tracked
        BY <4>1
      <4>2. CASE Track(c)
        BY <4>2 DEF Track
      <4>3. CASE Untrack(c) \/ DropOpen(c)
        BY <3>1, <3>2, <4>3 DEF Untrack, DropOpen, Knows
      <4>4. QED
        BY <2>2, <4>1, <4>2, <4>3
           DEF TripStep, Request, StartTrip, InsertTrip, InsertFirst, Stationary, Position, FindTrip,
               CheckTracked, EndOrphan, Update, Record, EndTrip, EndRow, Query, Answer, CloseTrips,
               ListOpen, EndOpen
    <3>4. ~(trip[c] = i /\ step[c] \in {"insertFirst", "track"})
      <4> SUFFICES ASSUME trip[c] = i, step[c] \in {"insertFirst", "track"}
                   PROVE  FALSE
        OBVIOUS
      <4>1. InsertFirst(c) \/ Track(c)
        BY <2>2 DEF TripStep, Request, StartTrip, InsertTrip, Stationary, Position, FindTrip,
               CheckTracked, EndOrphan, Update, Record, EndTrip, EndRow, Untrack, Query, Answer, CloseTrips,
               ListOpen, EndOpen, DropOpen, Auth!Serve, StepInv, RequestSteps
      <4>2. QED
        BY <4>1 DEF InsertFirst, Track
    <3>5. QED
      BY <3>1, <3>2, <3>3, <3>4
  <2>3. QED
    BY <2>1, <2>2 DEF Next, Leave, TripStep
<1>2. QED
  BY <1>1, ServerInvariant, PTL DEF Spec, NoNewOrphan
=============================================================================
