------------------------------- MODULE Client -------------------------------
(***************************************************************************)
(* The command line client (client/src/main.rs) and the one handler of the *)
(* server it talks to.                                                     *)
(*                                                                         *)
(* Three tasks share the cells token, trip and autopos_enabled, each       *)
(* behind a mutex of its own that is held for one access: the command      *)
(* loop, autopos_task and recv_task.  They meet a server that answers in   *)
(* order and at its own pace: what it sent may be read by recv_task        *)
(* between any two accesses of the others.                                 *)
(*                                                                         *)
(* The handler is here what Sessions.tla and Server.tla say of one         *)
(* connection, a request being one step.  A reply that the client only     *)
(* prints (Ack, errors, statistics, chat) is not sent.  /stats and /chat   *)
(* read the token like /start and change nothing; they are left out, and   *)
(* so are the coordinates.  Of the server's other connections there is     *)
(* what they can do to the trips of this one (Elsewhere).                  *)
(***************************************************************************)
EXTENDS Naturals, Sequences

CONSTANTS Users, None,
          Tokens, Trips,   \* numbers, handed out in order
          Faults,    \* "db": a query fails; "lost": the connection breaks
          MaxQueue   \* bound on the messages under way to the server

ASSUME NoneIsNothing == None \notin Users \cup Tokens \cup Trips
ASSUME Numbered == Tokens \cup Trips \subseteq Nat
ASSUME ClientFaults == Faults \subseteq {"db", "lost"}
ASSUME RoomInQueue == MaxQueue \in Nat \ {0}

VARIABLES token, trip, auto,    \* the shared cells
          loop,                 \* next step of the command loop
          cmd,                  \* the message it is making
          job,                  \* next step of autopos_task
          report,               \* the POSITION it is making
          recv,                 \* recv_task is running
          conn,                 \* the server's side of the connection is open
          up, down,             \* messages under way
          user, live,           \* user_state of the handler, its user's token
          issued,               \* tokens drawn so far
          owner, open,          \* rows of the trips table, those not ended
          startedIn,            \* token of each trip's START_TRIP (history)
          learned,              \* trips told to the client
          ends,                 \* END_TRIPs sent for each trip
          late                  \* reports sent after one (these three are
                                \* history; 2 stands for more than one)

cells == <<token, trip, auto>>
command == <<loop, cmd>>
autopos == <<job, report>>
link == <<conn, up, down>>
server == <<user, live, issued, owner, open, startedIn>>
history == <<learned, ends, late>>
vars == <<cells, command, autopos, recv, link, server, history>>

Request ==
  [type : {"LOGIN"}, user : Users]
    \cup [type : {"START_TRIP"}, token : Tokens]
    \cup [type : {"POSITION", "END_TRIP"}, token : Tokens, trip : Trips]
    \cup [type : {"DISCONNECT"}, token : Tokens \cup {None}]
    \cup [type : {"CLOSE"}]

\* A message before its trip has been read.
Draft == [type : {"POSITION", "END_TRIP"}, token : Tokens, trip : {None}]

Answer == [type : {"AUTH_OK"}, token : Tokens]
            \cup [type : {"TRIP_STARTED"}, trip : Trips]
            \cup [type : {"CLOSE"}]

TypeOK == /\ token \in Tokens \cup {None}
          /\ trip \in Trips \cup {None}
          /\ auto \in BOOLEAN
          /\ loop \in {"read", "trip", "forget", "stopAuto", "send", "quit", "done"}
          /\ cmd \in Request \cup Draft \cup {None}
          /\ job \in {"tick", "token", "trip", "send", "off"}
          /\ report \in Request \cup Draft \cup {None}
          /\ recv \in BOOLEAN /\ conn \in BOOLEAN
          /\ \A k \in DOMAIN up : up[k] \in Request
          /\ \A k \in DOMAIN down : down[k] \in Answer
          /\ user \in Users \cup {None} /\ live \in issued \cup {None}
          /\ issued \subseteq Tokens
          /\ owner \in [Trips -> Users \cup {None}]
          /\ open \subseteq {i \in Trips : owner[i] # None}
          /\ startedIn \in [Trips -> issued \cup {None}]
          /\ learned \subseteq Trips
          /\ ends \in [Trips -> 0..2] /\ late \in [Trips -> 0..2]

Init == /\ token = None /\ trip = None /\ auto = FALSE
        /\ loop = "read" /\ cmd = None
        /\ job = "tick" /\ report = None
        /\ recv = TRUE /\ conn = TRUE
        /\ up = <<>> /\ down = <<>>
        /\ user = None /\ live = None /\ issued = {}
        /\ owner = [i \in Trips |-> None] /\ open = {}
        /\ startedIn = [i \in Trips |-> None]
        /\ learned = {}
        /\ ends = [i \in Trips |-> 0] /\ late = [i \in Trips |-> 0]

-----------------------------------------------------------------------------
(***************************************************************************)
(* The command loop: parse_cmd and what main does with its message.        *)
(***************************************************************************)
\* A command that reads the token; "" (None) is the token of a /quit without.
Typed(msg, next) == /\ loop = "read"
                    /\ cmd' = msg
                    /\ loop' = next
                    /\ UNCHANGED <<token, trip, autopos, recv, link, server, history>>

\* /start: require_token; the automatic positions are on before the trip is.
Start == /\ token # None
         /\ Typed([type |-> "START_TRIP", token |-> token], "send")
         /\ auto' = TRUE

\* /pos and /end: require_token.
OnTrip(type) == /\ token # None
                /\ Typed([type |-> type, token |-> token, trip |-> None], "trip")
                /\ UNCHANGED auto

Quit == /\ Typed([type |-> "DISCONNECT", token |-> token], "send")
        /\ UNCHANGED auto

\* Mutant: an END_TRIP is sent without forgetting the trip.
ReadTripAndSend ==
  /\ loop = "trip"
  /\ \/ /\ trip = None \/ cmd.type = "POSITION"
        /\ cmd' = None
        /\ loop' = "read"
     \/ /\ trip # None
        /\ cmd' = [cmd EXCEPT !.trip = trip]
        /\ loop' = "send"
  /\ UNCHANGED <<cells, autopos, recv, link, server, history>>

\* /pos and /end: require_trip.  A /pos with bad numbers comes to nothing too.
ReadTrip ==
  /\ loop = "trip"
  /\ \/ /\ trip = None \/ cmd.type = "POSITION"
        /\ cmd' = None
        /\ loop' = "read"
     \/ /\ trip # None
        /\ cmd' = [cmd EXCEPT !.trip = trip]
        /\ loop' = IF cmd.type = "END_TRIP" THEN "forget" ELSE "send"
  /\ UNCHANGED <<cells, autopos, recv, link, server, history>>

\* main, before it sends an END_TRIP.
Forget == /\ loop = "forget"
          /\ trip' = None
          /\ loop' = "stopAuto"
          /\ UNCHANGED <<token, auto, cmd, autopos, recv, link, server, history>>

StopAuto == /\ loop = "stopAuto"
            /\ auto' = FALSE
            /\ loop' = "send"
            /\ UNCHANGED <<token, trip, cmd, autopos, recv, link, server, history>>

\* What is sent is noted: ends, and reports that follow one.
Count(n) == IF n < 2 THEN n + 1 ELSE n

Note(msg) ==
  /\ ends' = [i \in Trips |-> IF msg.type = "END_TRIP" /\ msg.trip = i
                              THEN Count(ends[i]) ELSE ends[i]]
  /\ late' = [i \in Trips |-> IF msg.type = "POSITION" /\ msg.trip = i /\ ends[i] > 0
                              THEN Count(late[i]) ELSE late[i]]
  /\ UNCHANGED learned

\* send_msg: the frame is on its way, or, when the other side is gone, lost.
\* MaxQueue bounds the model.
Deliver(msg) == /\ \/ conn /\ Len(up) < MaxQueue /\ up' = Append(up, msg)
                   \/ ~conn /\ UNCHANGED up
                /\ Note(msg)

\* The process ends, and its tasks with it.
Exit == /\ loop' = "done"
        /\ cmd' = None
        /\ job' = "off" /\ report' = None
        /\ recv' = FALSE

\* Mutant: a message that was sent may be tried again.
SendAndRetry(msg) ==
  /\ Deliver(msg)
  /\ \/ /\ loop' = IF msg.type = "DISCONNECT" THEN "quit" ELSE "read"
        /\ cmd' = None
     \/ UNCHANGED command
  /\ UNCHANGED <<autopos, recv, cells, conn, down, server>>

\* send_msg in main, where an error ends the program.
SendOrExit(msg) ==
  /\ \/ /\ Deliver(msg)
        /\ loop' = IF msg.type = "DISCONNECT" THEN "quit" ELSE "read"
        /\ cmd' = None
        /\ UNCHANGED <<autopos, recv>>
     \/ /\ ~conn
        /\ Exit
        /\ UNCHANGED <<up, history>>
  /\ UNCHANGED <<cells, conn, down, server>>

Send == loop = "send" /\ SendOrExit(cmd)

\* /register and /login, which read no cell.
Login(u) == loop = "read" /\ SendOrExit([type |-> "LOGIN", user |-> u])

\* 200 ms after a DISCONNECT, or at the end of the input: a Close frame, and
\* both tasks are aborted.
Leave == /\ loop \in {"read", "quit"}
         /\ up' = IF conn THEN Append(up, [type |-> "CLOSE"]) ELSE up
         /\ Exit
         /\ UNCHANGED <<cells, conn, down, server, history>>

Loop == \/ \E u \in Users : Login(u)
        \/ Start \/ Quit
        \/ \E type \in {"POSITION", "END_TRIP"} : OnTrip(type)
        \/ ReadTrip \/ Forget \/ StopAuto
        \/ Send \/ Leave

-----------------------------------------------------------------------------
(***************************************************************************)
(* autopos_task: every 30 seconds, if all three cells are set.             *)
(***************************************************************************)
JobGoto(step, msg) == /\ job' = step
                      /\ report' = msg
                      /\ UNCHANGED <<cells, command, recv, conn, down, server>>

Tick == /\ job = "tick"
        /\ auto
        /\ JobGoto("token", None)
        /\ UNCHANGED <<up, history>>

ReadToken == /\ job = "token"
             /\ \/ token = None /\ JobGoto("tick", None)
                \/ /\ token # None
                   /\ JobGoto("trip", [type |-> "POSITION", token |-> token, trip |-> None])
             /\ UNCHANGED <<up, history>>

\* Mutant: the task does not care whether there is a trip.
ReadCurrentUnchecked == /\ job = "trip"
                        /\ JobGoto("send", [report EXCEPT !.trip = trip])
                        /\ UNCHANGED <<up, history>>

\* Mutant: without a trip the task gives up.
ReadCurrentOrStop ==
  /\ job = "trip"
  /\ \/ trip = None /\ JobGoto("off", None)
     \/ trip # None /\ JobGoto("send", [report EXCEPT !.trip = trip])
  /\ UNCHANGED <<up, history>>

\* Without a trip there is nothing to report this time.
ReadCurrent == /\ job = "trip"
               /\ \/ trip = None /\ JobGoto("tick", None)
                  \/ trip # None /\ JobGoto("send", [report EXCEPT !.trip = trip])
               /\ UNCHANGED <<up, history>>

\* A failing send ends the task, and nothing else.
SendReport == /\ job = "send"
              /\ \/ Deliver(report) /\ JobGoto("tick", None)
                 \/ ~conn /\ JobGoto("off", None) /\ UNCHANGED <<up, history>>

Autopos == Tick \/ ReadToken \/ ReadCurrent \/ SendReport

-----------------------------------------------------------------------------
(***************************************************************************)
(* recv_task.                                                              *)
(***************************************************************************)
Receive ==
  /\ recv
  /\ down # <<>>
  /\ down' = Tail(down)
  /\ LET msg == Head(down)
     IN  /\ token' = IF msg.type = "AUTH_OK" THEN msg.token ELSE token
         /\ trip' = IF msg.type = "TRIP_STARTED" THEN msg.trip ELSE trip
         /\ learned' = IF msg.type = "TRIP_STARTED" THEN learned \cup {msg.trip} ELSE learned
         /\ recv' = (msg.type # "CLOSE")
  /\ UNCHANGED <<auto, command, autopos, conn, up, server, ends, late>>

\* The end of the stream: the task ends, and the others do not notice.
StreamEnd == /\ recv
             /\ ~conn
             /\ down = <<>>
             /\ recv' = FALSE
             /\ UNCHANGED <<cells, command, autopos, link, server, history>>

-----------------------------------------------------------------------------
(***************************************************************************)
(* The handler.                                                            *)
(***************************************************************************)
Valid(t) == user # None /\ live = t

Read(msg) == /\ conn
             /\ up # <<>>
             /\ msg = Head(up)
             /\ up' = Tail(up)
             /\ UNCHANGED <<cells, command, autopos, recv, history>>

\* Refused, with an error and no change, or answered with an Ack that
\* changes nothing: a POSITION always.
Refuse(msg) == /\ Read(msg)
               /\ \/ msg.type \in {"LOGIN", "POSITION"}
                  \/ msg.type \in {"START_TRIP", "END_TRIP"} /\ (~Valid(msg.token) \/ "db" \in Faults)
                  \/ msg.type = "END_TRIP" /\ ~(msg.trip \in open /\ owner[msg.trip] = user)
               /\ UNCHANGED <<conn, down, server>>

\* LOGIN and REGISTER by a connection that is not that user already.
Admit(msg) == /\ Read(msg)
              /\ msg.type = "LOGIN"
              /\ msg.user # user
              /\ \E t \in Tokens :
                   /\ \A s \in Tokens : s < t <=> s \in issued
                   /\ issued' = issued \cup {t}
                   /\ live' = t
                   /\ down' = Append(down, [type |-> "AUTH_OK", token |-> t])
              /\ user' = msg.user
              /\ UNCHANGED <<conn, owner, open, startedIn>>

\* The new trip's row; if the query after it fails the row stays and the
\* client gets an error.
OpenTrip(msg) == /\ Read(msg)
                 /\ msg.type = "START_TRIP"
                 /\ Valid(msg.token)
                 /\ \E i \in Trips :
                      /\ \A j \in Trips : j < i <=> owner[j] # None
                      /\ owner' = [owner EXCEPT ![i] = user]
                      /\ open' = open \cup {i}
                      /\ startedIn' = [startedIn EXCEPT ![i] = msg.token]
                      /\ \/ down' = Append(down, [type |-> "TRIP_STARTED", trip |-> i])
                         \/ "db" \in Faults /\ UNCHANGED down
                 /\ UNCHANGED <<conn, user, live, issued>>

CloseTrip(msg) == /\ Read(msg)
                  /\ msg.type = "END_TRIP"
                  /\ Valid(msg.token)
                  /\ msg.trip \in open /\ owner[msg.trip] = user
                  /\ open' = open \ {msg.trip}
                  /\ UNCHANGED <<conn, down, user, live, issued, owner, startedIn>>

\* DISCONNECT or the cleanup: trips and session of the handler's user.
Cleanup == /\ conn' = FALSE
           /\ open' = {i \in open : owner[i] # user}
           /\ user' = None /\ live' = None
           /\ UNCHANGED <<issued, owner, startedIn>>

Hangup(msg) == /\ Read(msg)
               /\ msg.type \in {"DISCONNECT", "CLOSE"}
               /\ Cleanup
               /\ down' = Append(down, [type |-> "CLOSE"])

Handler == \E msg \in {up[k] : k \in DOMAIN up} :
  Refuse(msg) \/ Admit(msg) \/ OpenTrip(msg) \/ CloseTrip(msg) \/ Hangup(msg)

\* The connection breaks: what was under way is lost, from some point on.
Break == /\ "lost" \in Faults
         /\ conn
         /\ Cleanup
         /\ up' = <<>>
         /\ \E k \in 0..Len(down) : down' = SubSeq(down, 1, k)
         /\ UNCHANGED <<cells, command, autopos, recv, history>>

\* A trip of somebody this connection is not, or is no longer since it has
\* switched accounts: that user may have logged in on another connection, which
\* ends the trip, or all of them as it leaves.  (When this connection has ended
\* nothing here depends on it any more.)
Elsewhere(i) == /\ conn
                /\ i \in open
                /\ owner[i] # user
                /\ open' = open \ {i}
                /\ UNCHANGED <<cells, command, autopos, recv, link, user, live, issued, owner,
                               startedIn, history>>

Next == \/ Loop \/ Autopos \/ Receive \/ StreamEnd \/ Handler \/ Break
        \/ \E i \in Trips : Elsewhere(i)

\* The tasks of the client that do not wait for the user, and the handler.
Fairness == /\ WF_vars(Autopos)
            /\ SF_vars(SendReport)
            /\ WF_vars(Receive)
            /\ WF_vars(Handler)

Spec == Init /\ [][Next]_vars /\ Fairness

-----------------------------------------------------------------------------
(***************************************************************************)
(* Properties.                                                             *)
(***************************************************************************)

\* As long as the session lasts that a trip was started in, the trip is open
\* while the client goes by it: it is forgotten before its END_TRIP is sent, so
\* that no position is made from a trip that may be closed (main.rs:201-206).
\* After a switch of accounts the client keeps the old trip (120-123), which
\* may be closed, though its first user logs in here again.
KnownIsOpen == trip # None /\ startedIn[trip] = live => trip \in open

\* "[autopos] active: will send a POSITION every 30 seconds after
\* TRIP_STARTED" (main.rs:257): again and again one is sent for the trip the
\* client goes by, unless it has none, the automatic positions are off or the
\* connection or the program has ended.
KeepsReporting == []<>(trip # None /\ auto /\ conn /\ loop # "done" =>
  \E k \in DOMAIN up : up[k].type = "POSITION" /\ up[k].trip = trip)

\* What the client has of each trip.
Phase == [i \in Trips |-> IF trip = i THEN "current"
                          ELSE IF i \in learned THEN "dropped"
                          ELSE "unknown"]

Life == INSTANCE TripLife WITH phase <- Phase

\* However replies, commands and automatic positions interleave: the client
\* takes note of a trip once, sends one END_TRIP for it at most, after it has
\* let go of it, and no more than one position that was under way follows.
LivesOfTrips == Life!Spec
=============================================================================
