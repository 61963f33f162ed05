---------------------------- MODULE ClientProofs ----------------------------
(***************************************************************************)
(* Theorems about Client.tla, for any users, tokens, trips, faults and     *)
(* length of the queue.                                                    *)
(*                                                                         *)
(* The argument follows a trip's id on its way: the server announces a new *)
(* row once (WayInv), the client takes the id from the announcement only,  *)
(* and lets go of it before it sends the END_TRIP (TripInv), which nobody  *)
(* else can send for it as long as the session lasts that the trip was     *)
(* started in (SessionInv).  A report of autopos_task may hold an id the   *)
(* client has let go of, but the task reads the id anew for the next one,  *)
(* so a single report comes late.                                          *)
(***************************************************************************)
EXTENDS Client, SequenceTheorems, TLAPS

\* TypeOK by the parts of the system the variables belong to, and what each
\* task is making.
CellTypes == /\ token \in Tokens \cup {None} /\ trip \in Trips \cup {None}
             /\ auto \in BOOLEAN /\ recv \in BOOLEAN

LoopTypes == /\ loop \in {"read", "trip", "forget", "stopAuto", "send", "quit", "done"}
             /\ cmd \in Request \cup Draft \cup {None}
             /\ loop = "trip" => cmd \in Draft
             /\ loop \in {"forget", "stopAuto", "send"} => cmd \in Request
             /\ loop \in {"forget", "stopAuto"} => cmd.type = "END_TRIP"

JobTypes == /\ job \in {"tick", "token", "trip", "send", "off"}
            /\ report \in Request \cup Draft \cup {None}
            /\ job = "trip" => report \in Draft /\ report.type = "POSITION"
            /\ job = "send" => report \in Request /\ report.type = "POSITION"

QueueTypes == up \in Seq(Request) /\ down \in Seq(Answer)

ServerTypes == /\ conn \in BOOLEAN
               /\ user \in Users \cup {None} /\ live \in issued \cup {None}
               /\ issued \subseteq Tokens
               /\ owner \in [Trips -> Users \cup {None}]
               /\ open \subseteq Trips /\ \A i \in open : owner[i] # None
               /\ startedIn \in [Trips -> issued \cup {None}]

HistoryTypes == /\ learned \subseteq Trips
                /\ ends \in [Trips -> 0..2] /\ late \in [Trips -> 0..2]

TypeInv == CellTypes /\ LoopTypes /\ JobTypes /\ QueueTypes /\ ServerTypes /\ HistoryTypes

\* Trips the client has sent an END_TRIP for.
Ended == {i \in Trips : ends[i] # 0}

\* What the client has of its trips: the one it goes by, and any it is about to
\* send something for, has been learned; it does not go by one it has ended or
\* is about to end, and a report is under way to one it has ended only once.
TripInv ==
  /\ trip # None => trip \in learned \ Ended
  /\ Ended \subseteq learned
  /\ loop \in {"forget", "stopAuto", "send"} /\ cmd.type \in {"POSITION", "END_TRIP"}
       => cmd.trip \in learned \ Ended
  /\ loop \in {"stopAuto", "send"} /\ cmd.type = "END_TRIP" => cmd.trip # trip
  /\ job = "send" => report.trip \in learned /\ late[report.trip] = 0
  /\ \A i \in Trips : late[i] # 0 => late[i] = 1 /\ i \in Ended
  /\ \A i \in Ended : ends[i] = 1

\* A session is of one user, and its trips are that user's; a token is drawn
\* once.
SessionInv ==
  /\ live # None => user # None
  /\ \A i \in Trips : (owner[i] = None) <=> (startedIn[i] = None)
  /\ \A i \in Trips : live # None /\ startedIn[i] = live => owner[i] = user

\* A TRIP_STARTED is under way at most once, for a trip the client has not
\* learned; an END_TRIP, for one it has ended.
WayInv ==
  /\ \A i \in learned : owner[i] # None
  /\ \A k \in DOMAIN up : up[k].type = "END_TRIP" => up[k].trip \in Ended
  /\ \A k \in DOMAIN down : down[k].type = "TRIP_STARTED" =>
       /\ down[k].trip \notin learned /\ owner[down[k].trip] # None
       /\ live # None /\ startedIn[down[k].trip] = live => down[k].trip \in open
  /\ \A k, l \in DOMAIN down :
       down[k].type = "TRIP_STARTED" /\ down[l].type = "TRIP_STARTED" /\ down[l].trip = down[k].trip
         => k = l

-----------------------------------------------------------------------------
(***************************************************************************)
(* Queues and messages.                                                    *)
(***************************************************************************)
\* What is taken from a queue, put into one, and what is left of a cut one.
LEMMA Taken ==
  ASSUME NEW S, NEW s \in Seq(S), s # <<>>
  PROVE  /\ Head(s) \in S /\ Head(s) = s[1] /\ 1 \in DOMAIN s
         /\ Tail(s) \in Seq(S)
         /\ \A k \in DOMAIN Tail(s) : k + 1 \in DOMAIN s /\ Tail(s)[k] = s[k + 1] /\ k # 0 /\ k \in Nat
BY HeadTailProperties

LEMMA Added ==
  ASSUME NEW S, NEW s \in Seq(S), NEW m \in S
  PROVE  /\ Append(s, m) \in Seq(S)
         /\ Append(s, m)[Len(s) + 1] = m
         /\ \A k \in DOMAIN Append(s, m) :
              \/ k \in DOMAIN s /\ Append(s, m)[k] = s[k]
              \/ k = Len(s) + 1
BY AppendProperties

LEMMA Cut ==
  ASSUME NEW S, NEW s \in Seq(S), NEW n \in 0..Len(s)
  PROVE  /\ SubSeq(s, 1, n) \in Seq(S)
         /\ \A k \in DOMAIN SubSeq(s, 1, n) : k \in DOMAIN s /\ SubSeq(s, 1, n)[k] = s[k]
BY SubSeqProperties

\* What the fields of a message are.
LEMMA Fields ==
  /\ \A m \in Request : m.type \in {"POSITION", "END_TRIP"} => m.trip \in Trips
  /\ \A m \in Answer : /\ m.type = "TRIP_STARTED" => m.trip \in Trips
                       /\ m.type = "AUTH_OK" => m.token \in Tokens
                       /\ m.type \in {"TRIP_STARTED", "AUTH_OK", "CLOSE"}
BY DEF Request, Answer

\* A draft is a message once its trip is in.
LEMMA Filled ==
  ASSUME NEW m \in Draft, NEW i \in Trips
  PROVE  LET f == [m EXCEPT !.trip = i]
         IN  f \in Request /\ f.type = m.type /\ f.trip = i /\ f.type \in {"POSITION", "END_TRIP"}
BY DEF Draft, Request

\* What the client makes.
LEMMA Made ==
  /\ \A t \in Tokens :
       /\ [type |-> "START_TRIP", token |-> t] \in Request
       /\ \A k \in {"POSITION", "END_TRIP"} : [type |-> k, token |-> t, trip |-> None] \in Draft
       /\ [type |-> "AUTH_OK", token |-> t] \in Answer
  /\ \A t \in Tokens \cup {None} : [type |-> "DISCONNECT", token |-> t] \in Request
  /\ \A u \in Users : [type |-> "LOGIN", user |-> u] \in Request
  /\ \A i \in Trips : [type |-> "TRIP_STARTED", trip |-> i] \in Answer
  /\ [type |-> "CLOSE"] \in Request \cap Answer
BY DEF Request, Draft, Answer

-----------------------------------------------------------------------------
(***************************************************************************)
(* Types.                                                                  *)
(***************************************************************************)
\* The parts make up the type invariant.
LEMMA TypesAreOK == TypeInv => TypeOK
<1> SUFFICES ASSUME TypeInv
             PROVE  TypeOK
  OBVIOUS
<1>1. (\A k \in DOMAIN up : up[k] \in Request) /\ (\A k \in DOMAIN down : down[k] \in Answer)
  BY DEF TypeInv, QueueTypes
<1>2. QED
  BY <1>1 DEF TypeInv, CellTypes, LoopTypes, JobTypes, ServerTypes, HistoryTypes, TypeOK

LEMMA TypeInit == Init => TypeInv
<1> SUFFICES ASSUME Init
             PROVE  TypeInv
  OBVIOUS
<1>1. CellTypes /\ LoopTypes /\ JobTypes
  BY NoneIsNothing DEF Init, CellTypes, LoopTypes, JobTypes
<1>2. QueueTypes
  BY DEF Init, QueueTypes
<1>3. ServerTypes /\ HistoryTypes
  BY DEF Init, ServerTypes, HistoryTypes
<1>4. QED
  BY <1>1, <1>2, <1>3 DEF TypeInv

\* What sending a message does to the queue and the history.
LEMMA Delivered ==
  ASSUME TypeInv, NEW m \in Request, Deliver(m)
  PROVE  up' \in Seq(Request) /\ HistoryTypes'
<1> USE DEF TypeInv
<1>1. up' \in Seq(Request)
  BY Added DEF Deliver, QueueTypes
<1>2. learned' \subseteq Trips
  BY DEF Deliver, Note, HistoryTypes
<1>3. \A n \in 0..2 : Count(n) \in 0..2
  BY DEF Count
<1>4. ends' \in [Trips -> 0..2] /\ late' \in [Trips -> 0..2]
  BY <1>3 DEF Deliver, Note, HistoryTypes
<1>5. QED
  BY <1>1, <1>2, <1>4 DEF HistoryTypes

LEMMA TypeStep == TypeInv /\ [Next]_vars => TypeInv'
<1> SUFFICES ASSUME TypeInv, [Next]_vars
             PROVE  TypeInv'
  OBVIOUS
<1> USE NoneIsNothing DEF TypeInv, cells, command, autopos, link, server, history
<1>a. UNCHANGED <<cells, recv>> => CellTypes'
  BY DEF CellTypes
<1>b. UNCHANGED command => LoopTypes'
  BY DEF LoopTypes
<1>c. UNCHANGED autopos => JobTypes'
  BY DEF JobTypes
<1>d. UNCHANGED link => QueueTypes'
  BY DEF QueueTypes
<1>e. UNCHANGED <<conn, server>> => ServerTypes'
  BY DEF ServerTypes
<1>f. UNCHANGED history => HistoryTypes'
  BY DEF HistoryTypes
<1> USE <1>a, <1>b, <1>c, <1>d, <1>e, <1>f
<1>1. ASSUME NEW m \in Request, SendOrExit(m)
      PROVE  TypeInv'
  <2>1. LoopTypes' /\ ServerTypes'
    BY <1>1 DEF SendOrExit, Exit, LoopTypes
  <2>2. CellTypes' /\ JobTypes'
    BY <1>1 DEF SendOrExit, Exit, CellTypes, JobTypes
  <2>3. QueueTypes' /\ HistoryTypes'
    BY <1>1, Delivered DEF SendOrExit, QueueTypes
  <2>4. QED
    BY <2>1, <2>2, <2>3
<1>2. CASE Loop
  <2>1. CASE \E u \in Users : Login(u)
    BY <1>1, <2>1, Made DEF Login
  <2>2. CASE Start \/ Quit \/ \E type \in {"POSITION", "END_TRIP"} : OnTrip(type)
    <3>1. LoopTypes'
      BY <2>2, Made DEF Start, Quit, OnTrip, Typed, CellTypes, LoopTypes
    <3>2. CellTypes'
      BY <2>2 DEF Start, Quit, OnTrip, Typed, CellTypes
    <3>3. QED
      BY <2>2, <3>1, <3>2 DEF Start, Quit, OnTrip, Typed
  <2>3. CASE ReadTrip
    <3>1. LoopTypes'
      <4>1. CASE cmd' = None /\ loop' = "read"
        BY <4>1 DEF LoopTypes
      <4>2. CASE /\ trip # None /\ cmd' = [cmd EXCEPT !.trip = trip]
                 /\ loop' = IF cmd.type = "END_TRIP" THEN "forget" ELSE "send"
        BY <2>3, <4>2, Filled DEF ReadTrip, LoopTypes, CellTypes
      <4>3. QED
        BY <2>3, <4>1, <4>2 DEF ReadTrip
    <3>2. QED
      BY <2>3, <3>1 DEF ReadTrip
  <2>4. CASE Forget \/ StopAuto
    BY <2>4 DEF Forget, StopAuto, CellTypes, LoopTypes
  <2>5. CASE Send
    BY <1>1, <2>5 DEF Send, LoopTypes
  <2>6. CASE Leave
    <3>1. QueueTypes'
      BY <2>6, Made, Added DEF Leave, QueueTypes
    <3>2. CellTypes' /\ LoopTypes' /\ JobTypes'
      BY <2>6 DEF Leave, Exit, CellTypes, LoopTypes, JobTypes
    <3>3. QED
      BY <2>6, <3>1, <3>2 DEF Leave
  <2>7. QED
    BY <1>2, <2>1, <2>2, <2>3, <2>4, <2>5, <2>6 DEF Loop
<1>3. CASE Autopos
  <2> USE DEF JobGoto
  <2>1. JobTypes'
    <3>1. CASE Tick \/ SendReport
      BY <3>1 DEF Tick, SendReport, JobTypes
    <3>2. CASE ReadToken
      <4>1. CASE job' = "tick" /\ report' = None
        BY <4>1 DEF JobTypes
      <4>2. CASE token # None /\ job' = "trip" /\ report' = [type |-> "POSITION", token |-> token, trip |-> None]
        BY <4>2, Made DEF JobTypes, CellTypes
      <4>3. QED
        BY <3>2, <4>1, <4>2 DEF ReadToken
    <3>3. CASE ReadCurrent
      <4>1. CASE job' = "tick" /\ report' = None
        BY <4>1 DEF JobTypes
      <4>2. CASE trip # None /\ job' = "send" /\ report' = [report EXCEPT !.trip = trip]
        BY <3>3, <4>2, Filled DEF ReadCurrent, JobTypes, CellTypes
      <4>3. QED
        BY <3>3, <4>1, <4>2 DEF ReadCurrent
    <3>4. QED
      BY <1>3, <3>1, <3>2, <3>3 DEF Autopos
  <2>2. QueueTypes' /\ HistoryTypes'
    BY <1>3, Delivered DEF Autopos, Tick, ReadToken, ReadCurrent, SendReport, JobTypes, QueueTypes
  <2>3. CellTypes' /\ LoopTypes' /\ ServerTypes'
    BY <1>3 DEF Autopos, Tick, ReadToken, ReadCurrent, SendReport
  <2>4. QED
    BY <2>1, <2>2, <2>3
<1>4. CASE Receive
  <2>1. Head(down) \in Answer /\ down' \in Seq(Answer)
    BY <1>4, Taken DEF Receive, QueueTypes
  <2>2. CellTypes'
    BY <1>4, <2>1, Fields DEF Receive, CellTypes
  <2>3. HistoryTypes'
    BY <1>4, <2>1, Fields DEF Receive, HistoryTypes
  <2>4. QED
    BY <1>4, <2>1, <2>2, <2>3 DEF Receive, QueueTypes
<1>5. CASE StreamEnd
  <2>1. CellTypes'
    BY <1>5 DEF StreamEnd, CellTypes
  <2>2. QED
    BY <1>5, <2>1 DEF StreamEnd
<1>6. CASE Handler
  <2> PICK m \in {up[k] : k \in DOMAIN up} :
             Refuse(m) \/ Admit(m) \/ OpenTrip(m) \/ CloseTrip(m) \/ Hangup(m)
    BY <1>6 DEF Handler
  <2>1. Read(m)
    BY DEF Refuse, Admit, OpenTrip, CloseTrip, Hangup
  <2>2. m \in Request /\ up' \in Seq(Request)
    BY <2>1, Taken DEF Read, QueueTypes
  <2>3. CellTypes' /\ LoopTypes' /\ JobTypes' /\ HistoryTypes'
    BY <2>1 DEF Read
  <2>4. CASE Refuse(m) \/ CloseTrip(m)
    BY <2>2, <2>3, <2>4 DEF Refuse, CloseTrip, QueueTypes, ServerTypes
  <2>5. CASE Admit(m)
    <3>1. PICK t \in Tokens : /\ issued' = issued \cup {t} /\ live' = t
                              /\ down' = Append(down, [type |-> "AUTH_OK", token |-> t])
      BY <2>5 DEF Admit
    <3>2. down' \in Seq(Answer)
      BY <3>1, Made, Added DEF QueueTypes
    <3>3. m.user \in Users
      BY <2>2, <2>5 DEF Admit, Request
    <3>4. ServerTypes'
      BY <2>5, <3>1, <3>3 DEF Admit, ServerTypes
    <3>5. QED
      BY <2>2, <2>3, <3>2, <3>4 DEF QueueTypes
  <2>6. CASE OpenTrip(m)
    <3>1. PICK i \in Trips : /\ owner' = [owner EXCEPT ![i] = user]
                             /\ open' = open \cup {i}
                             /\ startedIn' = [startedIn EXCEPT ![i] = m.token]
                             /\ \/ down' = Append(down, [type |-> "TRIP_STARTED", trip |-> i])
                                \/ UNCHANGED down
      BY <2>6 DEF OpenTrip
    <3>2. down' \in Seq(Answer)
      <4>1. down \in Seq(Answer) /\ [type |-> "TRIP_STARTED", trip |-> i] \in Answer
        BY Made DEF QueueTypes
      <4>2. QED
        BY <3>1, <4>1, Added
    <3>3. ServerTypes'
      BY <2>6, <3>1 DEF OpenTrip, Valid, ServerTypes
    <3>4. QED
      BY <2>2, <2>3, <3>2, <3>3 DEF QueueTypes
  <2>7. CASE Hangup(m)
    <3>1. down' \in Seq(Answer)
      BY <2>7, Made, Added DEF Hangup, QueueTypes
    <3>2. ServerTypes'
      BY <2>7 DEF Hangup, Cleanup, ServerTypes
    <3>3. QED
      BY <2>2, <2>3, <3>1, <3>2 DEF QueueTypes
  <2>8. QED
    BY <2>4, <2>5, <2>6, <2>7
<1>7. CASE Break
  <2>1. QueueTypes'
    BY <1>7, Cut DEF Break, QueueTypes
  <2>2. ServerTypes'
    BY <1>7 DEF Break, Cleanup, ServerTypes
  <2>3. QED
    BY <1>7, <2>1, <2>2 DEF Break
<1>8. ASSUME NEW i \in Trips, Elsewhere(i)
      PROVE  TypeInv'
  <2>1. ServerTypes'
    BY <1>8 DEF Elsewhere, ServerTypes
  <2>2. QED
    BY <1>8, <2>1 DEF Elsewhere
<1>9. CASE UNCHANGED vars
  BY <1>9 DEF vars
<1>10. QED
  BY <1>2, <1>3, <1>4, <1>5, <1>6, <1>7, <1>8, <1>9 DEF Next

-----------------------------------------------------------------------------
(***************************************************************************)
(* The client's side: what it knows of its trips.                          *)
(***************************************************************************)
\* The inductive invariant.
ClientInv == TypeInv /\ TripInv /\ SessionInv /\ WayInv /\ KnownIsOpen

\* A trip the client is told of is a new one.
LEMMA ToldOfNew ==
  ASSUME TypeInv, WayInv, down # <<>>, Head(down).type = "TRIP_STARTED"
  PROVE  /\ Head(down).trip \in Trips \ learned
         /\ owner[Head(down).trip] # None
         /\ live # None /\ startedIn[Head(down).trip] = live => Head(down).trip \in open
         /\ \A k \in DOMAIN Tail(down) :
              Tail(down)[k].type = "TRIP_STARTED" => Tail(down)[k].trip # Head(down).trip
<1> USE DEF TypeInv, QueueTypes
<1>1. /\ Head(down) \in Answer /\ Head(down) = down[1] /\ 1 \in DOMAIN down
      /\ \A k \in DOMAIN Tail(down) : k + 1 \in DOMAIN down /\ Tail(down)[k] = down[k + 1] /\ k # 0 /\ k \in Nat
  BY Taken
<1>2. Head(down).trip \in Trips
  BY <1>1, Fields
<1>3. /\ Head(down).trip \notin learned /\ owner[Head(down).trip] # None
      /\ live # None /\ startedIn[Head(down).trip] = live => Head(down).trip \in open
  BY <1>1 DEF WayInv
<1>4. ASSUME NEW k \in DOMAIN Tail(down), Tail(down)[k].type = "TRIP_STARTED",
             Tail(down)[k].trip = Head(down).trip
      PROVE  FALSE
  <2>1. k + 1 = 1
    BY <1>1, <1>4 DEF WayInv
  <2>2. QED
    BY <1>1, <2>1
<1>5. QED
  BY <1>2, <1>3, <1>4

\* What is sent is noted.
LEMMA Noted ==
  ASSUME TypeInv, NEW m \in Request, Deliver(m)
  PROVE  /\ learned' = learned
         /\ m.type = "END_TRIP" => Ended' = Ended \cup {m.trip} /\ late' = late
         /\ m.type = "END_TRIP" /\ m.trip \notin Ended => ends' = [ends EXCEPT ![m.trip] = 1]
         /\ m.type # "END_TRIP" => ends' = ends /\ Ended' = Ended
         /\ m.type = "POSITION" /\ m.trip \notin Ended => late' = late
         /\ m.type = "POSITION" /\ m.trip \in Ended /\ late[m.trip] = 0
              => late' = [late EXCEPT ![m.trip] = 1]
         /\ m.type \notin {"END_TRIP", "POSITION"} => late' = late
<1>1. /\ learned' = learned
      /\ ends' = [i \in Trips |-> IF m.type = "END_TRIP" /\ m.trip = i THEN Count(ends[i]) ELSE ends[i]]
      /\ late' = [i \in Trips |-> IF m.type = "POSITION" /\ m.trip = i /\ ends[i] > 0
                                  THEN Count(late[i]) ELSE late[i]]
      /\ ends \in [Trips -> 0..2] /\ late \in [Trips -> 0..2]
  BY DEF Deliver, Note, TypeInv, HistoryTypes
<1>2. Count(0) = 1 /\ \A n \in 0..2 : Count(n) # 0
  BY DEF Count
<1>3. \A i \in Trips : ends[i] \in 0..2 /\ (ends[i] > 0 <=> i \in Ended) /\ (i \notin Ended <=> ends[i] = 0)
  BY <1>1 DEF Ended
<1>4. ASSUME m.type = "END_TRIP"
      PROVE  /\ Ended' = Ended \cup {m.trip} /\ late' = late
             /\ m.trip \notin Ended => ends' = [ends EXCEPT ![m.trip] = 1]
  <2>1. m.trip \in Trips
    BY <1>4, Fields
  <2>2. late' = late
    BY <1>1, <1>4
  <2>3. \A i \in Trips : ends'[i] # 0 <=> i = m.trip \/ ends[i] # 0
    BY <1>1, <1>2, <1>3, <1>4, <2>1
  <2>4. Ended' = Ended \cup {m.trip}
    BY <2>1, <2>3 DEF Ended
  <2>5. m.trip \notin Ended => ends' = [ends EXCEPT ![m.trip] = 1]
    BY <1>1, <1>2, <1>3, <1>4, <2>1
  <2>6. QED
    BY <2>2, <2>4, <2>5
<1>5. ASSUME m.type # "END_TRIP"
      PROVE  ends' = ends /\ Ended' = Ended
  BY <1>1, <1>5 DEF Ended
<1>6. ASSUME m.type # "POSITION" \/ m.trip \notin Ended
      PROVE  late' = late
  BY <1>1, <1>3, <1>6
<1>7. ASSUME m.type = "POSITION", m.trip \in Ended, late[m.trip] = 0
      PROVE  late' = [late EXCEPT ![m.trip] = 1]
  BY <1>1, <1>2, <1>3, <1>7
<1>8. QED
  BY <1>1, <1>4, <1>5, <1>6, <1>7

\* The loop sends nothing for a trip that has ended.
LEMMA SentByLoop ==
  ASSUME TypeInv, TripInv, NEW m \in Request, SendOrExit(m),
         m.type \in {"POSITION", "END_TRIP"} => m.trip \in learned \ Ended,
         m.type = "END_TRIP" => m.trip # trip
  PROVE  TripInv'
<1> USE DEF cells, autopos, history, Exit
<1>1. /\ loop' \in {"read", "quit", "done"}
      /\ (job' = job /\ report' = report) \/ job' = "off"
      /\ trip' = trip
  BY DEF SendOrExit
<1>2. CASE Deliver(m)
  <2>1. CASE m.type = "END_TRIP"
    <3>1. /\ learned' = learned /\ Ended' = Ended \cup {m.trip} /\ late' = late
          /\ ends' = [ends EXCEPT ![m.trip] = 1] /\ m.trip \in Trips
      BY <1>2, <2>1, Noted, Fields
    <3>2. \A i \in Ended' : ends'[i] = 1
      BY <3>1 DEF TripInv, Ended, TypeInv, HistoryTypes
    <3>3. QED
      BY <1>1, <2>1, <3>1, <3>2 DEF TripInv
  <2>2. CASE m.type # "END_TRIP"
    <3>1. UNCHANGED <<learned, ends, Ended, late>>
      BY <1>2, <2>2, Noted
    <3>2. QED
      BY <1>1, <3>1 DEF TripInv
  <2>3. QED
    BY <2>1, <2>2
<1>3. CASE UNCHANGED history
  <2>1. UNCHANGED <<learned, ends, Ended, late>>
    BY <1>3 DEF Ended
  <2>2. QED
    BY <1>1, <2>1 DEF TripInv
<1>4. QED
  BY <1>2, <1>3 DEF SendOrExit

LEMMA TripStep == TypeInv /\ TripInv /\ WayInv /\ [Next]_vars => TripInv'
<1> SUFFICES ASSUME TypeInv, TripInv, WayInv, [Next]_vars
             PROVE  TripInv'
  OBVIOUS
<1> USE NoneIsNothing DEF cells, command, autopos, link, server, history
<1>0. UNCHANGED ends => Ended' = Ended
  BY DEF Ended
<1> USE <1>0
<1>1. CASE Loop
  <2>1. ASSUME NEW u \in Users, Login(u)
        PROVE  TripInv'
    <3>1. [type |-> "LOGIN", user |-> u] \in Request
      BY Made
    <3>2. QED
      BY <2>1, <3>1, SentByLoop DEF Login
  <2>2. CASE Start \/ Quit \/ \E type \in {"POSITION", "END_TRIP"} : OnTrip(type)
    BY <2>2 DEF Start, Quit, OnTrip, Typed, TripInv
  <2>3. CASE ReadTrip
    <3>1. CASE loop' = "read"
      BY <2>3, <3>1 DEF ReadTrip, TripInv
    <3>2. CASE /\ trip # None /\ cmd' = [cmd EXCEPT !.trip = trip]
               /\ loop' = IF cmd.type = "END_TRIP" THEN "forget" ELSE "send"
      <4>1. cmd \in Draft /\ trip \in Trips
        BY <2>3, <3>2 DEF ReadTrip, TypeInv, LoopTypes, CellTypes
      <4>2. cmd'.type = cmd.type /\ cmd'.trip = trip
        BY <3>2, <4>1, Filled
      <4>3. QED
        BY <2>3, <3>2, <4>2 DEF ReadTrip, TripInv
    <3>3. QED
      BY <2>3, <3>1, <3>2 DEF ReadTrip
  <2>4. CASE Forget
    <3>1. cmd.trip \in Trips
      BY <2>4, Fields DEF Forget, TypeInv, LoopTypes
    <3>2. QED
      BY <2>4, <3>1 DEF Forget, TripInv
  <2>5. CASE StopAuto
    BY <2>5 DEF StopAuto, TripInv
  <2>6. CASE Send
    <3>1. cmd \in Request /\ SendOrExit(cmd) /\ loop = "send"
      BY <2>6 DEF Send, TypeInv, LoopTypes
    <3>2. /\ cmd.type \in {"POSITION", "END_TRIP"} => cmd.trip \in learned \ Ended
          /\ cmd.type = "END_TRIP" => cmd.trip # trip
      BY <3>1 DEF TripInv
    <3>3. QED
      BY <3>1, <3>2, SentByLoop
  <2>7. CASE Leave
    BY <2>7 DEF Leave, Exit, TripInv
  <2>8. QED
    BY <1>1, <2>1, <2>2, <2>3, <2>4, <2>5, <2>6, <2>7 DEF Loop
<1>2. CASE Autopos
  <2> USE DEF JobGoto
  <2>1. CASE Tick \/ ReadToken
    BY <2>1 DEF Tick, ReadToken, TripInv
  <2>2. CASE ReadCurrent
    <3>1. CASE job' = "tick"
      BY <2>2, <3>1 DEF ReadCurrent, TripInv
    <3>2. CASE trip # None /\ report' = [report EXCEPT !.trip = trip]
      <4>1. report \in Draft /\ trip \in Trips
        BY <2>2, <3>2 DEF ReadCurrent, TypeInv, JobTypes, CellTypes
      <4>2. report'.trip = trip
        BY <3>2, <4>1, Filled
      <4>3. late[trip] = 0
        BY <3>2, <4>1 DEF TripInv
      <4>4. QED
        BY <2>2, <3>2, <4>2, <4>3 DEF ReadCurrent, TripInv
    <3>3. QED
      BY <2>2, <3>1, <3>2 DEF ReadCurrent
  <2>3. CASE SendReport
    <3>1. report \in Request /\ report.type = "POSITION" /\ report.trip \in Trips /\ late[report.trip] = 0
      BY <2>3, Fields DEF SendReport, TypeInv, JobTypes, TripInv
    <3>2. CASE Deliver(report) /\ job' = "tick"
      <4>1. UNCHANGED <<learned, ends, Ended>>
        BY <3>1, <3>2, Noted
      <4>2. \A i \in Trips : late'[i] = late[i] \/ (late'[i] = 1 /\ i \in Ended)
        BY <3>1, <3>2, Noted DEF TypeInv, HistoryTypes
      <4>3. QED
        BY <2>3, <3>2, <4>1, <4>2 DEF SendReport, TripInv
    <3>3. CASE job' = "off" /\ UNCHANGED history
      BY <2>3, <3>3 DEF SendReport, TripInv
    <3>4. QED
      BY <2>3, <3>2, <3>3 DEF SendReport
  <2>4. QED
    BY <1>2, <2>1, <2>2, <2>3 DEF Autopos
<1>3. CASE Receive
  <2>1. CASE Head(down).type = "TRIP_STARTED"
    <3>1. Head(down).trip \notin learned /\ trip' = Head(down).trip /\ learned' = learned \cup {Head(down).trip}
      BY <1>3, <2>1, ToldOfNew DEF Receive
    <3>2. QED
      BY <1>3, <3>1 DEF Receive, TripInv
  <2>2. CASE Head(down).type # "TRIP_STARTED"
    BY <1>3, <2>2 DEF Receive, TripInv
  <2>3. QED
    BY <2>1, <2>2
<1>4. CASE Handler \/ Break \/ StreamEnd \/ (\E i \in Trips : Elsewhere(i)) \/ UNCHANGED vars
  <2>1. UNCHANGED <<trip, loop, cmd, job, report, learned, ends, late>>
    BY <1>4 DEF Handler, Refuse, Admit, OpenTrip, CloseTrip, Hangup, Read, Break, StreamEnd, Elsewhere, vars
  <2>2. QED
    BY <2>1 DEF TripInv
<1>5. QED
  BY <1>1, <1>2, <1>3, <1>4 DEF Next

-----------------------------------------------------------------------------
(***************************************************************************)
(* The session.                                                            *)
(***************************************************************************)
LEMMA SessionStep == TypeInv /\ SessionInv /\ [Next]_vars => SessionInv'
<1> SUFFICES ASSUME TypeInv, SessionInv, [Next]_vars
             PROVE  SessionInv'
  OBVIOUS
<1> USE NoneIsNothing DEF cells, command, autopos, link, server, history
<1>1. CASE UNCHANGED <<user, live, owner, startedIn>>
  BY <1>1 DEF SessionInv
<1>2. CASE Loop \/ Autopos \/ Receive \/ StreamEnd \/ (\E i \in Trips : Elsewhere(i)) \/ UNCHANGED vars
  BY <1>1, <1>2
     DEF Loop, Login, Start, Quit, OnTrip, Typed, ReadTrip, Forget, StopAuto, Send, SendOrExit, Leave,
         Autopos, Tick, ReadToken, ReadCurrent, SendReport, JobGoto, Receive, StreamEnd, Elsewhere, vars
<1>3. CASE Cleanup
  BY <1>3 DEF Cleanup, SessionInv
<1>4. ASSUME NEW m \in Request, Admit(m)
      PROVE  SessionInv'
  <2>1. PICK t \in Tokens : (\A s \in Tokens : s < t <=> s \in issued) /\ live' = t
    BY <1>4 DEF Admit
  <2>2. t \notin issued /\ \A i \in Trips : startedIn[i] # t
    BY <2>1, Numbered DEF TypeInv, ServerTypes
  <2>3. m.user # None /\ user' = m.user /\ UNCHANGED <<owner, startedIn>>
    BY <1>4 DEF Admit, Request
  <2>4. QED
    BY <2>1, <2>2, <2>3 DEF SessionInv
<1>5. ASSUME NEW m \in Request, OpenTrip(m)
      PROVE  SessionInv'
  <2>1. PICK i \in Trips : /\ owner' = [owner EXCEPT ![i] = user]
                           /\ startedIn' = [startedIn EXCEPT ![i] = m.token]
    BY <1>5 DEF OpenTrip
  <2>2. user # None /\ m.token = live /\ UNCHANGED <<user, live>> /\ m.token # None
    BY <1>5 DEF OpenTrip, Valid, Request
  <2>3. /\ owner'[i] = user /\ startedIn'[i] = live
        /\ \A j \in Trips \ {i} : owner'[j] = owner[j] /\ startedIn'[j] = startedIn[j]
    BY <2>1, <2>2 DEF TypeInv, ServerTypes
  <2>4. QED
    BY <2>2, <2>3 DEF SessionInv
<1>6. CASE Handler
  <2> PICK m \in {up[k] : k \in DOMAIN up} :
             Refuse(m) \/ Admit(m) \/ OpenTrip(m) \/ CloseTrip(m) \/ Hangup(m)
    BY <1>6 DEF Handler
  <2>1. m \in Request
    BY DEF TypeInv, QueueTypes
  <2>2. CASE Refuse(m) \/ CloseTrip(m)
    BY <1>1, <2>2 DEF Refuse, CloseTrip
  <2>3. QED
    BY <1>3, <1>4, <1>5, <2>1, <2>2 DEF Hangup
<1>7. CASE Break
  BY <1>3, <1>7 DEF Break
<1>8. QED
  BY <1>2, <1>6, <1>7 DEF Next

-----------------------------------------------------------------------------
(***************************************************************************)
(* What is under way.                                                      *)
(***************************************************************************)
\* The client's end of the queues.
LEMMA QueuedUp ==
  ASSUME TypeInv, TripInv, WayInv, NEW m \in Request, Deliver(m)
  PROVE  \A k \in DOMAIN up' : up'[k].type = "END_TRIP" => up'[k].trip \in Ended'
<1>1. Ended \subseteq Ended'
  BY Noted
<1>2. CASE UNCHANGED up
  BY <1>1, <1>2 DEF WayInv
<1>3. CASE up' = Append(up, m)
  <2>1. m.type = "END_TRIP" => m.trip \in Ended'
    BY Noted
  <2>2. up \in Seq(Request)
    BY DEF TypeInv, QueueTypes
  <2>3. \A k \in DOMAIN up' : (k \in DOMAIN up /\ up'[k] = up[k]) \/ up'[k] = m
    BY <1>3, <2>2, Added
  <2>4. QED
    BY <1>1, <2>1, <2>3 DEF WayInv
<1>4. QED
  BY <1>2, <1>3 DEF Deliver

\* The server's end of the queues, when nothing about trips is sent.
LEMMA QueuedDown ==
  ASSUME TypeInv, WayInv, NEW m \in Answer, m.type # "TRIP_STARTED", down' = Append(down, m),
         UNCHANGED <<owner, learned, startedIn>>,
         live' = None \/ (open' = open /\ \A i \in Trips : startedIn[i] # None /\ startedIn[i] = live' => live' = live)
  PROVE  /\ \A k \in DOMAIN down' : down'[k].type = "TRIP_STARTED" =>
              /\ down'[k].trip \notin learned' /\ owner'[down'[k].trip] # None
              /\ live' # None /\ startedIn'[down'[k].trip] = live' => down'[k].trip \in open'
         /\ \A k, l \in DOMAIN down' :
              down'[k].type = "TRIP_STARTED" /\ down'[l].type = "TRIP_STARTED"
                /\ down'[l].trip = down'[k].trip => k = l
<1>1. down \in Seq(Answer)
  BY DEF TypeInv, QueueTypes
<1>2. \A k \in DOMAIN down' : (k \in DOMAIN down /\ down'[k] = down[k]) \/ down'[k] = m
  BY <1>1, Added
<1>3. \A k \in DOMAIN down : down[k].type = "TRIP_STARTED" => down[k].trip \in Trips
  BY Fields DEF TypeInv, QueueTypes
<1>4. QED
  BY <1>2, <1>3 DEF WayInv

LEMMA WayStep == TypeInv /\ TripInv /\ SessionInv /\ WayInv /\ [Next]_vars => WayInv'
<1> SUFFICES ASSUME TypeInv, TripInv, SessionInv, WayInv, [Next]_vars
             PROVE  WayInv'
  OBVIOUS
<1> USE NoneIsNothing DEF cells, command, autopos, link, server, history
<1>0. UNCHANGED ends => Ended' = Ended
  BY DEF Ended
<1> USE <1>0
<1>1. CASE UNCHANGED <<up, down, live, startedIn, owner, open, learned, ends>>
  BY <1>1 DEF WayInv
<1>2. ASSUME NEW m \in Request, Deliver(m), UNCHANGED <<down, live, startedIn, owner, open>>
      PROVE  WayInv'
  <2>1. learned' = learned
    BY <1>2 DEF Deliver, Note
  <2>2. QED
    BY <1>2, <2>1, QueuedUp DEF WayInv
<1>3. ASSUME NEW m \in Request, SendOrExit(m)
      PROVE  WayInv'
  BY <1>1, <1>2, <1>3 DEF SendOrExit
<1>4. CASE Loop
  <2>1. ASSUME NEW u \in Users, Login(u)
        PROVE  WayInv'
    BY <1>3, <2>1, Made DEF Login
  <2>2. CASE Send
    BY <1>3, <2>2 DEF Send, TypeInv, LoopTypes
  <2>3. CASE Leave
    <3>1. up \in Seq(Request)
      BY DEF TypeInv, QueueTypes
    <3>2. \A k \in DOMAIN up' : (k \in DOMAIN up /\ up'[k] = up[k]) \/ up'[k] = [type |-> "CLOSE"]
      BY <2>3, <3>1, Made, Added DEF Leave
    <3>3. UNCHANGED <<down, live, startedIn, owner, open, learned, ends>>
      BY <2>3 DEF Leave
    <3>4. QED
      BY <3>2, <3>3 DEF WayInv
  <2>4. QED
    BY <1>1, <1>4, <2>1, <2>2, <2>3
       DEF Loop, Start, Quit, OnTrip, Typed, ReadTrip, Forget, StopAuto
<1>5. CASE Autopos
  <2>1. CASE SendReport
    BY <1>1, <1>2, <2>1 DEF SendReport, JobGoto, TypeInv, JobTypes
  <2>2. QED
    BY <1>1, <1>5, <2>1 DEF Autopos, Tick, ReadToken, ReadCurrent, JobGoto
<1>6. CASE Receive
  <2>1. /\ down # <<>> /\ down' = Tail(down) /\ down \in Seq(Answer)
        /\ UNCHANGED <<up, live, startedIn, owner, open, ends>>
    BY <1>6 DEF Receive, TypeInv, QueueTypes
  <2>2. \A k \in DOMAIN down' : k + 1 \in DOMAIN down /\ down'[k] = down[k + 1] /\ k \in Nat
    BY <2>1, Taken
  <2>3. \A k, l \in DOMAIN down' :
          down'[k].type = "TRIP_STARTED" /\ down'[l].type = "TRIP_STARTED" /\ down'[l].trip = down'[k].trip
            => k = l
    <3> SUFFICES ASSUME NEW k \in DOMAIN down', NEW l \in DOMAIN down',
                        down'[k].type = "TRIP_STARTED", down'[l].type = "TRIP_STARTED",
                        down'[l].trip = down'[k].trip
                 PROVE  k = l
      OBVIOUS
    <3>1. k + 1 = l + 1
      BY <2>2 DEF WayInv
    <3>2. QED
      BY <2>2, <3>1
  <2>4. CASE Head(down).type = "TRIP_STARTED"
    <3> DEFINE i == Head(down).trip
    <3>1. learned' = learned \cup {i} /\ owner[i] # None
      BY <1>6, <2>1, <2>4, ToldOfNew DEF Receive
    <3>2. \A k \in DOMAIN down' : down'[k].type = "TRIP_STARTED" => down'[k].trip # i
      BY <2>1, <2>4, ToldOfNew
    <3> HIDE DEF i
    <3>3. QED
      BY <2>1, <2>2, <2>3, <3>1, <3>2 DEF WayInv
  <2>5. CASE learned' = learned
    BY <2>1, <2>2, <2>3, <2>5 DEF WayInv
  <2>6. QED
    BY <1>6, <2>4, <2>5 DEF Receive
<1>7. CASE Handler
  <2> PICK m \in {up[k] : k \in DOMAIN up} :
             Refuse(m) \/ Admit(m) \/ OpenTrip(m) \/ CloseTrip(m) \/ Hangup(m)
    BY <1>7 DEF Handler
  <2>1. Read(m)
    BY DEF Refuse, Admit, OpenTrip, CloseTrip, Hangup
  <2>2. /\ up \in Seq(Request) /\ up # <<>> /\ up' = Tail(up) /\ m = Head(up)
        /\ UNCHANGED <<learned, ends>>
    BY <2>1 DEF Read, TypeInv, QueueTypes
  <2>3. /\ \A k \in DOMAIN up' : up'[k].type = "END_TRIP" => up'[k].trip \in Ended'
        /\ m.type = "END_TRIP" => m.trip \in Ended
    BY <2>2, Taken DEF WayInv
  <2>4. CASE Refuse(m)
    BY <2>2, <2>3, <2>4 DEF Refuse, WayInv
  <2>5. CASE Admit(m)
    <3>1. PICK t \in Tokens : /\ \A r \in Tokens : r < t <=> r \in issued
                              /\ live' = t
                              /\ down' = Append(down, [type |-> "AUTH_OK", token |-> t])
      BY <2>5 DEF Admit
    <3>2. [type |-> "AUTH_OK", token |-> t] \in Answer
      BY Made
    <3>3. UNCHANGED <<startedIn, owner, open>> /\ \A i \in Trips : startedIn[i] # t
      BY <2>5, <3>1, Numbered DEF Admit, TypeInv, ServerTypes
    <3>4. QED
      BY <2>2, <2>3, <3>1, <3>2, <3>3, QueuedDown DEF WayInv
  <2>6. CASE OpenTrip(m)
    <3>1. PICK i \in Trips : /\ \A j \in Trips : j < i <=> owner[j] # None
                             /\ owner' = [owner EXCEPT ![i] = user]
                             /\ open' = open \cup {i}
                             /\ startedIn' = [startedIn EXCEPT ![i] = m.token]
                             /\ \/ down' = Append(down, [type |-> "TRIP_STARTED", trip |-> i])
                                \/ UNCHANGED down
      BY <2>6 DEF OpenTrip
    <3>2. owner[i] = None /\ user # None /\ live' = live
      BY <2>6, <3>1, Numbered DEF OpenTrip, Valid
    <3>3. \A k \in DOMAIN down : down[k].type = "TRIP_STARTED" => down[k].trip # i
      BY <3>2 DEF WayInv
    <3>4. \A j \in Trips : owner[j] # None => owner'[j] # None /\ startedIn'[j] = startedIn[j]
      BY <3>1, <3>2 DEF TypeInv, ServerTypes
    <3>5. owner'[i] = user /\ i \notin learned /\ learned \subseteq Trips
      BY <3>1, <3>2 DEF TypeInv, ServerTypes, HistoryTypes, WayInv
    <3>6. \A k \in DOMAIN down : down[k].type = "TRIP_STARTED" => down[k].trip \in Trips
      BY Fields DEF TypeInv, QueueTypes
    <3>7. CASE UNCHANGED down
      BY <2>2, <2>3, <3>1, <3>2, <3>4, <3>5, <3>6, <3>7 DEF WayInv
    <3>8. CASE down' = Append(down, [type |-> "TRIP_STARTED", trip |-> i])
      <4>1. down \in Seq(Answer) /\ [type |-> "TRIP_STARTED", trip |-> i] \in Answer
        BY Made DEF TypeInv, QueueTypes
      <4>2. \A k \in DOMAIN down' : \/ k \in DOMAIN down /\ down'[k] = down[k]
                                    \/ k = Len(down) + 1 /\ down'[k].trip = i
        BY <3>8, <4>1, Added
      <4>3. \A k, l \in DOMAIN down' :
              down'[k].type = "TRIP_STARTED" /\ down'[l].type = "TRIP_STARTED" /\ down'[l].trip = down'[k].trip
                => k = l
        BY <3>3, <4>2 DEF WayInv
      <4>4. \A k \in DOMAIN down' : down'[k].type = "TRIP_STARTED" =>
              /\ down'[k].trip \notin learned /\ owner'[down'[k].trip] # None
              /\ live' # None /\ startedIn'[down'[k].trip] = live' => down'[k].trip \in open'
        BY <3>1, <3>2, <3>4, <3>5, <3>6, <4>2 DEF WayInv
      <4>5. \A j \in learned : owner'[j] # None
        BY <3>4, <3>5 DEF WayInv
      <4>6. QED
        BY <2>2, <2>3, <4>3, <4>4, <4>5 DEF WayInv
    <3>9. QED
      BY <3>1, <3>7, <3>8
  <2>7. CASE CloseTrip(m)
    <3>1. m.trip \in learned
      BY <2>3, <2>7 DEF CloseTrip, TripInv
    <3>2. QED
      BY <2>2, <2>3, <2>7, <3>1 DEF CloseTrip, WayInv
  <2>8. CASE Hangup(m)
    <3>1. [type |-> "CLOSE"] \in Answer /\ down' = Append(down, [type |-> "CLOSE"])
          /\ live' = None /\ UNCHANGED <<owner, startedIn>>
      BY <2>8, Made DEF Hangup, Cleanup
    <3>2. QED
      BY <2>2, <2>3, <3>1, QueuedDown DEF WayInv
  <2>9. QED
    BY <2>4, <2>5, <2>6, <2>7, <2>8
<1>8. CASE Break
  <2>1. up' = <<>> /\ live' = None /\ UNCHANGED <<owner, learned, ends>>
    BY <1>8 DEF Break, Cleanup
  <2>2. \A k \in DOMAIN down' : k \in DOMAIN down /\ down'[k] = down[k]
    BY <1>8, Cut DEF Break, TypeInv, QueueTypes
  <2>3. QED
    BY <2>1, <2>2 DEF WayInv
<1>9. CASE StreamEnd \/ UNCHANGED vars
  BY <1>1, <1>9 DEF StreamEnd, vars
<1>10. ASSUME NEW i \in Trips, Elsewhere(i)
      PROVE  WayInv'
  <2>1. open' = open \ {i} /\ owner[i] # user /\ UNCHANGED <<up, down, live, startedIn, owner, learned, ends>>
    BY <1>10 DEF Elsewhere
  <2>2. ~(live # None /\ startedIn[i] = live)
    BY <2>1 DEF SessionInv
  <2>3. QED
    BY <2>1, <2>2 DEF WayInv
<1>11. QED
  BY <1>4, <1>5, <1>6, <1>7, <1>8, <1>9, <1>10 DEF Next

\* The trip the client goes by stays open while the session lasts.
LEMMA KnownStep == ClientInv /\ [Next]_vars => KnownIsOpen'
<1> SUFFICES ASSUME ClientInv, [Next]_vars
             PROVE  KnownIsOpen'
  OBVIOUS
<1> USE NoneIsNothing DEF ClientInv, cells, link, server
<1>0. trip # None => trip \in Trips /\ owner[trip] # None /\ startedIn[trip] # None
  BY DEF TypeInv, CellTypes, TripInv, WayInv, SessionInv
<1>1. CASE UNCHANGED <<live, startedIn, open>> /\ (trip' = trip \/ trip' = None)
  BY <1>1 DEF KnownIsOpen
<1>2. CASE Receive
  <2>1. Head(down).type = "TRIP_STARTED" =>
          LET i == Head(down).trip
          IN  i \in Trips /\ owner[i] # None /\ (live # None /\ startedIn[i] = live => i \in open)
    BY <1>2, ToldOfNew DEF Receive
  <2>2. QED
    BY <1>2, <2>1 DEF Receive, KnownIsOpen, SessionInv
<1>3. ASSUME NEW m \in {up[k] : k \in DOMAIN up}, OpenTrip(m)
      PROVE  KnownIsOpen'
  <2>1. PICK i \in Trips : /\ \A j \in Trips : j < i <=> owner[j] # None
                           /\ open' = open \cup {i}
                           /\ startedIn' = [startedIn EXCEPT ![i] = m.token]
    BY <1>3 DEF OpenTrip
  <2>2. owner[i] = None /\ UNCHANGED <<trip, live>>
    BY <1>3, <2>1, Numbered DEF OpenTrip, Read
  <2>3. trip # None => startedIn'[trip] = startedIn[trip]
    BY <1>0, <2>1, <2>2 DEF TypeInv, ServerTypes
  <2>4. QED
    BY <2>1, <2>2, <2>3 DEF KnownIsOpen
<1>4. ASSUME NEW m \in {up[k] : k \in DOMAIN up}, CloseTrip(m)
      PROVE  KnownIsOpen'
  <2>1. m.trip \in Ended
    BY <1>4 DEF CloseTrip, WayInv
  <2>2. QED
    BY <1>4, <2>1 DEF CloseTrip, Read, TripInv, KnownIsOpen
<1>5. ASSUME NEW m \in {up[k] : k \in DOMAIN up}, Admit(m)
      PROVE  KnownIsOpen'
  <2>1. PICK t \in Tokens : (\A s \in Tokens : s < t <=> s \in issued) /\ live' = t
    BY <1>5 DEF Admit
  <2>2. \A i \in Trips : startedIn[i] # t
    BY <2>1, Numbered DEF TypeInv, ServerTypes
  <2>3. UNCHANGED <<trip, startedIn>>
    BY <1>5 DEF Admit, Read
  <2>4. QED
    BY <1>0, <2>1, <2>2, <2>3 DEF KnownIsOpen
<1>6. CASE Cleanup /\ UNCHANGED trip
  BY <1>0, <1>6 DEF Cleanup, KnownIsOpen
<1>7. CASE Loop \/ Autopos \/ StreamEnd
  BY <1>1, <1>7 DEF Loop, Login, Start, Quit, OnTrip, Typed, ReadTrip, Forget, StopAuto, Send, SendOrExit, Leave,
       Autopos, Tick, ReadToken, ReadCurrent, SendReport, JobGoto, StreamEnd
<1>8. CASE Handler
  BY <1>1, <1>3, <1>4, <1>5, <1>6, <1>8 DEF Handler, Refuse, Hangup, Read
<1>9. CASE Break \/ UNCHANGED vars
  BY <1>1, <1>6, <1>9 DEF Break, vars
<1>10. ASSUME NEW i \in Trips, Elsewhere(i)
      PROVE  KnownIsOpen'
  <2>1. open' = open \ {i} /\ owner[i] # user /\ UNCHANGED <<trip, live, startedIn>>
    BY <1>10 DEF Elsewhere
  <2>2. trip # None /\ startedIn[trip] = live => trip # i
    BY <1>0, <2>1 DEF SessionInv
  <2>3. QED
    BY <2>1, <2>2 DEF KnownIsOpen
<1>11. QED
  BY <1>2, <1>7, <1>8, <1>9, <1>10 DEF Next

\* The invariant holds in every state.
LEMMA ClientInvariant == Spec => []ClientInv
<1>1. Init => ClientInv
  <2> SUFFICES ASSUME Init
               PROVE  ClientInv
    OBVIOUS
  <2>1. TypeInv
    BY TypeInit
  <2>2. TripInv /\ SessionInv /\ KnownIsOpen
    BY DEF Init, TripInv, Ended, SessionInv, KnownIsOpen
  <2>3. DOMAIN up = {} /\ DOMAIN down = {} /\ learned = {}
    BY DEF Init
  <2>4. WayInv
    BY <2>3 DEF WayInv
  <2>5. QED
    BY <2>1, <2>2, <2>4 DEF ClientInv
<1>2. ClientInv /\ [Next]_vars => ClientInv'
  BY TypeStep, TripStep, SessionStep, WayStep, KnownStep DEF ClientInv
<1>3. QED
  BY <1>1, <1>2, PTL DEF Spec

-----------------------------------------------------------------------------
(***************************************************************************)
(* The theorems.                                                           *)
(***************************************************************************)

\* Every variable keeps its type.
THEOREM ClientTypeCorrect == Spec => []TypeOK
<1>1. ClientInv => TypeOK
  BY TypesAreOK DEF ClientInv
<1>2. QED
  BY <1>1, ClientInvariant, PTL

\* As long as the session lasts that a trip was started in, whatever other
\* connections do, the client goes by it only while it is open.
THEOREM ClientKnowsOpenTrips == Spec => []KnownIsOpen
<1>1. ClientInv => KnownIsOpen
  BY DEF ClientInv
<1>2. QED
  BY <1>1, ClientInvariant, PTL

\* What the steps of the client are to the life of its trips: taking note of a
\* new one ...
LEMMA LearnedOne ==
  ASSUME ClientInv, Receive, Head(down).type = "TRIP_STARTED"
  PROVE  \E i \in Trips : Life!Learn(i)
<1> DEFINE i == Head(down).trip
<1>1. i \in Trips \ learned /\ trip' = i /\ learned' = learned \cup {i} /\ UNCHANGED <<ends, late>>
  BY ToldOfNew DEF Receive, ClientInv
<1>2. trip # i /\ (trip # None => trip \in learned)
  BY <1>1, NoneIsNothing DEF ClientInv, TripInv
<1> HIDE DEF i
<1>3. Phase[i] = "unknown"
  BY <1>1, <1>2 DEF Phase
<1>4. \A j \in Trips : Phase'[j] = IF j = i THEN "current"
                                   ELSE IF Phase[j] = "current" THEN "dropped" ELSE Phase[j]
  BY <1>1, <1>2, NoneIsNothing DEF Phase
<1>5. Phase' = [j \in Trips |-> IF j = i THEN "current"
                                ELSE IF Phase[j] = "current" THEN "dropped" ELSE Phase[j]]
  BY <1>4 DEF Phase
<1>6. QED
  BY <1>1, <1>3, <1>5 DEF Life!Learn

\* ... letting go of one before its end is sent ...
LEMMA DroppedOne ==
  ASSUME ClientInv, Forget, trip # None
  PROVE  \E i \in Trips : Life!Drop(i)
<1>1. trip \in Trips /\ trip \in learned /\ trip' = None /\ UNCHANGED history
  BY DEF Forget, ClientInv, TypeInv, CellTypes, TripInv
<1>2. Phase[trip] = "current"
  BY <1>1 DEF Phase
<1>3. \A j \in Trips : Phase'[j] = IF j = trip THEN "dropped" ELSE Phase[j]
  BY <1>1, NoneIsNothing DEF Phase, history
<1>4. Phase' = [Phase EXCEPT ![trip] = "dropped"]
  BY <1>3 DEF Phase
<1>5. QED
  BY <1>1, <1>2, <1>4 DEF Life!Drop, history

\* ... and what is sent ends a trip, or is the one late report, or changes nothing.
LEMMA SentOne ==
  ASSUME ClientInv, NEW m \in Request, Deliver(m), UNCHANGED trip,
         m.type = "END_TRIP" => m.trip \in learned \ Ended /\ m.trip # trip,
         m.type = "POSITION" => m.trip \notin Ended \/ late[m.trip] = 0
  PROVE  Life!Next \/ UNCHANGED <<Phase, ends, late>>
<1> USE DEF ClientInv
<1>0. learned' = learned /\ UNCHANGED Phase
  BY Noted DEF Phase
<1>1. CASE m.type = "END_TRIP"
  <2> DEFINE i == m.trip
  <2>1. i \in Trips
    BY <1>1, Fields
  <2>2. i \in learned \ Ended /\ i # trip /\ ends' = [ends EXCEPT ![i] = 1] /\ UNCHANGED late
    BY <1>1, Noted
  <2> HIDE DEF i
  <2>3. Phase[i] = "dropped" /\ ends[i] = 0
    BY <2>1, <2>2 DEF Phase, Ended
  <2>4. Life!End(i)
    BY <1>0, <2>2, <2>3 DEF Life!End
  <2>5. QED
    BY <2>1, <2>4 DEF Life!Next
<1>2. CASE m.type # "END_TRIP"
  <2>1. UNCHANGED ends
    BY <1>2, Noted
  <2>2. CASE m.type = "POSITION" /\ m.trip \in Ended
    <3>1. m.trip \in Trips /\ late[m.trip] = 0 /\ late' = [late EXCEPT ![m.trip] = 1]
      BY <2>2, Fields, Noted
    <3>2. ends[m.trip] = 1
      BY <2>2 DEF TripInv
    <3>3. Life!LateReport(m.trip)
      BY <1>0, <2>1, <3>1, <3>2 DEF Life!LateReport
    <3>4. QED
      BY <3>1, <3>3 DEF Life!Next
  <2>3. CASE ~(m.type = "POSITION" /\ m.trip \in Ended)
    BY <1>0, <1>2, <2>1, <2>3, Noted
  <2>4. QED
    BY <2>2, <2>3
<1>3. QED
  BY <1>1, <1>2

\* The client leads its trips the life TripLife.tla describes: each is taken
\* note of once, one END_TRIP at most is sent for it, after it was let go of,
\* and one report at most comes after that.
THEOREM ImplementsTripLife == Spec => LivesOfTrips
<1>1. Init => Life!Init
  BY NoneIsNothing DEF Init, Life!Init, Phase
<1>2. ClientInv /\ [Next]_vars => [Life!Next]_(Life!vars)
  <2> SUFFICES ASSUME ClientInv, [Next]_vars
               PROVE  Life!Next \/ UNCHANGED <<Phase, ends, late>>
    BY DEF Life!vars
  <2> USE DEF cells, command, autopos, link, server, history
  <2>1. CASE UNCHANGED <<trip, history>>
    BY <2>1 DEF Phase
  <2>2. ASSUME NEW m \in Request, SendOrExit(m),
               m.type = "END_TRIP" => m.trip \in learned \ Ended /\ m.trip # trip,
               m.type = "POSITION" => m.trip \notin Ended
        PROVE  Life!Next \/ UNCHANGED <<Phase, ends, late>>
    BY <2>1, <2>2, SentOne DEF SendOrExit
  <2>3. CASE Loop
    <3>1. ASSUME NEW u \in Users, Login(u)
          PROVE  Life!Next \/ UNCHANGED <<Phase, ends, late>>
      BY <2>2, <3>1, Made DEF Login
    <3>2. CASE Send
      <4>1. cmd \in Request /\ SendOrExit(cmd) /\ loop = "send"
        BY <3>2 DEF Send, ClientInv, TypeInv, LoopTypes
      <4>2. /\ cmd.type \in {"POSITION", "END_TRIP"} => cmd.trip \in learned \ Ended
            /\ cmd.type = "END_TRIP" => cmd.trip # trip
        BY <4>1 DEF ClientInv, TripInv
      <4>3. QED
        BY <2>2, <4>1, <4>2
    <3>3. CASE Forget
      <4>1. CASE trip = None
        BY <2>1, <3>3, <4>1 DEF Forget
      <4>2. CASE trip # None
        BY <3>3, <4>2, DroppedOne DEF Life!Next
      <4>3. QED
        BY <4>1, <4>2
    <3>4. QED
      BY <2>1, <2>3, <3>1, <3>2, <3>3
         DEF Loop, Start, Quit, OnTrip, Typed, ReadTrip, StopAuto, Leave
  <2>4. CASE Autopos
    <3>1. CASE SendReport
      <4>1. report \in Request /\ report.type = "POSITION" /\ late[report.trip] = 0
        BY <3>1 DEF SendReport, ClientInv, TypeInv, JobTypes, TripInv
      <4>2. QED
        BY <2>1, <3>1, <4>1, SentOne DEF SendReport, JobGoto
    <3>2. QED
      BY <2>1, <2>4, <3>1 DEF Autopos, Tick, ReadToken, ReadCurrent, JobGoto
  <2>5. CASE Receive
    <3>1. CASE Head(down).type = "TRIP_STARTED"
      BY <2>5, <3>1, LearnedOne DEF Life!Next
    <3>2. CASE Head(down).type # "TRIP_STARTED"
      BY <2>1, <2>5, <3>2 DEF Receive
    <3>3. QED
      BY <3>1, <3>2
  <2>6. CASE Handler \/ Break \/ StreamEnd \/ (\E i \in Trips : Elsewhere(i)) \/ UNCHANGED vars
    BY <2>1, <2>6 DEF Handler, Refuse, Admit, OpenTrip, CloseTrip, Hangup, Read, Break, StreamEnd, Elsewhere,
         vars
  <2>7. QED
    BY <2>3, <2>4, <2>5, <2>6 DEF Next
<1>3. QED
  BY <1>1, <1>2, ClientInvariant, PTL DEF Spec, LivesOfTrips, Life!Spec
=============================================================================
