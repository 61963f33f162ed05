# GeoStream in TLA+

Models of GeoStream ("Georuggine"): users connect over WebSocket from a
command line or a map page, register or log in, record trips as a sequence of
positions, ask for statistics, and talk to the operator.  The models are
written from the source (workspace crates `server`, `db`, `common`, `client`,
`sim`, and the scripts of `web/index.html`) and say what it does, including
where that differs from its comments.

    tlc -config MCSessions.cfg MCSessions.tla      model-check a run
    tlapm SessionsProofs.tla                       check the proofs of a module

## The system

| component | source | state | operations |
|---|---|---|---|
| connection handler | `server/src/main.rs:346-717`, one tokio task per WebSocket | `user_state`, the write half, the place in the code | LOGIN, REGISTER, START_TRIP, POSITION, END_TRIP, STATS, CHAT_TO_SERVER, DISCONNECT, cleanup |
| session store | `db/src/lib.rs:103-188` | token to user | `try_insert_token`, `get_user_by_token`, `invalidate_token`, `invalidate_user_sessions` |
| users and trips tables | `db/src/lib.rs:208-354` (SQLite) | rows; all that survives a restart | `key_exists`, `save_register`, `start_trip`, `insert_position`, `end_trip`, `trip_open_for`, `open_trip_ids_for` |
| trip store, pause detector | `server/src/trips/mod.rs` | trip to last coordinate, count, flag | `initialize_trips`, `is_tracked`, `update_trip`, `terminate_trip`, `drop_trip` |
| status | `server/src/status/mod.rs` | user to stationary or moving | `set`, `remove` |
| statistics | `db/src/lib.rs:355-518` | none | `trajectory_for_user`, `compute_movement_stats` |
| registry, chat, admin CLI | `server/src/main.rs:54-60, 201-269, 355-382` | user to write half; broadcast channel of 256 | `@user text`, `/list`, broadcast, forward |
| CLI client | `client/src/main.rs` | token, trip, automatic positions on or off: three cells with a mutex each | command loop, `autopos_task`, `recv_task`; `stats_interval` |
| browser client | `web/index.html:672-1000, 1327-1378` | socket, token, name, pending queue, `resuming`, `intentionalQuit`, timers, sessionStorage | `connect`, `send`, login, logout, RESUME, the timer that samples the simulator |
| simulator | `sim/src/lib.rs` | edge of a street graph and offset on it, speed, seconds to drive and to pause | `advance`, `pick_next` |

Each store (sessions, trips, statuses, registry) has a mutex of its own, held
for one operation and never across an await, so a handler is a sequence of
atomic steps, and two handlers interleave between any two of them.  Handlers
never call each other: they meet in the stores, and all of them address the
stores by user name or trip id, not by connection.  That is where most of what
can go wrong comes from: an operation by name may hit what another connection
has put there meanwhile.  The database is the only thing a restart leaves.

The clients meet the server through one ordered connection each, and what they
know of it is what its replies have told them so far.  The CLI shares that
among three tasks; the page runs one event at a time, but its socket may be
down, and its answers do not say what they answer.

What makes each part correct, and what is hard about it:

- sessions: one live session per user; what a handler does in the name of a
  user, it does as the holder of that user's session; leaving leaves nothing
  and frees the account.  Hard: concurrent logins, the three removals of an
  account switch, replies that fail (`send(..).await?`), restarts.
- trips: the rows of the database and the entries in memory agree, trips are
  closed by their owners only, and none stays behind.  Hard: two-query
  operations that fail half way, check-then-act in POSITION, the loop of
  `close_open_trips`, orphans after a restart.
- pauses: one row marks a pause, at the threshold and not before, and status
  and rows follow the samples.  Hard: the entry is changed before the insert.
- statistics: trips are not blended, nothing is counted twice, gaps of
  silence do not count; the intervals asked for are those of the calendar.
- chat: a receiver that lags loses only what the channel dropped, and handler,
  `chat_task` and operator wait for nothing but a client that does not read.
  Hard: they share the write half of its socket, one of them may be aborted in
  the middle of a write, and the operator's clone outlives the handler.
- clients: while the session lasts the trip the CLI goes by is open, and a trip
  is ended once; the
  page tells the answer to its RESUME from others, and comes back after a
  logout.  Hard: replies late or between two accesses of another task,
  reconnection, requests that waited.
- simulator: the vehicle stays on the streets and moves no further than speed
  and time allow; every call returns; a long pause is seen by the server.
  Hard: edges without length, the bound on the steps, three timers that count
  differently.

`PROJECT.json` lists these hazards one by one with the line where each bites.

## Modules

| module | models | composed with |
|---|---|---|
| `Accounts` | abstract: an account has one holder, never lost in the middle of a request | implemented by `Sessions` |
| `Sessions` | LOGIN, REGISTER, switch, DISCONNECT, hangup, cleanup; the four stores of sessions, users, statuses and registry | instance in `Server` |
| `Server` | START_TRIP, POSITION, END_TRIP, STATS, `close_open_trips`; trips table and trip store | uses the actions of `Sessions`, implements it |
| `Metric` | places on a line: `haversine_m`, `coords_equal` | extended by `MovementStats` and `Simulator` |
| `MovementStats` | the operators of the statistics | extended by `Tracker` |
| `Tracker` | `update_trip`: decision, row, status | |
| `Calendar` | the intervals of `/stats` | extended by `MCStats`, with `Tracker` |
| `Chat` | the broadcast channel, `chat_task`, the operator's broadcasts and direct messages, clients that stop reading | instance of `Sessions` for the handlers |
| `TripLife` | abstract: what a server may be told about a trip by its client | implemented by `Client` |
| `Client` | the CLI's three tasks and the handler they talk to | |
| `Browser` | the page's session: socket, login, logout, RESUME, pending queue | |
| `Simulator` | `build`, `advance`, `pick_next` | extended by `Ride` |
| `Ride` | the page's timer and the server's pause detector | extends `Simulator` |
| `SessionsProofs`, `ServerProofs`, `ClientProofs`, `RideProofs`, `BrowserProofs`, `ChatProofs`, `TrackerProofs`, `StatsProofs` | theorems | each extends its module; `ServerProofs` and `ChatProofs` have an instance of `SessionsProofs`, `StatsProofs` extends `TrackerProofs` |
| `MC...` | instances for TLC | |

### Sessions

`pc[c]` is the next step of connection `c`'s handler; a step is one lock or one
query.  `sessions`, `users`, `status`, `sinks` are the stores; `userState` is
the handler's `user_state`, `target` the user a login in progress is for, and
`offered` the token of an accepted DISCONNECT.  `issuedTo` is history: the
connection a token was sent to.  A token that is not live may be drawn again;
the properties compare live ones only.

LOGIN is `Login`, `TryInsertToken`, then, for a connection that was somebody
else, `DropSession`, `DropStatus`, `DropSink` in the code's order, then
`SetStatus` and `SetSink`, which also sends AUTH_OK.  REGISTER has `SaveUser`
before the token.  Passwords, name lengths, JSON and every other refusal
before a change of state are `Refuse`.  A reply either arrives or, with the
fault `"send"`, takes the handler to `"gone"`: out of `handle_client` by `?`,
past the cleanup.  `Disconnect` and `Hangup` lead to the common way out,
`TripsClosed`, `LeaveStatus`, `LeaveSink`, `LeaveSession`; the first has to
invalidate one token and the other those of the user.  `Crash` is a restart.

`user_state` is written together with the neighbouring store operation
(`SetStatus`, `LeaveSession`): no other handler reads it, only the connection's
own `chat_task`.

`Accounts` sees of all this who holds each account and who acts under it:
`Holder` and `Acting` are computed from the stores, `Promise` is the instance
of `Accounts` with them, and `ExclusiveAccounts` its specification.

### Server

Adds the trips table (`owner`, `open`) and the store (`tracked`).  `Serve` of
`Sessions` is refined to the steps of the request, `step[c]`, and
`TripsClosed` to the loop of `close_open_trips` over `todo[c]`.  With the
fault `"db"` each query may fail where the code handles the error.  Positions
are abstracted to the outcomes of `update_trip`.  The order in which the
handlers' steps are written is the code's: END_TRIP closes the row before it
drops the entry, START_TRIP inserts row and first position before it tracks.

### Chat

The channel's messages are numbered: `sent` is the last, the channel keeps the
last `Cap`, and `next[c]` is the one connection `c`'s receiver reads next.
`task[c]` is the step of `chat_task`: receive, read the connection's user,
lock the write half, write.  `dm` is a direct message between the registry's
lookup and the write, with the write half that was cloned.  `heard` and
`since` are history: what was written to the socket, and how much had been
sent when the connection got a user.  The handlers are those of `Sessions`;
subscribing belongs to their first step, and aborting the task to the last
thing they do.

`reads[c]` says whether the client takes what is written to it.  `Stall`
changes it at any time, and every write waits for it, with the lock of the
write half: that of `chat_task` (`LockChat`, `Forward`) and the operator's
(`LockDm`, `SendDm`), where `lock[c]` says who has it, and the handler's.
What the handler writes is counted in `owed[c]`: a reply after the step that
takes it back to its loop, Ack and Close after a DISCONNECT, before `chat_task`
is aborted.  It takes no step while it owes anything, and it locks and writes
at once (`Write`), since nothing but the client's reading comes between the
two.  `Abort` stops `chat_task` wherever it is and frees the lock if the task
had it.  The operator is no part of the handler: its clone of the write half
keeps the socket after `handle_client` has returned, so a blocked write goes
on, and `Subscribe` uses a slot again only when nobody holds its socket.

### MovementStats and Tracker

Places are points of a line in meters, so that haversine is a difference,
and times are seconds.  `Tracker` keeps one user's entries (`coord`), rows and
status; `pending` is what `update_trip` has decided under the lock and not yet
written, and `heard` is the history of the samples of each trip.  The figures
are sums over sets of windows (`SumFunction`); an interval that ends before it
begins has none (`Refused`).  The clock of the samples is
the client's, so two may have the same second.

`Calendar` translates `civil_from_days`, `days_from_civil` and
`stats_interval`, and states beside them the calendar as one counts it: days
of the months, leap years, one by one.  `YearStart`, `MonthStart` and
`YearOfDay` are the formulas of which the two conversions are made.
`DatesRight` compares the conversions with the calendar; TLC evaluates it in
the initial state of `tracker_stats`.

### Client and TripLife

`loop`, `job` and `recv` are the places of the command loop, of `autopos_task`
and of `recv_task`; an access to one of the cells `token`, `trip`, `auto` is a
step.  A command is written in `cmd` and a report in `report` while their
parts are read.  `up` and `down` are the two directions of the connection;
answers that are only printed are not sent.  The handler is one step a request,
with the outcomes that `Sessions` and `Server` give it for one connection:
refused, accepted, or half done (`OpenTrip` with a row and an error).  Other
connections are there by what they may do to the trips of this one: after a
switch of accounts the first user may log in elsewhere and end the trips
(`Elsewhere`).  An account whose session this connection holds has no other
connection (`SingleSession`, `OwnerActs`), so its trips are left alone.
`startedIn` is history: the token a trip was started with.  With
the fault `"lost"` the connection breaks and takes what was under way along.
An `/end` is `OnTrip`, `ReadTrip`, `Forget`, `StopAuto`, `Send`, in the
code's order, and recv_task may set the trip between any two of them.

`Phase` computes from `trip` and the history `learned` what has become of each
trip, `ends` and `late` count what was sent for it, an END_TRIP and the reports
after one, and `Life` is the instance of `TripLife` with them.  A second
END_TRIP, or a second late report, is a change of state that no action of
`TripLife` allows.

### Browser

`ws` is the readyState of the page's socket, `stale` a socket that was replaced
while it was closing and whose close event is still to come, `retry` the timer
of `onclose`.  `pending` is what waits for the socket to open, `dashboard`
which of the two screens is shown, `form` the name in the input field (None
when it is empty), `stored` the sessionStorage.  Each click, message or change
of the socket is one step.  `running` says whether the server is up: a socket
that connects opens or fails accordingly.  The server's answers carry in `re`
what they answer, for the properties only; the page does not look at it.  The
requests the dashboard offers are one `REQUEST`.

### Simulator and Ride

A call of `advance` is `Wait`, `Pause` or `Depart`, and after `Depart` one
step per iteration of the loop over edges: `Cross`, and at the end `Arrive` or
`GiveUp`.  `budget` is None between two calls.  The nodes are on a line, as in
`Metric`; the graph is any graph without self-loops whose edges go both ways.
Random numbers are choices from finite sets.  In `Ride` a tick of the page is
`Frame`, the walk, `Sample`; the detector is `Judge`, which is `Tracker`'s
without rows.  `still` and `quota` are history.

## Runs

| run | instance | question |
|---|---|---|
| `sessions` | 2 users, 2 connections, 3 tokens, failing sends, crashes | do the stores agree about who is who; who ends a session, what is left behind, is the account freed; `Accounts` as a property |
| `server_steady` | 2 users, 2 connections, 2 tokens, 2 trips, crashes, failing sends | do POSITION's reads stand, and is nothing left open? |
| `server_implements` | the same with 1 trip and every fault | store and table, owners, termination of the way out; `Sessions` as a property |
| `tracker` | 2 trips, 6 samples, 60 s apart, threshold 2, places 0, 5, 10, 60 | is a pause marked, and at the threshold; is every gap in the rows part of one? |
| `tracker_stats` | 2 trips, 4 samples, threshold 2, steps of 0 and 60 s, lost rows; the years 1970 to 2110 | do the figures add up, and are the dates right? |
| `chat` | 1 connection, 2 users, 2 tokens, a channel of 2, 4 broadcasts | are broadcasts lost only by overflow, and is a client that does not read all that anybody waits for? |
| `client` | 2 users, 2 tokens, 2 trips, 2 messages under way, failing queries, a connection that breaks | does the client know what is open while its session lasts, do its positions go on; `TripLife` as a property |
| `ride` | 8 nodes with two dead ends, an edge without length and a cycle without length; 5 steps a call, period 3, threshold 2 | does the vehicle move as it should, and is a long pause recognized? |
| `browser` | 2 users, 3 tokens, 4 messages waiting or under way | is a RESUME's answer told from others, does the page come back? |
| `leak` | failing sends | expected to fail |
| `server_switch` | 1 trip, no fault | expected to fail |
| `chat_dm` | as `chat`, 1 broadcast | expected to fail |

Bounds.  Every hazard of the session layer is between two handlers and one
account, or a handler that switches between two accounts while another logs in
as the first.  The theorems below have no bound: they rule out that a third
connection or user matters.  A token more than there are users lets a login
draw a token while a switch still holds the old one.  Trips: `TripIds`
bounds the rows there will ever be (`Room`); two let the loop of
`close_open_trips` go round, and the initial states have every combination of
rows left by an earlier run.  Samples: a threshold of 2 shows the same
transitions as the code's 6 (first sample, count, stop, skip, move); six
samples of two trips let a trip pause, go on skipping until the rows have a
gap, and move on, or both trips pause, while they write the status by turns.
5 and 10 m are on either side of the tolerance.
`MaxSamples` ends a behaviour, which is why those runs do not check deadlock;
neither does `leak`, where every connection may be gone.

The CLI's races are between two commands, one report and two replies: two
trips are one that is being ended and one that is being started, two tokens a
login and a switch, and two messages under way let a report follow an
END_TRIP; the third waits for room, as a send does.  The page's three tokens
allow a login after a logout with one to resume from before; four messages, a
RESUME and a request behind a logout and a login.  In `ride` a call crosses up
to four edges before it gives up at the fifth, pauses are shorter than the
detector's threshold, near it and beyond it, and ticks of one second let a
pause begin at every offset between two samples.  1970 to 2110 has a century
that is a leap year and one that is not.  `client` and `browser` may stop (a
process that has ended, a server that stays down with nothing to do), and do
not check deadlock.

The receivers of the channel share nothing but its messages, so one connection
is enough for `Chat`; four broadcasts overflow a channel of two twice.

Fairness.  `ChatTask(c)` and `SendDm` of `Chat` are weakly fair, as tokio runs
a task that has something to do, and in that run writes succeed; `LockChat(c)`
and `LockDm` are strongly fair, as tokio's mutex serves its waiters in order,
so that whoever waits for a lock that is freed again and again gets it; nobody
makes
a client read, so `Stall` is not fair and the properties say "or the client
does not read".  `Client` has the tasks that do not wait for the user:
`Autopos`, `Receive`, the handler, and strong fairness of `SendReport`, since
the write half is behind a tokio mutex, which serves its waiters in order, so
that the command loop cannot for ever get ahead of a report.  `Browser` has
the events of the browser (a socket that connects opens or fails, one that
closes closes, timers fire, messages are delivered) and the handler; the user
and the server's being up are not fair.  `Ride` is sequential, and its timer
goes on.  In `Sessions` and `Server` only `Leave(c)`, the steps of a handler on
its way out, is fair: they wait for nothing but mutexes held for one operation and for queries that
return with a row or an error, and tokio runs a task that is ready.  No
fairness is assumed of clients, of replies or of the requests in progress, so nothing is
claimed about them.

Where code and comments part (`findings` in `PROJECT.json`):

1. `SessionsHandled` with failing sends (`leak`): the handler leaves past the
   cleanup, and the account is locked until a restart.
2. `TripsEndWithConnections` (`server_switch`): a switch does not close the old
   user's trips.
3. `DmReachesUser` (`chat_dm`): the operator's direct message goes to the write
   half that was cloned, whoever the connection has become by then.

Others are in the models' behaviours, and were met while writing them, without
a run of their own:

- during a switch, a login as the old user between
  `invalidate_user_sessions` and the removal from the registry loses its fresh
  registry entry (`server/src/main.rs:443-446`, against line 56);
- `invalidate_user_sessions` is "used when a new LOGIN overwrites a previous
  session", so that the old client is rejected (`db/src/lib.rs:166-169`); but
  `try_insert_token` refuses the second login (142-154), as
  `docs/designer-manual.md:30` and `server/tests/concurrent.rs:323` have it,
  and the function is called for a connection's own user only
  (`server/src/main.rs:443, 467, 714`): `NeverEvicted` says that no login
  overwrites a session;
- the detector compares a sample with the first of the stay and the statistics
  compare neighbours, so that samples at 0, 5 and 10 m are a move for the one
  and a pause for the other, though `coords_equal` is there so that they "stay
  consistent" (`server/src/trips/mod.rs:98-102`, `db/src/lib.rs:470`);
- a failed insert loses the pause mark, because the entry is changed first
  (`server/src/trips/mod.rs:137`);
- the samples of a recorded pause are skipped, so a long pause is a gap in the
  rows, which the statistics take for silence (`db/src/lib.rs:465`, against
  369-372): `GapsOnlyInPauses` says that this is the only such gap;
- the server has no RESUME, so a reload never resumes
  (`web/index.html:817-831`);
- a logout while the socket is down waits in the queue, and a login typed
  meanwhile is lost behind it (`web/index.html:843-847, 986`);
- the page takes the name from the form when AUTH_OK arrives, which may by
  then be another one, or empty (`web/index.html:868-872`);
- a TRIP_STARTED that arrives after an `/end` of the trip before leaves the
  new trip without automatic positions (`client/src/main.rs:131, 202-203`,
  against 257), and one between the two accesses of `/end` is forgotten;
- "some exceed 180 s => the server recognizes them" (`sim/src/lib.rs:28`) is
  certain from 210 s on; between the two it depends on where the pause began;
- a user named "SERVER" gets no broadcast (`server/src/main.rs:361`).

## Proofs

The theorems hold for every value of the constants.  None of the invariants
that the runs check is inductive alone; each module states the one that is,
which TLC has confirmed on an instance before it was proved, and says in its
head what the argument is.

| module | theorem | property |
|---|---|---|
| `SessionsProofs` | `TypeCorrect`, `OneSessionPerUser`, `IdentityIsHeld`, `TokensAreBound`, `RegistryIsRight`, `NoGhostsShown` | `TypeOK`, `SingleSession`, `SessionOwned`, `TokenBound`, `SinkRoute`, `NoGhostStatus` |
| | `HolderEndsSession`, `NothingLeftBehind`, `OnlySendLeaks` | `NeverEvicted`, `CleanBreak`; `SessionsHandled` unless sends fail |
| | `ImplementsAccounts` | `ExclusiveAccounts`, the refinement of `Accounts` |
| `ServerProofs` | `ServerStepsAreSessionSteps` | the refinement of `Sessions`, without its fairness |
| | `ServerTypeCorrect`, `LookupsStand`, `StoreFollowsTable`, `CleanupLeavesNothing` | `TypeOK`, `LookupStands`, `TrackedTripsOpen`; `NothingLeftOpen` unless queries fail |
| | `OnlyOwnersAct`, `OrphansComeFromRestarts` | `OwnerActs`; `NoNewOrphan` unless queries fail |
| `ClientProofs` | `ClientTypeCorrect`, `ClientKnowsOpenTrips`, `ImplementsTripLife` | `TypeOK`, `KnownIsOpen`; `LivesOfTrips`, the refinement of `TripLife` |
| `BrowserProofs` | `PageTypeCorrect`, `ResumesAnswerFirst` | `TypeOK`, `ResumeAnswersFirst` |
| `ChatProofs` | `ChatStepsAreSessionSteps`, `ChatTypeCorrect`, `BroadcastsCatchUp` | the refinement of `Sessions`, without its fairness; `TypeOK`, `CatchesUp` |
| `RideProofs` | `SmallDisplacements`, `RideTypeCorrect`, `PausesAreSeen` | `NoJumps`, `RideTypeOK`, `LongPausesSeen` |
| `TrackerProofs` | `TrackerTypeCorrect`, `EntriesAreAnchored` | `TypeOK`; what an entry of `last_coordinates` means |
| | `GapsArePauses` | `GapsOnlyInPauses`, if inserts succeed and timestamps go up |
| | `PausesAreEarned`, `PausesAreMarked` | `NoEarlyPause`, `PauseMarked`, for any number of trips, under the same conditions |
| `StatsProofs` | `TripsDoNotBlend`, `IntervalsDoNotOverlap` | `TripsAddUp`, `IntervalsAddUp` |
| | `DatesAreRight` | `DatesRight`, for every year |
| | `ConversionsAreInverse`, `IntervalsPartDays` | every date and every day comes back; every day is in one week and in one month |

Assumptions.  `None` is none of the values it stands beside (`NoneIsNobody`,
`NoneIsNoTrip`, `NoneIsNothing`, `NoneIsNoNumber`), counts and times are
natural numbers, capacities and thresholds positive.  Users, connections and
tokens need not be finite; the trips of one user are (`TripsFinite`), since
their figures are added.  `LongestTimes` says that there is a longest drive and
a longest pause (`DRIVE_MAX`, `PAUSE_MAX` of the simulator), `TicksFit` that
the page's timer ticks more often than it sends (0.1 s and 30 s in the
simulator's time): with longer ticks a sample could stand for more than one
period and `LongPausesSeen` would be false.

Sessions.  `SessionInv` adds to the properties what a handler may rely on
between two of its steps: which of `userState`, `target`, `offered` are set at
each `pc` (`LocalInv`); that a login in progress already holds its target's
session, that a switching connection has let go of its old one, that a live
token was sent to a connection that is its user or is about to be, and that
the token of an accepted DISCONNECT is the one its connection holds
(`HoldInv`); that a connection past `LeaveSink` or `DropSink` is in the
registry no more (`SinkInv`); that a leaving user is hidden before the session
is freed (`StatusInv`).  The heart is `FreeMeansUnheld` and `OneHolder`: an
operation by name hits only what the connection holds itself, because
`SessionOwned` says that it holds the session of its user and `SingleSession`
that there is no other.

Server.  `ServerInv` is `SessionInv` of the instance, which comes for free once
every step of the server is shown to be a step of the sessions or to leave
them alone, and for each request what its handler knows of its trip
(`TripInv`).  That this survives the steps of the others is because there is
one handler that acts for a user (`OneActor`, from the sessions) and a step
touches rows of its own user only (`TouchesOwnRows`).  `Settled` needs the
queries not to fail, and so do the two theorems that follow from it.

Client and Browser.  `ClientInv` follows a trip's id on its way through the
queues: announced once, taken from the announcement, let go of before its
END_TRIP, and ended once (`TripInv`, `WayInv`).  `SessionInv` of that module
says what a trip has to do with the session it was started in: the owner is
the handler's user as long as its token is live, so that neither `Elsewhere`
nor the END_TRIP of another account reaches it.  `PageInv` relates the page's flag `resuming`
to what is under way on the socket: the RESUME is the first message the server
has to read and nothing is answered, or its answer is the first the page has
to read (`ResumeUnderWay`).

Chat.  `CaughtUp`: a connection that is within `Cap` of its login has written
every broadcast it has received since, but the one in its hands.  Handler and
`chat_task` share `userState` and the write half, and who has its lock does
not matter to what is written.

Ride.  Inside the loop of `advance` the vehicle is on its way from the place
it shows; the way so far and the budget left are together within the budget of
the call (`Reach`).  This needs the triangle inequality and that the ends of
an edge are as far apart as it is long.  `Counted` relates the seconds of
standing still to the count of the detector: each period but the first, which
may be a part of one, has given a sample near the anchor.

Tracker.  `Anchored` says what an entry means: it is that of the last sample
that was not at the place of the one before, all later ones were near it, and
count and flag say how many came.  It holds whatever inserts fail.  What is
recorded is more delicate: `PauseRow` (while a pause lasts, the row that marks
it is the trip's newest) and `Covered` (every sample has its row, or no row
lies between it and the one that marks its pause) hold if inserts succeed and
a client's timestamps go up (`Undisturbed`).  Both conditions are needed: when
the insert of the row that marks a pause fails, the entry says that it was
recorded and the rest of the pause is lost, with nothing in the rows to show
for it.  The status is the user's, and two trips, one that stands and one that
moves, write it by turns, so it is not that of any given trip; but there is
always a trip that it is right about (`AnchoredStatus`).  "stationary" is
written by a trip that has not left its start or whose pause is marked
(`Rests`), "moving" by one that has moved and not stood for long since
(`Goes`), and a trip of either kind changes only by writing the status anew.

Statistics.  The figures are folds, and it has to be shown first that a sum
does not depend on the order in which the fold takes the elements.  Induction
over finite sets is by the least counterexample (`LeastNat`, `SetInduction`),
with sets in place of predicates: `SumTakesOut` (any element may be taken out
first), `SumSplits`, `SumByGroup`, `SumOfSpans` (intervals that do not overlap
are together no longer than the time they lie in).  The windows of a trip are
those of the table that lie in the trip, and the same for an interval
(`CountedWithin`); from there both theorems are about one sum.  `Kept` is all
they need of the pause detector: the table is finite, of the past, and has one
row for each key.  They hold for failing inserts and equal timestamps.

Calendar.  A day of an era of 400 years is 36524 c + 1461 q + 365 r + doy, with
a century, a leap cycle, a year of it and a day of the year (`YearParts`,
`DayParts`); on these numbers `YearOfDay` is a statement of linear arithmetic
(`YearFormula`), and the same is done for the months (`MonthFound`).  So each
conversion undoes the other.  What they compute is what one counts: the number
of leap years since 1970 (`LeapYearsCounted`) and the sum of the lengths of the
months (`DaysBeforeCounted`) are induced on the year and on the month, and
`MonthsFollow` says that the day after the last of a month is the first of the
next.  The numbers are unbounded; those of the code are 64 bits wide, and 32
for the year.

Only model-checked: the liveness properties (`AccountFreed`, `LeavingEnds`,
`Delivered`, `OperatorGoesOn`, `KeepsReporting`, `DrivesAndPauses`,
`LogoutReturns`) and the fairness part of `ImplementsSessions`, since the
prover does not do ENABLED.  A theorem that holds "unless" something fails has
the condition of the run that checks it: without it the property is false, and
for `SessionsHandled` the run `leak` shows how.

## Not modelled

The page's trip: `tripActive` and `tripId`, the trail on the map, its
distance and the other figures it draws; colours and layout of both clients.
`/stats` and `/chat` of the CLI and its coordinates, which change nothing that
the others read.  Passwords and hashing, JSON and the checks of lengths, HTTP
routes and static files, the CPU log (a line of process statistics every two
minutes), the map export (an offline script).  Distances on the sphere and
average speed.  SQLite is a set of rows that a query reads or changes at once.
A client of `Client` and `Browser` always reads; one that does not is in
`Chat`.

## Plan

Modelling is done but for what is listed above, and every safety property of
the runs has a theorem.  What is left is to relate the handler in `Client` and
`Browser` to that of `Server`.  It is no refinement as it stands: a request is
one step there and several here, with a lock or a query each, so that it takes
a handler whose steps are joined first, and a proof that the others do not
come between them.
