--------------------------- MODULE SessionsProofs ---------------------------
(***************************************************************************)
(* Theorems about Sessions.tla, for any users, connections, tokens and     *)
(* faults.                                                                 *)
(*                                                                         *)
(* Every argument rests on one fact: the session store names each account  *)
(* at most once, so the account has one holder.  What a handler does to an *)
(* account's session, status or registry entry it does as that holder,     *)
(* and what it has read of an account stays true under the steps of the    *)
(* others because none of them is its holder.                              *)
(***************************************************************************)
EXTENDS Sessions, TLAPS

USE DEF Switching

Entering == {"insertToken", "dropSession", "dropStatus", "dropSink", "setStatus", "setSink"}
Changing == {"dropSession", "dropStatus", "dropSink", "setStatus"}
Leaving == {"closing", "leaveStatus", "leaveSink", "leaveSession"}

\* The types, and the one fact about a handler's variables they rest on.
TypeInv == TypeOK /\ (\A c \in Conns : pc[c] = "saveUser" => target[c] \in Users)

\* What a handler knows of its own variables at each step.
LocalInv == \A c \in Conns :
  /\ userState[c] # None => userState[c] \in users
  /\ pc[c] \in Entering => target[c] \in users
  /\ pc[c] \in {"insertToken", "dropSession"} => target[c] # userState[c]
  /\ pc[c] = "setSink" => target[c] = userState[c]
  /\ pc[c] \in Leaving \cup {"serving", "dropSession", "dropStatus", "dropSink"}
       => userState[c] # None
  /\ pc[c] = "closed" => userState[c] = None
  /\ pc[c] = "gone" => "send" \in Faults

\* Who holds which session.
StoreInv == \A t \in Tokens : sessions[t] = None <=> issuedTo[t] = None

TargetHeld == \A c \in Conns : pc[c] \in Changing => Holds(c, target[c])

LetGo == \A c \in Conns :
  Switching(c) /\ userState[c] # None => ~Holds(c, userState[c])

HoldsOwn == \A c \in Conns, u \in Users : Holds(c, u) =>
  u = userState[c] \/ (pc[c] \in Changing /\ u = target[c])

OfferedInv == \A c \in Conns : offered[c] # None =>
  pc[c] \in Leaving /\ sessions[offered[c]] = userState[c]

HoldInv == /\ SingleSession /\ StoreInv /\ SessionOwned
           /\ TargetHeld /\ LetGo /\ HoldsOwn /\ OfferedInv

\* Who is in the registry.
NoSink == \A c \in Conns, u \in Users :
  pc[c] \in {"setStatus", "leaveSession"} => sinks[u] # c

SinkInv == SinkRoute /\ NoSink

\* Who is shown.
HiddenOnLeave == \A c \in Conns :
  pc[c] \in {"leaveSink", "leaveSession"} => status[userState[c]] = "disconnected"

StatusInv == NoGhostStatus /\ HiddenOnLeave

SessionInv == TypeInv /\ LocalInv /\ HoldInv /\ SinkInv /\ StatusInv

-----------------------------------------------------------------------------
(***************************************************************************)
(* Types.                                                                  *)
(***************************************************************************)
LEMMA TypeInit == Init => TypeInv
  BY DEF Init, TypeInv, TypeOK, Nobody, AllDisconnected, AllClosed, Steps, Statuses

LEMMA TypeStep == TypeInv /\ [Next]_vars => TypeInv'
<1> SUFFICES ASSUME TypeInv, [Next]_vars
             PROVE  TypeInv'
  OBVIOUS
<1> USE DEF TypeInv, TypeOK, Steps, Statuses
<1>1. ASSUME NEW c \in Conns, Handler(c)
      PROVE  TypeInv'
  <2> USE DEF Goto, Reply, shared, accounts, locals
  <2>1. CASE Connect(c)
    BY <2>1 DEF Connect
  <2>2. CASE Refuse(c)
    BY <2>2 DEF Refuse
  <2>3. CASE \E u \in Users : Login(c, u)
    BY <2>3 DEF Login
  <2>4. CASE \E u \in Users : Register(c, u)
    BY <2>4 DEF Register
  <2>5. CASE SaveUser(c)
    BY <2>5 DEF SaveUser
  <2>6. CASE TryInsertToken(c)
    BY <2>6 DEF TryInsertToken
  <2>7. CASE Switch(c)
    BY <2>7 DEF Switch, DropSession, DropStatus, DropSink, Expire
  <2>8. CASE Install(c)
    BY <2>8 DEF Install, SetStatus, SetSink
  <2>9. CASE Request(c)
    BY <2>9 DEF Request, Serve, Track, Served
  <2>10. CASE Quit(c)
    BY <2>10 DEF Quit, Hangup, Disconnect, DisconnectOther, Cleanup
  <2>11. CASE TripsClosed(c) \/ LeaveStatus(c) \/ LeaveSink(c)
    BY <2>11 DEF TripsClosed, LeaveStatus, LeaveSink
  <2>12. CASE LeaveSession(c)
    BY <2>12 DEF LeaveSession, Expire, Invalidate
  <2>13. QED
    BY <1>1, <2>1, <2>2, <2>3, <2>4, <2>5, <2>6, <2>7, <2>8, <2>9, <2>10, <2>11, <2>12
       DEF Handler, Enter, Leave
<1>2. CASE Crash
  BY <1>2 DEF Crash, Nobody, AllDisconnected, AllClosed
<1>3. CASE UNCHANGED vars
  BY <1>3 DEF vars, shared, accounts, locals
<1>4. QED
  BY <1>1, <1>2, <1>3 DEF Next

\* Every variable keeps its type.
THEOREM TypeCorrect == Spec => []TypeOK
<1>1. TypeInv => TypeOK
  BY DEF TypeInv
<1>2. QED
  BY <1>1, TypeInit, TypeStep, PTL DEF Spec

-----------------------------------------------------------------------------
(***************************************************************************)
(* Holders.                                                                *)
(***************************************************************************)

\* An account has one holder.
LEMMA OneHolder ==
  ASSUME SingleSession, NEW u \in Users, NEW c, NEW d, Holds(c, u), Holds(d, u)
  PROVE  c = d
BY NoneIsNobody DEF SingleSession, Holds

\* No holder, no session.
LEMMA FreeMeansUnheld ==
  ASSUME TypeOK, StoreInv, NEW u \in Users
  PROVE  SessionFree(u) <=> \A c \in Conns : ~Holds(c, u)
BY NoneIsNobody DEF TypeOK, StoreInv, SessionFree, Holds

LEMMA HoldInit == Init => HoldInv /\ LocalInv
BY NoneIsNobody DEF Init, Nobody, AllDisconnected, AllClosed, HoldInv, LocalInv, SingleSession, StoreInv,
       SessionOwned, TargetHeld, LetGo, HoldsOwn, OfferedInv, Holds, Entering, Changing, Leaving

LEMMA LocalStep == TypeInv /\ LocalInv /\ [Next]_vars => LocalInv'
<1> SUFFICES ASSUME TypeInv, LocalInv, [Next]_vars
             PROVE  LocalInv'
  OBVIOUS
<1> USE NoneIsNobody DEF TypeInv, TypeOK, LocalInv, Entering, Leaving
<1>1. ASSUME NEW c \in Conns, Handler(c)
      PROVE  LocalInv'
  <2> USE DEF Goto, Reply, shared, accounts, locals
  <2>1. CASE Connect(c) \/ Refuse(c)
    BY <2>1 DEF Connect, Refuse
  <2>2. CASE \E u \in Users : Login(c, u)
    BY <2>2 DEF Login
  <2>3. CASE \E u \in Users : Register(c, u)
    BY <2>3 DEF Register
  <2>4. CASE SaveUser(c)
    BY <2>4 DEF SaveUser
  <2>5. CASE TryInsertToken(c)
    BY <2>5 DEF TryInsertToken
  <2>6. CASE Switch(c)
    BY <2>6 DEF Switch, DropSession, DropStatus, DropSink
  <2>7. CASE Install(c)
    BY <2>7 DEF Install, SetStatus, SetSink
  <2>8. CASE Request(c)
    BY <2>8 DEF Request, Serve, Track, Served, Accepts
  <2>9. CASE Quit(c)
    BY <2>9 DEF Quit, Hangup, Disconnect, DisconnectOther, Cleanup, Accepts
  <2>10. CASE Leave(c)
    BY <2>10 DEF Leave, TripsClosed, LeaveStatus, LeaveSink, LeaveSession
  <2>11. QED
    BY <1>1, <2>1, <2>2, <2>3, <2>4, <2>5, <2>6, <2>7, <2>8, <2>9, <2>10
       DEF Handler, Enter
<1>2. CASE Crash
  BY <1>2 DEF Crash, Nobody, AllDisconnected, AllClosed
<1>3. CASE UNCHANGED vars
  BY <1>3 DEF vars, shared, accounts, locals
<1>4. QED
  BY <1>1, <1>2, <1>3 DEF Next

\* What the steps do to the holders: nothing ...
LEMMA HoldQuiet ==
  ASSUME UNCHANGED <<sessions, issuedTo>>, NEW c, NEW u
  PROVE  Holds(c, u)' <=> Holds(c, u)
BY DEF Holds

\* ... take one account from whoever holds it ...
LEMMA HoldExpire ==
  ASSUME TypeOK, NEW w \in Users, Expire(w), NEW c \in Conns, NEW u \in Users
  PROVE  Holds(c, u)' <=> u # w /\ Holds(c, u)
BY NoneIsNobody DEF TypeOK, Expire, Holds

\* ... which is also what invalidating its only token does ...
LEMMA HoldInvalidate ==
  ASSUME TypeOK, SingleSession, NEW t \in Tokens, sessions[t] \in Users, Invalidate(t),
         NEW c \in Conns, NEW u \in Users
  PROVE  Holds(c, u)' <=> u # sessions[t] /\ Holds(c, u)
BY NoneIsNobody DEF TypeOK, Invalidate, Holds, SingleSession

\* ... or give a free one to the connection that logs in.
LEMMA HoldIssue ==
  ASSUME TypeOK, NEW t \in Tokens, sessions[t] = None, NEW d \in Conns, NEW w \in Users,
         sessions' = [sessions EXCEPT ![t] = w], issuedTo' = [issuedTo EXCEPT ![t] = d],
         NEW c \in Conns, NEW u \in Users
  PROVE  Holds(c, u)' <=> Holds(c, u) \/ (c = d /\ u = w)
BY NoneIsNobody DEF TypeOK, Holds

\* Which steps touch the sessions.
LEMMA SessionChange ==
  ASSUME NEW c \in Conns, Handler(c)
  PROVE  \/ UNCHANGED <<sessions, issuedTo>>
         \/ TryInsertToken(c) /\ SessionFree(target[c])
         \/ DropSession(c) \/ LeaveSession(c)
<1> USE DEF shared, accounts
<1>1. CASE Enter(c)
  BY <1>1 DEF Enter, Connect, Refuse, Login, Register, SaveUser, TryInsertToken
<1>2. CASE Switch(c) \/ Install(c)
  BY <1>2 DEF Switch, DropStatus, DropSink, Install, SetStatus, SetSink
<1>3. CASE Request(c)
  BY <1>3 DEF Request, Serve, Track, Served
<1>4. CASE Quit(c) \/ Leave(c)
  BY <1>4 DEF Quit, Hangup, Disconnect, DisconnectOther, Leave, TripsClosed, LeaveStatus, LeaveSink
<1>5. QED
  BY <1>1, <1>2, <1>3, <1>4 DEF Handler

LEMMA HoldStep == TypeInv /\ LocalInv /\ HoldInv /\ [Next]_vars => HoldInv'
<1> SUFFICES ASSUME TypeInv, LocalInv, HoldInv, [Next]_vars
             PROVE  HoldInv'
  OBVIOUS
<1> USE NoneIsNobody DEF TypeInv, TypeOK, LocalInv, HoldInv, StoreInv, SessionOwned, TargetHeld,
                         LetGo, HoldsOwn, OfferedInv, Entering, Changing, Leaving
<1>1. ASSUME NEW c \in Conns, Handler(c), UNCHANGED <<sessions, issuedTo>>,
             ~DropSession(c), ~LeaveSession(c)
      PROVE  HoldInv'
  <2> USE <1>1 DEF Goto, Reply, shared, accounts, locals
  <2>1. \A d \in Conns, u \in Users : Holds(d, u)' <=> Holds(d, u)
    BY HoldQuiet
  <2>2. SingleSession' /\ StoreInv'
    BY DEF SingleSession
  <2>3. CASE Enter(c)
    BY <2>1, <2>2, <2>3 DEF Enter, Connect, Refuse, Login, Register, SaveUser, TryInsertToken
  <2>4. CASE Switch(c)
    BY <2>1, <2>2, <2>4 DEF Switch, DropStatus, DropSink
  <2>5. CASE SetStatus(c)
    BY <2>1, <2>2, <2>5 DEF SetStatus
  <2>6. CASE SetSink(c)
    BY <2>1, <2>2, <2>6 DEF SetSink
  <2>7. CASE Request(c)
    BY <2>1, <2>2, <2>7 DEF Request, Serve, Track, Served
  <2>8. CASE Quit(c)
    BY <2>1, <2>2, <2>8 DEF Quit, Hangup, Disconnect, DisconnectOther, Cleanup, Accepts
  <2>9. CASE Leave(c)
    BY <2>1, <2>2, <2>9 DEF Leave, TripsClosed, LeaveStatus, LeaveSink
  <2>10. QED
    BY <2>2, <2>3, <2>4, <2>5, <2>6, <2>7, <2>8, <2>9 DEF Handler, Install
<1>2. ASSUME NEW c \in Conns, TryInsertToken(c), SessionFree(target[c])
      PROVE  HoldInv'
  <2> DEFINE u == target[c]
  <2>1. PICK t \in Tokens : /\ sessions[t] = None
                            /\ sessions' = [sessions EXCEPT ![t] = u]
                            /\ issuedTo' = [issuedTo EXCEPT ![t] = c]
    BY <1>2 DEF TryInsertToken
  <2>2. /\ pc[c] = "insertToken" /\ u \in Users /\ u # userState[c]
        /\ pc' = [pc EXCEPT ![c] = IF userState[c] = None THEN "setStatus" ELSE "dropSession"]
        /\ UNCHANGED locals
    BY <1>2 DEF TryInsertToken, Goto, locals
  <2>3. \A d \in Conns, v \in Users : Holds(d, v)' <=> Holds(d, v) \/ (d = c /\ v = u)
    BY <2>1, <2>2, HoldIssue
  <2>4. SingleSession' /\ StoreInv'
    BY <1>2, <2>1, <2>2 DEF SingleSession, SessionFree
  <2>5. SessionOwned'
    BY <2>2, <2>3 DEF locals
  <2>6. TargetHeld'
    BY <2>2, <2>3 DEF locals
  <2>7. LetGo' /\ HoldsOwn'
    BY <2>2, <2>3 DEF locals
  <2>8. OfferedInv'
    BY <2>1, <2>2 DEF locals
  <2>9. QED
    BY <2>4, <2>5, <2>6, <2>7, <2>8
<1>3. ASSUME NEW c \in Conns, DropSession(c)
      PROVE  HoldInv'
  <2> DEFINE u == userState[c]
  <2>1. /\ pc[c] = "dropSession" /\ u \in Users /\ Holds(c, u) /\ target[c] # u
        /\ pc' = [pc EXCEPT ![c] = "dropStatus"]
        /\ UNCHANGED locals
    BY <1>3 DEF DropSession, Goto
  <2>2. \A d \in Conns, v \in Users : Holds(d, v)' <=> v # u /\ Holds(d, v)
    BY <1>3, <2>1, HoldExpire DEF DropSession
  <2>3. \A d \in Conns : Holds(d, u) => d = c
    BY <2>1, OneHolder
  <2>4. SingleSession' /\ StoreInv'
    BY <1>3, <2>1 DEF SingleSession, DropSession, Expire
  <2>5. SessionOwned'
    BY <2>1, <2>2, <2>3 DEF locals
  <2>6. TargetHeld'
    BY <2>1, <2>2, <2>3 DEF locals
  <2>7. LetGo' /\ HoldsOwn'
    BY <2>1, <2>2 DEF locals
  <2>8. OfferedInv'
    BY <1>3, <2>1, <2>3 DEF locals, DropSession, Expire
  <2>9. QED
    BY <2>4, <2>5, <2>6, <2>7, <2>8
<1>4. ASSUME NEW c \in Conns, LeaveSession(c)
      PROVE  HoldInv'
  <2> DEFINE u == userState[c]
  <2>1. /\ pc[c] = "leaveSession" /\ u \in Users /\ Holds(c, u)
        /\ pc' = [pc EXCEPT ![c] = "closed"]
        /\ userState' = [userState EXCEPT ![c] = None]
        /\ offered' = [offered EXCEPT ![c] = None]
        /\ target' = target
    BY <1>4 DEF LeaveSession, Goto
  <2>2. \A d \in Conns, v \in Users : Holds(d, v)' <=> v # u /\ Holds(d, v)
    BY <1>4, <2>1, HoldExpire, HoldInvalidate DEF LeaveSession
  <2>3. \A d \in Conns : Holds(d, u) => d = c
    BY <2>1, OneHolder
  <2>4. SingleSession' /\ StoreInv'
    BY <1>4, <2>1 DEF SingleSession, LeaveSession, Expire, Invalidate
  <2>5. SessionOwned'
    BY <2>1, <2>2, <2>3
  <2>6. TargetHeld'
    BY <2>1, <2>2, <2>3
  <2>7. LetGo' /\ HoldsOwn'
    BY <2>1, <2>2
  <2>8. OfferedInv'
    <3>1. ASSUME NEW d \in Conns, d # c, offered[d] # None
          PROVE  sessions'[offered[d]] = sessions[offered[d]]
      <4>1. sessions[offered[d]] = userState[d] /\ Holds(d, userState[d])
        BY <3>1
      <4>2. userState[d] # u
        BY <3>1, <4>1, <2>3
      <4>3. QED
        BY <1>4, <2>1, <3>1, <4>1, <4>2 DEF LeaveSession, Expire, Invalidate
    <3>2. QED
      BY <2>1, <3>1
  <2>9. QED
    BY <2>4, <2>5, <2>6, <2>7, <2>8
<1>5. CASE Crash
  BY <1>5 DEF Crash, Nobody, AllDisconnected, AllClosed, SingleSession, Holds
<1>6. CASE UNCHANGED vars
  BY <1>6 DEF vars, shared, accounts, locals, SingleSession, Holds
<1>7. QED
  BY <1>1, <1>2, <1>3, <1>4, <1>5, <1>6, SessionChange DEF Next

-----------------------------------------------------------------------------
(***************************************************************************)
(* The registry and the status map.                                        *)
(***************************************************************************)
LEMMA ShownInit == Init => SinkInv /\ StatusInv
BY NoneIsNobody DEF Init, Nobody, AllDisconnected, AllClosed, SinkInv, SinkRoute, NoSink,
                    StatusInv, NoGhostStatus, HiddenOnLeave

LEMMA SinkStep == TypeInv /\ LocalInv /\ SinkInv /\ [Next]_vars => SinkInv'
<1> SUFFICES ASSUME TypeInv, LocalInv, SinkInv, [Next]_vars
             PROVE  SinkInv'
  OBVIOUS
<1> USE NoneIsNobody DEF TypeInv, TypeOK, LocalInv, SinkInv, SinkRoute, NoSink, Entering, Leaving
<1>1. ASSUME NEW c \in Conns, Handler(c)
      PROVE  SinkInv'
  <2> USE DEF Goto, Reply, shared, accounts, locals
  <2>1. CASE Connect(c) \/ Refuse(c)
    BY <2>1 DEF Connect, Refuse
  <2>2. CASE \E u \in Users : Login(c, u) \/ Register(c, u)
    BY <2>2 DEF Login, Register
  <2>3. CASE SaveUser(c)
    BY <2>3 DEF SaveUser
  <2>4. CASE TryInsertToken(c)
    BY <2>4 DEF TryInsertToken
  <2>5. CASE Switch(c)
    BY <2>5 DEF Switch, DropSession, DropStatus, DropSink
  <2>6. CASE SetStatus(c)
    BY <2>6 DEF SetStatus
  <2>7. CASE SetSink(c)
    BY <2>7 DEF SetSink
  <2>8. CASE Request(c)
    BY <2>8 DEF Request, Serve, Track, Served
  <2>9. CASE Quit(c)
    BY <2>9 DEF Quit, Hangup, Disconnect, DisconnectOther, Cleanup
  <2>10. CASE Leave(c)
    BY <2>10 DEF Leave, TripsClosed, LeaveStatus, LeaveSink, LeaveSession
  <2>11. QED
    BY <1>1, <2>1, <2>2, <2>3, <2>4, <2>5, <2>6, <2>7, <2>8, <2>9, <2>10
       DEF Handler, Enter, Install
<1>2. CASE Crash
  BY <1>2 DEF Crash, Nobody, AllDisconnected, AllClosed
<1>3. CASE UNCHANGED vars
  BY <1>3 DEF vars, shared, accounts, locals
<1>4. QED
  BY <1>1, <1>2, <1>3 DEF Next

\* Who is shown changes with a step of the one who shows, and a session is
\* freed only by a connection that has been hidden.
LEMMA StatusStep ==
  TypeInv /\ LocalInv /\ HoldInv /\ StatusInv /\ [Next]_vars => StatusInv'
<1> SUFFICES ASSUME TypeInv, LocalInv, HoldInv, StatusInv, [Next]_vars
             PROVE  StatusInv'
  OBVIOUS
<1> USE NoneIsNobody DEF TypeInv, TypeOK, LocalInv, HoldInv, Entering, Leaving, StatusInv,
                         NoGhostStatus, HiddenOnLeave
<1>1. ASSUME NEW c \in Conns, Handler(c)
      PROVE  StatusInv'
  <2> USE DEF Goto, Reply, shared, accounts, locals, SessionFree
  <2>1. CASE Connect(c) \/ Refuse(c)
    BY <2>1 DEF Connect, Refuse
  <2>2. CASE \E u \in Users : Login(c, u) \/ Register(c, u)
    BY <2>2 DEF Login, Register
  <2>3. CASE SaveUser(c)
    BY <2>3 DEF SaveUser
  <2>4. CASE TryInsertToken(c)
    BY <2>4 DEF TryInsertToken
  <2>5. CASE DropSession(c)
    BY <2>5 DEF DropSession, Expire
  <2>6. CASE DropStatus(c) \/ DropSink(c)
    BY <2>6 DEF DropStatus, DropSink
  <2>7. CASE SetStatus(c)
    <3>1. target[c] \in Users /\ Holds(c, target[c])
      BY <2>7 DEF SetStatus, TargetHeld, Changing
    <3>2. \A d \in Conns : Holds(d, target[c]) => d = c
      BY <3>1, OneHolder
    <3>3. \A d \in Conns : d # c /\ pc[d] \in Leaving => userState[d] # target[c]
      BY <3>2 DEF SessionOwned
    <3>4. ~SessionFree(target[c])
      BY <3>1, FreeMeansUnheld
    <3>5. QED
      BY <2>7, <3>1, <3>3, <3>4 DEF SetStatus
  <2>8. CASE SetSink(c)
    BY <2>8 DEF SetSink
  <2>9. CASE Request(c)
    <3>1. CASE UNCHANGED status
      BY <2>9, <3>1 DEF Request, Serve, Track, Served
    <3>2. ASSUME NEW s \in Statuses, Track(c, s)
          PROVE  StatusInv'
      <4>1. pc[c] = "serving" /\ userState[c] \in Users /\ Holds(c, userState[c])
        BY <3>2 DEF Track, SessionOwned
      <4>2. \A d \in Conns : d # c /\ pc[d] \in Leaving => userState[d] # userState[c]
        BY <4>1, OneHolder DEF SessionOwned
      <4>3. ~SessionFree(userState[c])
        BY <4>1, FreeMeansUnheld
      <4>4. QED
        BY <3>2, <4>1, <4>2, <4>3 DEF Track
    <3>3. QED
      BY <2>9, <3>1, <3>2 DEF Request, Serve, Served, Statuses
  <2>10. CASE Quit(c)
    BY <2>10 DEF Quit, Hangup, Disconnect, DisconnectOther, Cleanup
  <2>11. CASE TripsClosed(c) \/ LeaveStatus(c) \/ LeaveSink(c)
    BY <2>11 DEF TripsClosed, LeaveStatus, LeaveSink
  <2>12. CASE LeaveSession(c)
    BY <2>12 DEF LeaveSession, Expire, Invalidate, OfferedInv
  <2>13. QED
    BY <1>1, <2>1, <2>2, <2>3, <2>4, <2>5, <2>6, <2>7, <2>8, <2>9, <2>10, <2>11, <2>12
       DEF Handler, Enter, Switch, Install, Leave
<1>2. CASE Crash
  BY <1>2 DEF Crash, Nobody, AllDisconnected, AllClosed
<1>3. CASE UNCHANGED vars
  BY <1>3 DEF vars, shared, accounts, locals, SessionFree
<1>4. QED
  BY <1>1, <1>2, <1>3 DEF Next

-----------------------------------------------------------------------------
(***************************************************************************)
(* The theorems.                                                           *)
(***************************************************************************)
LEMMA InvariantHolds == Spec => []SessionInv
<1>1. Init => SessionInv
  BY TypeInit, HoldInit, ShownInit DEF SessionInv
<1>2. SessionInv /\ [Next]_vars => SessionInv'
  BY TypeStep, LocalStep, HoldStep, SinkStep, StatusStep DEF SessionInv
<1>3. QED
  BY <1>1, <1>2, PTL DEF Spec

\* However many connections race, no user ever has two live tokens.
THEOREM OneSessionPerUser == Spec => []SingleSession
<1>1. SessionInv => SingleSession
  BY DEF SessionInv, HoldInv
<1>2. QED
  BY <1>1, InvariantHolds, PTL

\* A connection that is u holds u's session, from the AUTH_OK until its cleanup
\* is over, whatever the others do meanwhile.
THEOREM IdentityIsHeld == Spec => []SessionOwned
<1>1. SessionInv => SessionOwned
  BY DEF SessionInv, HoldInv
<1>2. QED
  BY <1>1, InvariantHolds, PTL

\* A token is good on the connection it was issued to only, though all that
\* validate_token compares is two names.
THEOREM TokensAreBound == Spec => []TokenBound
<1>1. SessionInv => TokenBound
  <2> SUFFICES ASSUME SessionInv, NEW c \in Conns, NEW t \in Tokens,
                      pc[c] \in {"idle", "serving"}, Accepts(c, t)
               PROVE  issuedTo[t] = c
    BY DEF TokenBound
  <2> USE DEF SessionInv, HoldInv
  <2>1. Holds(c, userState[c])
    BY DEF SessionOwned, Accepts
  <2>2. QED
    BY <2>1 DEF Accepts, Holds, SingleSession
<1>2. QED
  BY <1>1, InvariantHolds, PTL

\* The registry leads to connections that are who it says.
THEOREM RegistryIsRight == Spec => []SinkRoute
<1>1. SessionInv => SinkRoute
  BY DEF SessionInv, SinkInv
<1>2. QED
  BY <1>1, InvariantHolds, PTL

\* Only users with a session are shown as stationary or moving.
THEOREM NoGhostsShown == Spec => []NoGhostStatus
<1>1. SessionInv => NoGhostStatus
  BY DEF SessionInv, StatusInv
<1>2. QED
  BY <1>1, InvariantHolds, PTL

-----------------------------------------------------------------------------
(***************************************************************************)
(* What no step does.                                                      *)
(***************************************************************************)

\* A session ends by a step of the connection that holds it.
THEOREM HolderEndsSession == Spec => NeverEvicted
<1> DEFINE Kept == \A t \in Tokens : sessions[t] # None /\ sessions'[t] # sessions[t]
                     => pc'[issuedTo[t]] # pc[issuedTo[t]]
<1>1. SessionInv /\ [Next]_vars => [Kept]_vars
  <2> SUFFICES ASSUME SessionInv, Next, NEW t \in Tokens,
                      sessions[t] # None, sessions'[t] # sessions[t]
               PROVE  pc'[issuedTo[t]] # pc[issuedTo[t]]
    OBVIOUS
  <2> USE NoneIsNobody DEF SessionInv, TypeInv, TypeOK, HoldInv, StoreInv
  <2> DEFINE u == sessions[t]
  <2>1. u \in Users /\ issuedTo[t] \in Conns /\ Holds(issuedTo[t], u)
    BY DEF Holds
  <2>2. ASSUME NEW c \in Conns, DropSession(c) \/ LeaveSession(c)
        PROVE  pc'[issuedTo[t]] # pc[issuedTo[t]]
    <3>1. userState[c] \in Users /\ Holds(c, userState[c])
      BY <2>2 DEF LocalInv, Leaving, SessionOwned, DropSession, LeaveSession
    <3>2. u = userState[c]
      BY <2>2, <3>1 DEF DropSession, LeaveSession, Expire, Invalidate, OfferedInv
    <3>3. issuedTo[t] = c
      BY <2>1, <3>1, <3>2, OneHolder
    <3>4. QED
      BY <2>2, <3>3 DEF DropSession, LeaveSession, Goto
  <2>3. ASSUME NEW c \in Conns, Handler(c)
        PROVE  pc'[issuedTo[t]] # pc[issuedTo[t]]
    <3>1. CASE TryInsertToken(c) /\ SessionFree(target[c])
      BY <3>1 DEF TryInsertToken
    <3>2. QED
      BY <2>2, <2>3, <3>1, SessionChange
  <2>4. CASE Crash
    <3>1. pc[issuedTo[t]] # "closed"
      BY <2>1 DEF HoldsOwn, LocalInv, Changing
    <3>2. QED
      BY <2>4, <3>1 DEF Crash, AllClosed
  <2>5. QED
    BY <2>3, <2>4 DEF Next
<1>2. QED
  BY <1>1, InvariantHolds, PTL DEF Spec, NeverEvicted

\* A connection that stops being u has nothing of u left.
THEOREM NothingLeftBehind == Spec => CleanBreak
<1> DEFINE Clean == \A c \in Conns, u \in Users :
             userState[c] = u /\ userState'[c] # u => ~Holds(c, u)' /\ sinks'[u] # c
<1>1. SessionInv /\ [Next]_vars => [Clean]_vars
  <2> SUFFICES ASSUME SessionInv, Next, NEW c \in Conns, NEW u \in Users,
                      userState[c] = u, userState'[c] # u
               PROVE  ~Holds(c, u)' /\ sinks'[u] # c
    OBVIOUS
  <2> USE NoneIsNobody DEF SessionInv, TypeInv, TypeOK, HoldInv, SinkInv
  <2>1. CASE SetStatus(c)
    <3>1. ~Holds(c, u) /\ sinks[u] # c
      BY <2>1 DEF LetGo, NoSink, SetStatus
    <3>2. QED
      BY <2>1, <3>1, HoldQuiet DEF SetStatus, accounts
  <2>2. CASE LeaveSession(c)
    <3>1. ~Holds(c, u)'
      BY <2>2, HoldExpire, HoldInvalidate DEF LeaveSession, OfferedInv
    <3>2. QED
      BY <2>2, <3>1 DEF NoSink, LeaveSession
  <2>3. CASE Crash
    BY <2>3 DEF Crash, Nobody, Holds
  <2>4. ASSUME NEW d \in Conns, Handler(d)
        PROVE  SetStatus(c) \/ LeaveSession(c)
    <3> USE DEF shared, accounts, locals
    <3>1. ~Enter(d)
      BY DEF Enter, Connect, Refuse, Login, Register, SaveUser, TryInsertToken
    <3>2. ~Switch(d) /\ ~SetSink(d)
      BY DEF Switch, DropSession, DropStatus, DropSink, SetSink
    <3>3. ~Request(d) /\ ~Quit(d)
      BY DEF Request, Serve, Track, Served, Quit, Hangup, Disconnect, DisconnectOther
    <3>4. ~(TripsClosed(d) \/ LeaveStatus(d) \/ LeaveSink(d))
      BY DEF TripsClosed, LeaveStatus, LeaveSink
    <3>5. SetStatus(d) \/ LeaveSession(d)
      BY <2>4, <3>1, <3>2, <3>3, <3>4 DEF Handler, Install, Leave
    <3>6. d = c
      BY <3>5 DEF SetStatus, LeaveSession
    <3>7. QED
      BY <3>5, <3>6
  <2>5. QED
    BY <2>1, <2>2, <2>3, <2>4 DEF Next
<1>2. QED
  BY <1>1, InvariantHolds, PTL DEF Spec, CleanBreak

\* As long as replies can be sent, every live token has a handler that will
\* end it: the only way to leak a session is the `?` of a failed send.
THEOREM OnlySendLeaks == Spec => [](("send" \notin Faults) => SessionsHandled)
<1>1. SessionInv => (("send" \notin Faults) => SessionsHandled)
  <2> SUFFICES ASSUME SessionInv, "send" \notin Faults, NEW t \in Tokens, sessions[t] # None
               PROVE  issuedTo[t] # None /\ pc[issuedTo[t]] \notin {"closed", "gone"}
    BY DEF SessionsHandled
  <2> USE NoneIsNobody DEF SessionInv, TypeInv, TypeOK, HoldInv, StoreInv
  <2>1. issuedTo[t] \in Conns /\ Holds(issuedTo[t], sessions[t])
    BY DEF Holds
  <2>2. QED
    BY <2>1 DEF HoldsOwn, LocalInv, Changing
<1>2. QED
  BY <1>1, InvariantHolds, PTL

-----------------------------------------------------------------------------
(***************************************************************************)
(* The sessions implement exclusive accounts.                              *)
(***************************************************************************)

\* The holder of the abstract module is the holder of the session.
HolderInv == /\ Holder \in [Users -> Conns \cup {None}]
             /\ \A u \in Users, c \in Conns : Holder[u] = c <=> Holds(c, u)

LEMMA HolderIs == SessionInv => HolderInv
<1> SUFFICES ASSUME SessionInv
             PROVE  HolderInv
  OBVIOUS
<1> USE NoneIsNobody DEF SessionInv, TypeInv, TypeOK, HoldInv, StoreInv
<1>1. ASSUME NEW u \in Users
      PROVE  /\ Holder[u] \in Conns \cup {None}
             /\ \A c \in Conns : Holder[u] = c <=> Holds(c, u)
  <2>1. CASE SessionFree(u)
    BY <2>1, FreeMeansUnheld DEF Holder
  <2>2. CASE ~SessionFree(u)
    <3> DEFINE t == CHOOSE t \in Tokens : sessions[t] = u
    <3>1. t \in Tokens /\ sessions[t] = u
      BY <2>2 DEF SessionFree
    <3>2. Holder[u] = issuedTo[t]
      BY <2>2 DEF Holder
    <3>3. \A s \in Tokens : sessions[s] = u => s = t
      BY <3>1 DEF SingleSession
    <3> HIDE DEF t
    <3>4. QED
      BY <3>1, <3>2, <3>3 DEF Holds
  <2>3. QED
    BY <2>1, <2>2
<1>2. QED
  BY <1>1 DEF HolderInv, Holder

\* The account layer is what Accounts.tla promises.
THEOREM ImplementsAccounts == Spec => ExclusiveAccounts
<1> USE NoneIsNobody
<1>1. Init => Promise!Init
  BY DEF Init, Promise!Init, Nobody, AllClosed, Holder, Acting, SessionFree
<1>2. SessionInv /\ HolderInv /\ HolderInv' /\ [Next]_vars
        => [Promise!Next]_(Promise!vars)
  <2> SUFFICES ASSUME SessionInv, HolderInv, HolderInv', [Next]_vars
               PROVE  Promise!Next \/ UNCHANGED <<Holder, Acting>>
    BY DEF Promise!vars
  <2> USE DEF SessionInv, TypeInv, TypeOK
  <2>1. UNCHANGED <<sessions, issuedTo>> => UNCHANGED Holder
    BY DEF Holder, SessionFree
  <2>2. UNCHANGED vars => UNCHANGED <<Holder, Acting>>
    BY <2>1 DEF vars, shared, accounts, locals, Acting
  <2>3. CASE Crash
    <3>1. Promise!Restart
      BY <2>3 DEF Crash, Promise!Restart, Nobody, AllClosed, Holder, Acting, SessionFree
    <3>2. QED
      BY <3>1 DEF Promise!Next
  <2>4. ASSUME NEW c \in Conns, TryInsertToken(c), SessionFree(target[c])
        PROVE  Promise!Next
    <3> DEFINE u == target[c]
    <3>1. u \in Users
      BY <2>4 DEF TryInsertToken, LocalInv, Entering
    <3>2. Acting[c] = None /\ UNCHANGED Acting
      BY <2>4 DEF TryInsertToken, Goto, Acting
    <3>3. Holder[u] = None
      BY <2>4, <3>1 DEF Holder, SessionFree
    <3>4. Holder' = [Holder EXCEPT ![u] = c]
      <4>1. PICK t \in Tokens : /\ sessions[t] = None
                                /\ sessions' = [sessions EXCEPT ![t] = u]
                                /\ issuedTo' = [issuedTo EXCEPT ![t] = c]
        BY <2>4 DEF TryInsertToken
      <4>2. \A d \in Conns, v \in Users : Holds(d, v)' <=> Holds(d, v) \/ (d = c /\ v = u)
        <5>1. TypeOK
          OBVIOUS
        <5>2. QED
          BY ONLY NoneIsNobody, <5>1, <3>1, <4>1, HoldIssue
      <4>3. Holder'[u] = c
        BY <3>1, <4>2 DEF HolderInv
      <4>4. \A v \in Users : v # u => Holder'[v] = Holder[v]
        BY <4>2 DEF HolderInv
      <4>5. QED
        BY <3>1, <4>3, <4>4 DEF HolderInv
    <3>5. Promise!Admit(c, u)
      BY <3>2, <3>3, <3>4 DEF Promise!Admit
    <3>6. QED
      BY <3>1, <3>5 DEF Promise!Next
  <2>5. ASSUME NEW c \in Conns, DropSession(c) \/ LeaveSession(c)
        PROVE  Promise!Next
    <3> DEFINE u == userState[c]
    <3>1. u \in Users /\ Holds(c, u) /\ pc[c] # "serving"
      BY <2>5 DEF DropSession, LeaveSession, LocalInv, Leaving, HoldInv, SessionOwned
    <3>2. Holder[u] = c /\ Acting[c] = None
      BY <3>1 DEF HolderInv, Acting
    <3>3. UNCHANGED Acting
      BY <2>5 DEF DropSession, LeaveSession, Goto, locals, Acting
    <3>4. \A d \in Conns, v \in Users : Holds(d, v)' <=> v # u /\ Holds(d, v)
      BY <2>5, <3>1, HoldExpire, HoldInvalidate
         DEF DropSession, LeaveSession, HoldInv, OfferedInv
    <3>5. Holder' = [Holder EXCEPT ![u] = None]
      BY <3>4 DEF HolderInv
    <3>6. Promise!Release(u)
      BY <3>1, <3>2, <3>3, <3>5 DEF Promise!Release
    <3>7. QED
      BY <3>1, <3>6 DEF Promise!Next
  <2>6. ASSUME NEW c \in Conns, NEW t \in Tokens, Serve(c, t)
        PROVE  Promise!Next
    <3>1. userState[c] \in Users /\ Holds(c, userState[c]) /\ pc[c] = "idle"
      BY <2>6 DEF Serve, Accepts, HoldInv, SessionOwned
    <3>2. Acting[c] = None /\ Acting' = [Acting EXCEPT ![c] = userState[c]]
      BY <2>6, <3>1 DEF Serve, Goto, locals, Acting
    <3>3. Promise!Act(c, userState[c])
      BY <2>1, <2>6, <3>1, <3>2 DEF Serve, shared, accounts, Promise!Act, HolderInv
    <3>4. QED
      BY <3>1, <3>3 DEF Promise!Next
  <2>7. ASSUME NEW c \in Conns, Served(c)
        PROVE  Promise!Next
    <3>1. Acting[c] # None
      BY <2>7 DEF Served, Acting, LocalInv
    <3>2. Acting' = [Acting EXCEPT ![c] = None]
      BY <2>7 DEF Served, Reply, Goto, locals, Acting
    <3>3. Promise!Complete(c)
      BY <2>1, <2>7, <3>1, <3>2 DEF Served, shared, accounts, Promise!Complete
    <3>4. QED
      BY <3>3 DEF Promise!Next
  <2>8. ASSUME NEW c \in Conns, Handler(c), UNCHANGED <<sessions, issuedTo>>,
               ~Served(c), \A t \in Tokens : ~Serve(c, t)
        PROVE  UNCHANGED Acting
    <3> USE <2>8 DEF Goto, Reply, shared, accounts, locals, Acting
    <3>1. CASE Enter(c)
      BY <3>1 DEF Enter, Connect, Refuse, Login, Register, SaveUser, TryInsertToken
    <3>2. CASE Switch(c)
      BY <3>2 DEF Switch, DropSession, DropStatus, DropSink
    <3>3. CASE Install(c)
      BY <3>3 DEF Install, SetStatus, SetSink
    <3>4. CASE Request(c)
      BY <3>4 DEF Request, Track
    <3>5. CASE Quit(c)
      BY <3>5 DEF Quit, Hangup, Disconnect, DisconnectOther, Cleanup
    <3>6. CASE Leave(c)
      BY <3>6 DEF Leave, TripsClosed, LeaveStatus, LeaveSink, LeaveSession
    <3>7. QED
      BY <3>1, <3>2, <3>3, <3>4, <3>5, <3>6 DEF Handler
  <2>9. QED
    BY <2>1, <2>2, <2>3, <2>4, <2>5, <2>6, <2>7, <2>8, SessionChange DEF Next
<1>3. QED
  BY <1>1, <1>2, HolderIs, InvariantHolds, PTL DEF Spec, ExclusiveAccounts, Promise!Spec
=============================================================================
