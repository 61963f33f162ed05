------------------------------ MODULE Sessions ------------------------------
(***************************************************************************)
(* Login, registration, logout and loss of a connection: one handle_client *)
(* task per WebSocket (server/src/main.rs), and the four shared stores the *)
(* tasks meet in.                                                          *)
(*                                                                         *)
(* Every store is behind a mutex of its own that is released at once, so a *)
(* handler is a sequence of atomic steps, one per lock taken or query      *)
(* made, and the steps of two handlers interleave in every order.  pc[c]   *)
(* is the step connection c's handler takes next.                          *)
(*                                                                         *)
(* A request that needs a token is here only its token check (Serve), any  *)
(* number of changes to the user's status (Track) and its reply (Served);  *)
(* Server.tla replaces that by what each request does.                     *)
(***************************************************************************)
CONSTANTS Users,   \* user names
          Conns,   \* connection slots: a slot is used again after a close
          Tokens,  \* session tokens, a fresh one drawn for every login
          None,    \* absence of any of them (Rust's Option::None)
          Faults   \* what can go wrong: "send", "db", "crash"

ASSUME NoneIsNobody == None \notin Users \cup Conns \cup Tokens
ASSUME FaultKinds == Faults \subseteq {"send", "db", "crash"}

VARIABLES users,      \* rows of the users table
          sessions,   \* AuthStore: the user each live token names
          issuedTo,   \* the connection each live token was sent to (history)
          status,     \* status map, "disconnected" for an absent entry
          sinks,      \* registry of write halves: the connection of each user
          pc,         \* next step of each connection's handler
          userState,  \* user_state of each connection
          target,     \* user a login or register in progress is for
          offered     \* token an accepted DISCONNECT carried

accounts == <<users, sessions, issuedTo>>
shared == <<accounts, status, sinks>>
locals == <<userState, target, offered>>
vars == <<shared, pc, locals>>

Steps == {"closed", "idle", "gone", "serving",
          "saveUser", "insertToken",
          "dropSession", "dropStatus", "dropSink", "setStatus", "setSink",
          "closing", "leaveStatus", "leaveSink", "leaveSession"}

Statuses == {"disconnected", "stationary", "moving"}

TypeOK == /\ users \subseteq Users
          /\ sessions \in [Tokens -> Users \cup {None}]
          /\ issuedTo \in [Tokens -> Conns \cup {None}]
          /\ status \in [Users -> Statuses]
          /\ sinks \in [Users -> Conns \cup {None}]
          /\ pc \in [Conns -> Steps]
          /\ userState \in [Conns -> Users \cup {None}]
          /\ target \in [Conns -> Users \cup {None}]
          /\ offered \in [Conns -> Tokens \cup {None}]

\* An empty store, and memory in which nothing runs yet.
Nobody(S) == [x \in S |-> None]
AllDisconnected == [u \in Users |-> "disconnected"]
AllClosed == [c \in Conns |-> "closed"]

\* What a started server finds: the users of the database, empty memory.
Init == /\ users \in SUBSET Users
        /\ sessions = Nobody(Tokens)
        /\ issuedTo = Nobody(Tokens)
        /\ status = AllDisconnected
        /\ sinks = Nobody(Users)
        /\ pc = AllClosed
        /\ userState = Nobody(Conns)
        /\ target = Nobody(Conns)
        /\ offered = Nobody(Conns)

-----------------------------------------------------------------------------
(***************************************************************************)
(* The session store.                                                      *)
(***************************************************************************)

\* Mutant: the check of try_insert_token is dropped.
NoCheck(u) == TRUE

\* try_insert_token: no live token names the user.
SessionFree(u) == \A t \in Tokens : sessions[t] # u

\* validate_token: the token is live and names this connection's own user.
Accepts(c, t) == userState[c] # None /\ sessions[t] = userState[c]

\* Mutant: the sessions of everybody are invalidated.
ExpireEverybody(u) == /\ sessions' = [t \in Tokens |-> None]
                      /\ issuedTo' = [t \in Tokens |-> None]

\* invalidate_user_sessions.
Expire(u) ==
  /\ sessions' = [t \in Tokens |-> IF sessions[t] = u THEN None ELSE sessions[t]]
  /\ issuedTo' = [t \in Tokens |-> IF sessions[t] = u THEN None ELSE issuedTo[t]]

\* invalidate_token.
Invalidate(t) == /\ sessions' = [sessions EXCEPT ![t] = None]
                 /\ issuedTo' = [issuedTo EXCEPT ![t] = None]

-----------------------------------------------------------------------------
(***************************************************************************)
(* Control flow of one handler.                                            *)
(***************************************************************************)

Goto(c, step) == pc' = [pc EXCEPT ![c] = step]

\* A reply is `send(..).await?`: it succeeds and the loop reads on, or the
\* `?` leaves handle_client at once, past the cleanup after the loop.
Reply(c) == \/ Goto(c, "idle")
            \/ "send" \in Faults /\ Goto(c, "gone")

Connect(c) == /\ pc[c] = "closed"
              /\ Goto(c, "idle")
              /\ UNCHANGED <<shared, locals>>

\* Every request that is answered with an error before it changes anything:
\* unreadable text, a server's own message type, an unknown name, a wrong
\* password, a name already taken, a bad token, values out of range.
Refuse(c) == /\ pc[c] = "idle"
             /\ Reply(c)
             /\ UNCHANGED <<shared, locals>>

\* LOGIN with good credentials, by a connection that is not already u.
Login(c, u) == /\ pc[c] = "idle"
               /\ u \in users
               /\ userState[c] # u
               /\ Goto(c, "insertToken")
               /\ target' = [target EXCEPT ![c] = u]
               /\ UNCHANGED <<shared, userState, offered>>

\* Mutant: the name to register is not kept.
RegisterNobody(c, u) == /\ pc[c] = "idle"
                        /\ u \notin users
                        /\ Goto(c, "saveUser")
                        /\ UNCHANGED <<shared, locals>>

\* REGISTER of a name that key_exists does not find.
Register(c, u) == /\ pc[c] = "idle"
                  /\ u \notin users
                  /\ Goto(c, "saveUser")
                  /\ target' = [target EXCEPT ![c] = u]
                  /\ UNCHANGED <<shared, userState, offered>>

\* save_register inserts the row; its unique key settles a race of two.
SaveUser(c) ==
  /\ pc[c] = "saveUser"
  /\ \/ /\ target[c] \notin users
        /\ users' = users \cup {target[c]}
        /\ Goto(c, "insertToken")
        /\ UNCHANGED target
     \/ /\ target[c] \in users
        /\ Reply(c)
        /\ target' = [target EXCEPT ![c] = None]
        /\ UNCHANGED users
  /\ UNCHANGED <<sessions, issuedTo, status, sinks, userState, offered>>

\* create_token and try_insert_token: refused while the user has a session,
\* whoever holds it.  A connection that was someone else first lets go of
\* that account.
TryInsertToken(c) ==
  /\ pc[c] = "insertToken"
  /\ \/ /\ SessionFree(target[c])
        /\ \E t \in Tokens :
             /\ sessions[t] = None
             /\ sessions' = [sessions EXCEPT ![t] = target[c]]
             /\ issuedTo' = [issuedTo EXCEPT ![t] = c]
        /\ Goto(c, IF userState[c] = None THEN "setStatus" ELSE "dropSession")
        /\ UNCHANGED target
     \/ /\ ~SessionFree(target[c])
        /\ Reply(c)
        /\ target' = [target EXCEPT ![c] = None]
        /\ UNCHANGED <<sessions, issuedTo>>
  /\ UNCHANGED <<users, status, sinks, userState, offered>>

(***************************************************************************)
(* Account switch: the three removals for the old user, in the code's      *)
(* order, the session first.                                               *)
(***************************************************************************)
DropSession(c) == /\ pc[c] = "dropSession"
                  /\ Expire(userState[c])
                  /\ Goto(c, "dropStatus")
                  /\ UNCHANGED <<users, status, sinks, locals>>

DropStatus(c) == /\ pc[c] = "dropStatus"
                 /\ status' = [status EXCEPT ![userState[c]] = "disconnected"]
                 /\ Goto(c, "dropSink")
                 /\ UNCHANGED <<accounts, sinks, locals>>

\* Mutant: the old user's registry entry stays behind.
KeepSink(c) == /\ pc[c] = "dropSink"
               /\ Goto(c, "setStatus")
               /\ UNCHANGED <<shared, locals>>

DropSink(c) == /\ pc[c] = "dropSink"
               /\ sinks' = [sinks EXCEPT ![userState[c]] = None]
               /\ Goto(c, "setStatus")
               /\ UNCHANGED <<accounts, status, locals>>

\* user_state becomes the new user, who is shown as stationary.
SetStatus(c) == /\ pc[c] = "setStatus"
                /\ userState' = [userState EXCEPT ![c] = target[c]]
                /\ status' = [status EXCEPT ![target[c]] = "stationary"]
                /\ Goto(c, "setSink")
                /\ UNCHANGED <<accounts, sinks, target, offered>>

\* The registry learns the write half, and AUTH_OK goes out.
SetSink(c) == /\ pc[c] = "setSink"
              /\ sinks' = [sinks EXCEPT ![target[c]] = c]
              /\ target' = [target EXCEPT ![c] = None]
              /\ Reply(c)
              /\ UNCHANGED <<accounts, status, userState, offered>>

(***************************************************************************)
(* A request under a token.                                                *)
(***************************************************************************)
Serve(c, t) == /\ pc[c] = "idle"
               /\ Accepts(c, t)
               /\ Goto(c, "serving")
               /\ UNCHANGED <<shared, locals>>

\* status::set of initialize_trips and update_trip.
Track(c, s) == /\ pc[c] = "serving"
               /\ status' = [status EXCEPT ![userState[c]] = s]
               /\ UNCHANGED <<accounts, sinks, pc, locals>>

Served(c) == /\ pc[c] = "serving"
             /\ Reply(c)
             /\ UNCHANGED <<shared, locals>>

-----------------------------------------------------------------------------
(***************************************************************************)
(* The end of a connection.                                                *)
(***************************************************************************)

\* What follows the loop: nothing for an anonymous connection.
Cleanup(c) == Goto(c, IF userState[c] = None THEN "closed" ELSE "closing")

\* The socket closes, fails or sends a Close frame while the handler reads.
Hangup(c) == /\ pc[c] = "idle"
             /\ Cleanup(c)
             /\ UNCHANGED <<shared, locals>>

\* DISCONNECT with the connection's own token.
Disconnect(c, t) == /\ pc[c] = "idle"
                    /\ Accepts(c, t)
                    /\ offered' = [offered EXCEPT ![c] = t]
                    /\ Goto(c, "closing")
                    /\ UNCHANGED <<shared, userState, target>>

\* DISCONNECT with any other token: acknowledged, then the cleanup, unless
\* the Ack cannot be sent.
DisconnectOther(c, t) == /\ pc[c] = "idle"
                         /\ ~Accepts(c, t)
                         /\ \/ Cleanup(c)
                            \/ "send" \in Faults /\ Goto(c, "gone")
                         /\ UNCHANGED <<shared, locals>>

\* close_open_trips returns.
TripsClosed(c) == /\ pc[c] = "closing"
                  /\ Goto(c, "leaveStatus")
                  /\ UNCHANGED <<shared, locals>>

\* Mutant: status::remove is forgotten on the way out.
LeaveStatusShown(c) == /\ pc[c] = "leaveStatus"
                       /\ Goto(c, "leaveSink")
                       /\ UNCHANGED <<shared, locals>>

LeaveStatus(c) == /\ pc[c] = "leaveStatus"
                  /\ status' = [status EXCEPT ![userState[c]] = "disconnected"]
                  /\ Goto(c, "leaveSink")
                  /\ UNCHANGED <<accounts, sinks, locals>>

LeaveSink(c) == /\ pc[c] = "leaveSink"
                /\ sinks' = [sinks EXCEPT ![userState[c]] = None]
                /\ Goto(c, "leaveSession")
                /\ UNCHANGED <<accounts, status, locals>>

\* Mutant: the token of a hung-up connection is never invalidated.
KeepSession(c) == /\ pc[c] = "leaveSession"
                  /\ UNCHANGED <<sessions, issuedTo>>
                  /\ userState' = [userState EXCEPT ![c] = None]
                  /\ offered' = [offered EXCEPT ![c] = None]
                  /\ Goto(c, "closed")
                  /\ UNCHANGED <<users, status, sinks, target>>

\* DISCONNECT invalidates the one token, the cleanup all of the user's.  What
\* is left of either path (an Ack, a Close frame, chat_task.abort) changes no
\* state of this module, whether or not it succeeds.
LeaveSession(c) ==
  /\ pc[c] = "leaveSession"
  /\ \/ offered[c] # None /\ Invalidate(offered[c])
     \/ offered[c] = None /\ Expire(userState[c])
  /\ userState' = [userState EXCEPT ![c] = None]
  /\ offered' = [offered EXCEPT ![c] = None]
  /\ Goto(c, "closed")
  /\ UNCHANGED <<users, status, sinks, target>>

\* The server dies and is started again: the database is what remains.
Crash == /\ "crash" \in Faults
         /\ sessions' = Nobody(Tokens)
         /\ issuedTo' = Nobody(Tokens)
         /\ status' = AllDisconnected
         /\ sinks' = Nobody(Users)
         /\ pc' = AllClosed
         /\ userState' = Nobody(Conns)
         /\ target' = Nobody(Conns)
         /\ offered' = Nobody(Conns)
         /\ UNCHANGED users

-----------------------------------------------------------------------------
Enter(c) == \/ Connect(c) \/ Refuse(c)
            \/ \E u \in Users : Login(c, u) \/ Register(c, u)
            \/ SaveUser(c) \/ TryInsertToken(c)

Switch(c) == DropSession(c) \/ DropStatus(c) \/ DropSink(c)

Install(c) == SetStatus(c) \/ SetSink(c)

Request(c) == \/ \E t \in Tokens : Serve(c, t)
              \/ \E s \in {"stationary", "moving"} : Track(c, s)
              \/ Served(c)

\* The steps of a leaving connection; none of them writes to a socket.
Leave(c) == TripsClosed(c) \/ LeaveStatus(c) \/ LeaveSink(c) \/ LeaveSession(c)

Quit(c) == \/ Hangup(c)
           \/ \E t \in Tokens : Disconnect(c, t) \/ DisconnectOther(c, t)

Handler(c) == Enter(c) \/ Switch(c) \/ Install(c) \/ Request(c) \/ Quit(c) \/ Leave(c)

Next == (\E c \in Conns : Handler(c)) \/ Crash

\* tokio runs a task that is not waiting: a connection on its way out waits
\* for nothing but locks that are held for a moment.
Fairness == \A c \in Conns : WF_vars(Leave(c))

Spec == Init /\ [][Next]_vars /\ Fairness

-----------------------------------------------------------------------------
(***************************************************************************)
(* Properties.                                                             *)
(***************************************************************************)

\* Of the history, for the properties: c was sent a token that is live for u.
Holds(c, u) == \E t \in Tokens : sessions[t] = u /\ issuedTo[t] = c

\* Single-session policy (docs/designer-manual.md, try_insert_token): however
\* logins, registrations, switches and logouts interleave, no user ever has
\* two live tokens.
SingleSession == \A t1, t2 \in Tokens :
  sessions[t1] # None /\ sessions[t1] = sessions[t2] => t1 = t2

\* The handler is between letting go of its old user and taking the new one.
Switching(c) == pc[c] \in {"dropStatus", "dropSink", "setStatus"}

\* A connection that counts as u, from AUTH_OK until its cleanup is over, or
\* for ever if it left by `?`, is the one that holds u's session: no login of
\* another connection and no cleanup of one has taken it meanwhile.
SessionOwned == \A c \in Conns :
  userState[c] # None /\ ~Switching(c) => Holds(c, userState[c])

\* A token works on the connection it was issued to and on no other: what
\* validate_token compares (two names) is enough for that.
TokenBound == \A c \in Conns, t \in Tokens :
  pc[c] \in {"idle", "serving"} /\ Accepts(c, t) => issuedTo[t] = c

\* An entry of the registry never outlives the identity of the connection it
\* leads to.  (Chat.tla has what becomes of a write half once the operator has
\* it; and a user may be logged in without an entry, when a switch away from
\* the account deletes that of a login in between.)
SinkRoute == \A u \in Users, c \in Conns : sinks[u] = c => userState[c] = u

\* Nobody is shown as stationary or moving without a session, but for the one
\* step in which an account switch has dropped the session and not the status.
NoGhostStatus == \A u \in Users : status[u] # "disconnected" =>
  \/ ~SessionFree(u)
  \/ \E c \in Conns : pc[c] = "dropStatus" /\ userState[c] = u

\* Every live token belongs to a handler that is still there to end it
\* (comment above the cleanup, server/src/main.rs:705-708).
SessionsHandled == \A t \in Tokens : sessions[t] # None =>
  issuedTo[t] # None /\ pc[issuedTo[t]] \notin {"closed", "gone"}

\* A session ends by a step of the connection that holds it, or with the
\* server: neither a second login nor the cleanup of a connection that used to
\* be the same user revokes its token.  So "a second login by the same user"
\* is refused (docs/designer-manual.md:30, try_insert_token) and evicts nobody,
\* which is what the comment of invalidate_user_sessions says it does: "Used
\* when a new LOGIN overwrites a previous session" (db/src/lib.rs:166-167).
NeverEvicted == [][\A t \in Tokens :
  sessions[t] # None /\ sessions'[t] # sessions[t]
    => pc'[issuedTo[t]] # pc[issuedTo[t]]]_vars

\* A connection stops being u, by logout or by a switch to another account,
\* only when it has no session and no registry entry as u left.
CleanBreak == [][\A c \in Conns, u \in Users :
  userState[c] = u /\ userState'[c] # u => ~Holds(c, u)' /\ sinks'[u] # c]_vars

\* A user who leaves can log in again: once the connection is on its way out
\* the session is freed, whatever the other connections do.
AccountFreed == \A c \in Conns, u \in Users :
  pc[c] = "closing" /\ userState[c] = u ~> SessionFree(u)

\* The connection that holds each account, and whom each request is made as.
Holder == [u \in Users |-> IF SessionFree(u) THEN None
                          ELSE issuedTo[CHOOSE t \in Tokens : sessions[t] = u]]
Acting == [c \in Conns |-> IF pc[c] = "serving" THEN userState[c] ELSE None]

Promise == INSTANCE Accounts WITH holder <- Holder, acting <- Acting

\* The promise the stores and handlers keep together: an account is held by
\* one connection at a time and never lost in the middle of a request.
ExclusiveAccounts == Promise!Spec
=============================================================================
