------------------------------ MODULE Browser -------------------------------
(***************************************************************************)
(* The session of the map page (web/index.html): how it connects, logs in  *)
(* and out, reconnects, and tries to resume a session after a reload.      *)
(*                                                                         *)
(* The scripts of a page run one event at a time: a click, a timer, a      *)
(* message or a change of the socket is one step.  What is sent while the  *)
(* socket is not open waits in pending and goes out when it opens.  The    *)
(* server is one handler, one step a request, and may be down; a reload of *)
(* the page loses everything but its sessionStorage.                       *)
(*                                                                         *)
(* CHAT, STATS and the requests of a trip are one REQUEST with the page's  *)
(* token.  An answer carries the type of what it answers, which the page   *)
(* does not see.                                                           *)
(***************************************************************************)
EXTENDS Naturals, Sequences

CONSTANTS Users, Tokens, None,
          MaxQueue   \* bound on the messages waiting and under way

ASSUME NoneIsNothing == None \notin Users \cup Tokens
ASSUME TokensInOrder == Tokens \subseteq Nat
ASSUME RoomInQueue == MaxQueue \in Nat \ {0}

VARIABLES ws,          \* readyState of app.ws
          stale,       \* a replaced socket has its close event still to come
          retry,       \* a timer is going to connect
          token, username, resuming,
          leaving,     \* intentionalQuit
          pending,     \* what waits for the socket to open
          dashboard,   \* the dashboard is shown, not the login screen
          form,        \* the user name typed, None when the field is empty
          stored,      \* sessionStorage: token and user name ("null" is None), or None
          running,     \* the server is up
          up, down,    \* messages under way
          user, live,  \* the handler's user_state and its user's token
          issued       \* tokens drawn so far

socket == <<ws, stale, retry>>
session == <<token, username, resuming, dashboard, stored>>
page == <<session, leaving, pending, form>>
server == <<running, user, live, issued>>
vars == <<socket, page, server, up, down>>

Request == [type : {"LOGIN"}, user : Users]
             \cup [type : {"REQUEST", "DISCONNECT"}, token : Tokens]
             \cup [type : {"RESUME"}, token : Tokens]

Answer == [type : {"AUTH_OK"}, token : Tokens, re : {"LOGIN"}]
            \cup [type : {"ERROR"}, re : {"LOGIN", "REQUEST", "RESUME"}]
            \cup [type : {"CLOSE"}]

TypeOK == /\ ws \in {"connecting", "open", "closing", "closed"}
          /\ stale \in BOOLEAN /\ retry \in BOOLEAN
          /\ token \in Tokens \cup {None} /\ username \in Users \cup {None}
          /\ resuming \in BOOLEAN /\ leaving \in BOOLEAN /\ dashboard \in BOOLEAN
          /\ \A k \in DOMAIN pending : pending[k] \in Request
          /\ form \in Users \cup {None}
          /\ stored = None \/ stored \in [token : Tokens, user : Users \cup {None}]
          /\ running \in BOOLEAN
          /\ \A k \in DOMAIN up : up[k] \in Request
          /\ \A k \in DOMAIN down : down[k] \in Answer
          /\ user \in Users \cup {None} /\ live \in Tokens \cup {None}
          /\ issued \subseteq Tokens
          /\ dashboard => token # None

\* The page has just been loaded for the first time.
Init == /\ ws = "connecting" /\ stale = FALSE /\ retry = FALSE
        /\ token = None /\ username = None /\ resuming = FALSE
        /\ leaving = FALSE /\ pending = <<>> /\ dashboard = FALSE
        /\ form = None /\ stored = None
        /\ running \in BOOLEAN
        /\ up = <<>> /\ down = <<>>
        /\ user = None /\ live = None /\ issued = {}

-----------------------------------------------------------------------------
(***************************************************************************)
(* The socket.                                                             *)
(***************************************************************************)

\* connect(): a socket that is closing is replaced and closes later.  One of
\* these at a time: a bound of the model.
Connect == /\ ws' = IF ws \in {"closed", "closing"} THEN "connecting" ELSE ws
           /\ ~(ws = "closing" /\ stale)
           /\ stale' = (stale \/ ws = "closing")

\* onopen: RESUME first, if there is a session to resume, then what waits.
Open == LET saved == ~dashboard /\ token = None /\ stored # None
            resume == [type |-> "RESUME", token |-> stored.token]
        IN  /\ ws = "connecting"
            /\ running
            /\ ws' = "open"
            /\ up' = (IF saved THEN <<resume>> ELSE <<>>) \o pending
            /\ resuming' = (saved \/ resuming)
            /\ username' = IF saved THEN stored.user ELSE username
            /\ pending' = <<>>
            /\ down' = <<>> /\ user' = None /\ live' = None
            /\ UNCHANGED <<stale, retry, token, dashboard, stored, leaving, form, running, issued>>

\* Mutant: nothing is done for the next login.
OnCloseForGood == /\ leaving' = FALSE
                  /\ UNCHANGED <<retry, session, pending, form, server>>

\* onclose, of this socket or of one that was replaced: after a logout the
\* page connects again.
OnClose == /\ leaving' = FALSE
           /\ retry' = (retry \/ leaving)
           /\ UNCHANGED <<session, pending, form, server>>

\* The server cannot be reached.
Fail == /\ ws = "connecting"
        /\ ~running
        /\ ws' = "closed"
        /\ OnClose
        /\ UNCHANGED <<stale, up, down>>

Closed == /\ ws = "closing"
          /\ ws' = "closed"
          /\ OnClose
          /\ UNCHANGED <<stale, up, down>>

ClosedLate == /\ stale
              /\ stale' = FALSE
              /\ OnClose
              /\ UNCHANGED <<ws, up, down>>

\* The timer of onclose.
Retry == /\ retry
         /\ retry' = FALSE
         /\ Connect
         /\ UNCHANGED <<page, server, up, down>>

\* send(): now, or when the socket is open, which it sees to.
\* MaxQueue bounds the model.
SendNow(msg) ==
  /\ Len(pending) + Len(up) + Len(down) < MaxQueue
  /\ \/ /\ ws = "open"
        /\ up' = Append(up, msg)
        /\ UNCHANGED <<ws, stale, pending>>
     \/ /\ ws # "open"
        /\ pending' = Append(pending, msg)
        /\ Connect
        /\ UNCHANGED up
  /\ UNCHANGED <<retry, down, server>>

-----------------------------------------------------------------------------
(***************************************************************************)
(* The user.                                                               *)
(***************************************************************************)
Type(u) == /\ ~dashboard
           /\ u # form
           /\ form' = u
           /\ UNCHANGED <<socket, session, leaving, pending, server, up, down>>

\* doLogin, doRegister.
Login == /\ ~dashboard
         /\ form # None
         /\ SendNow([type |-> "LOGIN", user |-> form])
         /\ UNCHANGED <<session, leaving, form>>

\* doChat, doStats, doStart, doEnd, and the POSITIONs of the timer.
Ask == /\ dashboard
       /\ SendNow([type |-> "REQUEST", token |-> token])
       /\ UNCHANGED <<session, leaving, form>>

\* Mutant: the login screen does not come back.
QuitStaying == /\ dashboard
               /\ SendNow([type |-> "DISCONNECT", token |-> token])
               /\ leaving' = TRUE
               /\ token' = None /\ username' = None
               /\ stored' = None
               /\ UNCHANGED <<resuming, dashboard, form>>

\* doQuit.
Quit == /\ dashboard
        /\ SendNow([type |-> "DISCONNECT", token |-> token])
        /\ leaving' = TRUE
        /\ token' = None /\ username' = None
        /\ stored' = None
        /\ dashboard' = FALSE
        /\ UNCHANGED <<resuming, form>>

\* F5: a new page with the old storage; the old socket is gone.
Reload == /\ ws' = "connecting" /\ stale' = FALSE /\ retry' = FALSE
          /\ token' = None /\ username' = None /\ resuming' = FALSE
          /\ leaving' = FALSE /\ pending' = <<>> /\ dashboard' = FALSE
          /\ form' = None
          /\ up' = <<>> /\ down' = <<>>
          /\ user' = None /\ live' = None
          /\ UNCHANGED <<stored, running, issued>>

-----------------------------------------------------------------------------
(***************************************************************************)
(* handleMessage.                                                          *)
(***************************************************************************)
Receive(type) == /\ ws = "open"
                 /\ down # <<>>
                 /\ Head(down).type = type
                 /\ down' = Tail(down)

\* A login's user is whatever the form says by now, if anything.
AuthOk == /\ Receive("AUTH_OK")
          /\ token' = Head(down).token
          /\ username' = IF resuming \/ form = None THEN username ELSE form
          /\ resuming' = FALSE
          /\ stored' = [token |-> token', user |-> username']
          /\ dashboard' = TRUE
          /\ UNCHANGED <<socket, leaving, pending, form, server, up>>

\* Mutant: a failed resume is not over.
ErrorKept == /\ Receive("ERROR")
             /\ \/ resuming /\ username' = None /\ stored' = None
                \/ ~resuming /\ UNCHANGED <<username, stored>>
             /\ UNCHANGED <<socket, token, resuming, dashboard, leaving, pending, form, server, up>>

\* An error while resuming is the end of that; any other is shown.
Error == /\ Receive("ERROR")
         /\ \/ resuming /\ username' = None /\ stored' = None
            \/ ~resuming /\ UNCHANGED <<username, stored>>
         /\ resuming' = FALSE
         /\ UNCHANGED <<socket, token, dashboard, leaving, pending, form, server, up>>

\* The close handshake begins.
Close == /\ Receive("CLOSE")
         /\ ws' = "closing"
         /\ up' = <<>>
         /\ UNCHANGED <<stale, retry, page, server>>

-----------------------------------------------------------------------------
(***************************************************************************)
(* The server.                                                             *)
(***************************************************************************)
Read(type) == /\ ws = "open"
              /\ up # <<>>
              /\ Head(up).type = type
              /\ ~\E k \in DOMAIN down : down[k].type = "CLOSE"
              /\ up' = Tail(up)
              /\ UNCHANGED <<socket, page, running>>

Reply(msg) == down' = Append(down, msg)

\* LOGIN or REGISTER of a user the handler is not already; any other is
\* refused, and so is one with a wrong password or a session elsewhere.
Admit == /\ Read("LOGIN")
         /\ \/ /\ Head(up).user # user
               /\ \E t \in Tokens \ issued :
                    /\ \A s \in Tokens : s < t => s \in issued
                    /\ issued' = issued \cup {t}
                    /\ live' = t
                    /\ Reply([type |-> "AUTH_OK", token |-> t, re |-> "LOGIN"])
               /\ user' = Head(up).user
            \/ /\ Reply([type |-> "ERROR", re |-> "LOGIN"])
               /\ UNCHANGED <<user, live, issued>>

\* The server has no message RESUME: BAD_REQUEST.
Resume == /\ Read("RESUME")
          /\ Reply([type |-> "ERROR", re |-> "RESUME"])
          /\ UNCHANGED <<user, live, issued>>

\* A bad token, or a request that fails; what is not an error is not shown.
Serve == /\ Read("REQUEST")
         /\ \/ Reply([type |-> "ERROR", re |-> "REQUEST"])
            \/ Head(up).token = live /\ UNCHANGED down
         /\ UNCHANGED <<user, live, issued>>

\* DISCONNECT, with whichever token: the handler ends, and closes the socket.
Disconnect == /\ Read("DISCONNECT")
              /\ Reply([type |-> "CLOSE"])
              /\ user' = None /\ live' = None
              /\ UNCHANGED issued

\* The server goes down, or the connection breaks.
Break == /\ ws = "open"
         /\ ws' = "closing"
         /\ up' = <<>> /\ down' = <<>>
         /\ user' = None /\ live' = None
         /\ running' \in BOOLEAN
         /\ UNCHANGED <<stale, retry, page, issued>>

\* It comes back, or goes down while nobody is connected.
Switch == /\ ws # "open"
          /\ running' = ~running
          /\ UNCHANGED <<socket, page, user, live, issued, up, down>>

Events == Open \/ Fail \/ Closed \/ ClosedLate \/ Retry
Messages == AuthOk \/ Error \/ Close
Handler == Admit \/ Resume \/ Serve \/ Disconnect

Next == \/ Events \/ Messages \/ Handler
        \/ \E u \in Users \cup {None} : Type(u)
        \/ Login \/ Ask \/ Quit \/ Reload
        \/ Break \/ Switch

\* The browser runs the events there are, and the server reads what it gets.
Fairness == WF_vars(Open \/ Fail) /\ WF_vars(Closed) /\ WF_vars(ClosedLate) /\ WF_vars(Retry)
              /\ WF_vars(Messages) /\ WF_vars(Handler)

Spec == Init /\ [][Next]_vars /\ Fairness

-----------------------------------------------------------------------------
(***************************************************************************)
(* Properties.                                                             *)
(***************************************************************************)

\* "needed to tell AUTH_OK / ERROR caused by the automatic resume apart from
\* those caused by a manual LOGIN / REGISTER" (web/index.html:683-685): while
\* the page is resuming, the next answer is that to its RESUME, so that no
\* error of a login or a request is swallowed.
ResumeAnswersFirst == resuming /\ ws = "open" =>
  \A k \in DOMAIN down :
    /\ down[k].type \in {"AUTH_OK", "ERROR"}
    /\ \A j \in 1..k - 1 : down[j].type \notin {"AUTH_OK", "ERROR"}
    => down[k].re = "RESUME"

\* "Reopens the WS for the next login" (web/index.html:845): after a logout
\* the page is connected again, unless the server is down.
LogoutReturns == leaving ~> (~leaving /\ ws = "open") \/ ~running
=============================================================================
