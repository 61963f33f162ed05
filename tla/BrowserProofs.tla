--------------------------- MODULE BrowserProofs ----------------------------
(***************************************************************************)
(* Theorems about Browser.tla, for any users, tokens and queues.           *)
(*                                                                         *)
(* resuming is a flag of the page, and what makes it good or bad is what   *)
(* is under way on the socket.  The invariant relates the two              *)
(* (ResumeUnderWay): a resume is either still the first message the        *)
(* server has to read, with nothing yet answered, or its error is the      *)
(* first message the page has to read.  That a second resume never starts  *)
(* with an answer of the first one under way is in it too: a page that is  *)
(* resuming has no token and still has what it resumes from.               *)
(***************************************************************************)
EXTENDS Browser, SequenceTheorems, TLAPS

-----------------------------------------------------------------------------
(***************************************************************************)
(* Queues and messages.                                                    *)
(***************************************************************************)
LEMMA Taken ==
  ASSUME NEW S, NEW s \in Seq(S), s # <<>>
  PROVE  Head(s) \in S /\ Tail(s) \in Seq(S)
BY HeadTailProperties

LEMMA Added ==
  ASSUME NEW S, NEW s \in Seq(S), NEW m \in S
  PROVE  /\ Append(s, m) \in Seq(S)
         /\ Append(s, m) # <<>>
         /\ Head(Append(s, m)) = IF s = <<>> THEN m ELSE Head(s)
<1>1. /\ Append(s, m) \in Seq(S) /\ Len(Append(s, m)) = Len(s) + 1
      /\ Append(s, m)[Len(s) + 1] = m
      /\ \A i \in 1..Len(s) : Append(s, m)[i] = s[i]
  BY AppendProperties
<1>2. Len(s) \in Nat /\ (s = <<>> <=> Len(s) = 0)
  BY EmptySeq, LenProperties
<1>3. Append(s, m) # <<>> /\ Head(Append(s, m)) = Append(s, m)[1]
  <2>1. Len(Append(s, m)) # 0
    BY <1>1, <1>2
  <2>2. Append(s, m) # <<>>
    BY <1>1, <2>1, EmptySeq
  <2>3. QED
    BY <1>1, <2>2, HeadTailProperties
<1>4. s # <<>> => Head(s) = s[1] /\ 1 \in 1..Len(s)
  BY <1>2, HeadTailProperties
<1>5. QED
  BY <1>1, <1>2, <1>3, <1>4

\* What a message says of its fields, and what the messages made here are.
LEMMA Fields ==
  /\ \A m \in Request : /\ m.type = "LOGIN" => m.user \in Users
                        /\ m.type # "LOGIN" => m.token \in Tokens
  /\ \A m \in Answer : m.type = "AUTH_OK" => m.token \in Tokens
BY DEF Request, Answer

LEMMA Made ==
  /\ \A u \in Users : [type |-> "LOGIN", user |-> u] \in Request
  /\ \A t \in Tokens : \A k \in {"REQUEST", "DISCONNECT", "RESUME"} : [type |-> k, token |-> t] \in Request
  /\ \A t \in Tokens : [type |-> "AUTH_OK", token |-> t, re |-> "LOGIN"] \in Answer
  /\ \A r \in {"LOGIN", "REQUEST", "RESUME"} : [type |-> "ERROR", re |-> r] \in Answer
  /\ [type |-> "CLOSE"] \in Answer
BY DEF Request, Answer

-----------------------------------------------------------------------------
(***************************************************************************)
(* The invariant.                                                          *)
(***************************************************************************)
SocketTypes == /\ ws \in {"connecting", "open", "closing", "closed"}
               /\ stale \in BOOLEAN /\ retry \in BOOLEAN /\ leaving \in BOOLEAN

SessionTypes == /\ token \in Tokens \cup {None} /\ username \in Users \cup {None}
                /\ resuming \in BOOLEAN /\ dashboard \in BOOLEAN
                /\ form \in Users \cup {None}
                /\ stored = None \/ stored \in [token : Tokens, user : Users \cup {None}]

QueueTypes == pending \in Seq(Request) /\ up \in Seq(Request) /\ down \in Seq(Answer)

ServerTypes == /\ running \in BOOLEAN
               /\ user \in Users \cup {None} /\ live \in Tokens \cup {None}
               /\ issued \subseteq Tokens

\* The dashboard is shown as long as there is a token; a page that resumes has
\* none, and has what it resumes from.
SessionInv == /\ dashboard <=> token # None
              /\ resuming => ~dashboard /\ stored # None

ResumeUnderWay == resuming /\ ws = "open" =>
  \/ down = <<>> /\ up # <<>> /\ Head(up).type = "RESUME"
  \/ down # <<>> /\ Head(down).type = "ERROR" /\ Head(down).re = "RESUME"

PageInv == SocketTypes /\ SessionTypes /\ QueueTypes /\ ServerTypes /\ SessionInv /\ ResumeUnderWay

LEMMA InvImpliesTypeOK == PageInv => TypeOK
<1> SUFFICES ASSUME PageInv
             PROVE  TypeOK
  OBVIOUS
<1>1. /\ \A k \in DOMAIN pending : pending[k] \in Request
      /\ \A k \in DOMAIN up : up[k] \in Request
      /\ \A k \in DOMAIN down : down[k] \in Answer
  BY DEF PageInv, QueueTypes
<1>2. QED
  BY <1>1 DEF PageInv, SocketTypes, SessionTypes, ServerTypes, SessionInv, TypeOK

LEMMA PageInit == Init => PageInv
<1> SUFFICES ASSUME Init
             PROVE  PageInv
  OBVIOUS
<1>1. SocketTypes /\ SessionTypes /\ ServerTypes
  BY DEF Init, SocketTypes, SessionTypes, ServerTypes
<1>2. QueueTypes
  BY DEF Init, QueueTypes
<1>3. SessionInv /\ ResumeUnderWay
  BY DEF Init, SessionInv, ResumeUnderWay
<1>4. QED
  BY <1>1, <1>2, <1>3 DEF PageInv

-----------------------------------------------------------------------------
(***************************************************************************)
(* The socket.                                                             *)
(***************************************************************************)
LEMMA OpenKeeps == PageInv /\ Open => PageInv'
<1> SUFFICES ASSUME PageInv, Open
             PROVE  PageInv'
  OBVIOUS
<1> DEFINE saved == ~dashboard /\ token = None /\ stored # None
           resume == [type |-> "RESUME", token |-> stored.token]
<1>1. /\ ws' = "open"
      /\ up' = (IF saved THEN <<resume>> ELSE <<>>) \o pending
      /\ resuming' = (saved \/ resuming)
      /\ username' = IF saved THEN stored.user ELSE username
      /\ pending' = <<>>
      /\ down' = <<>> /\ user' = None /\ live' = None
      /\ UNCHANGED <<stale, retry, token, dashboard, stored, leaving, form, running, issued>>
  BY DEF Open
<1>2. saved => stored \in [token : Tokens, user : Users \cup {None}]
  BY DEF PageInv, SessionTypes
<1>3. resuming => saved
  BY DEF PageInv, SessionInv
<1>4. up' \in Seq(Request) /\ (saved => up' # <<>> /\ Head(up').type = "RESUME")
  <2>1. CASE saved
    <3>1. resume \in Request
      BY <1>2, <2>1, Made
    <3>2. <<resume>> \in Seq(Request) /\ Len(<<resume>>) = 1 /\ <<resume>>[1] = resume
      BY <3>1
    <3>3. up' = <<resume>> \o pending /\ pending \in Seq(Request)
      BY <1>1, <2>1 DEF PageInv, QueueTypes
    <3>4. up' \in Seq(Request) /\ Len(up') = 1 + Len(pending) /\ up'[1] = resume
      BY <3>2, <3>3, ConcatProperties
    <3>5. up' # <<>>
      BY <3>3, <3>4, EmptySeq, LenProperties
    <3>6. Head(up') = up'[1]
      BY <3>4, <3>5, HeadTailProperties
    <3>7. QED
      BY <3>4, <3>5, <3>6
  <2>2. CASE ~saved
    <3>1. up' = <<>> \o pending /\ pending \in Seq(Request)
      BY <1>1, <2>2 DEF PageInv, QueueTypes
    <3>2. QED
      BY <2>2, <3>1, ConcatEmptySeq
  <2>3. QED
    BY <2>1, <2>2
<1>5. SocketTypes'
  BY <1>1 DEF PageInv, SocketTypes
<1>6. SessionTypes'
  BY <1>1, <1>2 DEF PageInv, SessionTypes
<1>7. QueueTypes'
  BY <1>1, <1>4 DEF QueueTypes
<1>8. ServerTypes'
  BY <1>1 DEF PageInv, ServerTypes
<1>9. SessionInv'
  BY <1>1, <1>3 DEF PageInv, SessionInv
<1>10. ResumeUnderWay'
  BY <1>1, <1>3, <1>4 DEF ResumeUnderWay
<1>11. QED
  BY <1>5, <1>6, <1>7, <1>8, <1>9, <1>10 DEF PageInv

\* What onclose sets.
LEMMA OnCloseKeeps == PageInv /\ OnClose => /\ SessionTypes' /\ SessionInv' /\ ServerTypes'
                                            /\ leaving' \in BOOLEAN /\ retry' \in BOOLEAN
                                            /\ UNCHANGED <<pending, resuming>>
<1> SUFFICES ASSUME PageInv, OnClose
             PROVE  /\ SessionTypes' /\ SessionInv' /\ ServerTypes'
                    /\ leaving' \in BOOLEAN /\ retry' \in BOOLEAN
                    /\ UNCHANGED <<pending, resuming>>
  OBVIOUS
<1>1. SessionTypes' /\ SessionInv' /\ ServerTypes' /\ UNCHANGED <<pending, resuming>>
  BY DEF PageInv, OnClose, session, server, SessionTypes, SessionInv, ServerTypes
<1>2. leaving' \in BOOLEAN /\ retry' \in BOOLEAN
  BY DEF PageInv, OnClose, SocketTypes
<1>3. QED
  BY <1>1, <1>2

\* connect() does not open the socket.
LEMMA ConnectKeeps == PageInv /\ Connect => /\ ws' \in {"connecting", "open", "closing", "closed"}
                                            /\ stale' \in BOOLEAN
                                            /\ ws' = "open" => ws = "open"
BY DEF PageInv, SocketTypes, Connect

LEMMA EventKeeps == PageInv /\ Events => PageInv'
<1> SUFFICES ASSUME PageInv, Events
             PROVE  PageInv'
  OBVIOUS
<1>1. CASE Open
  BY <1>1, OpenKeeps
<1>2. CASE Fail \/ Closed
  <2>1. OnClose /\ ws' = "closed" /\ UNCHANGED <<stale, up, down>>
    BY <1>2 DEF Fail, Closed
  <2>2. QED
    BY <2>1, OnCloseKeeps DEF PageInv, SocketTypes, QueueTypes, ResumeUnderWay
<1>3. CASE ClosedLate
  <2>1. OnClose /\ stale' = FALSE /\ UNCHANGED <<ws, up, down>>
    BY <1>3 DEF ClosedLate
  <2>2. SocketTypes'
    BY <2>1, OnCloseKeeps DEF PageInv, SocketTypes
  <2>3. QueueTypes' /\ ResumeUnderWay'
    BY <2>1, OnCloseKeeps DEF PageInv, QueueTypes, ResumeUnderWay
  <2>4. QED
    BY <2>1, <2>2, <2>3, OnCloseKeeps DEF PageInv
<1>4. CASE Retry
  <2>1. Connect /\ retry' = FALSE /\ UNCHANGED <<page, server, up, down>>
    BY <1>4 DEF Retry
  <2>2. SocketTypes' /\ QueueTypes' /\ ResumeUnderWay'
    BY <2>1, ConnectKeeps DEF PageInv, SocketTypes, QueueTypes, ResumeUnderWay, page, session
  <2>3. SessionTypes' /\ SessionInv' /\ ServerTypes'
    BY <2>1 DEF PageInv, SessionTypes, SessionInv, ServerTypes, page, session, server
  <2>4. QED
    BY <2>2, <2>3 DEF PageInv
<1>5. QED
  BY <1>1, <1>2, <1>3, <1>4 DEF Events

-----------------------------------------------------------------------------
(***************************************************************************)
(* The user.                                                               *)
(***************************************************************************)

\* A message that is sent goes behind what is under way.
LEMMA SendKeeps ==
  ASSUME PageInv, NEW msg \in Request, SendNow(msg), UNCHANGED resuming
  PROVE  /\ QueueTypes' /\ ServerTypes' /\ ResumeUnderWay'
         /\ ws' \in {"connecting", "open", "closing", "closed"}
         /\ stale' \in BOOLEAN /\ retry' \in BOOLEAN
<1>1. ServerTypes' /\ UNCHANGED <<retry, down>>
  BY DEF SendNow, PageInv, ServerTypes, server
<1>2. CASE ws = "open" /\ up' = Append(up, msg) /\ UNCHANGED <<ws, stale, pending>>
  <2>1. up' \in Seq(Request) /\ up' # <<>> /\ (up # <<>> => Head(up') = Head(up))
    BY <1>2, Added DEF PageInv, QueueTypes
  <2>2. QueueTypes'
    BY <1>1, <1>2, <2>1 DEF PageInv, QueueTypes
  <2>3. ResumeUnderWay'
    BY <1>1, <1>2, <2>1 DEF PageInv, ResumeUnderWay
  <2>4. QED
    BY <1>1, <1>2, <2>2, <2>3 DEF PageInv, SocketTypes
<1>3. CASE ws # "open" /\ pending' = Append(pending, msg) /\ Connect /\ UNCHANGED up
  <2>1. QueueTypes'
    BY <1>1, <1>3, Added DEF PageInv, QueueTypes
  <2>2. QED
    BY <1>1, <1>3, <2>1, ConnectKeeps DEF PageInv, ResumeUnderWay, SocketTypes
<1>4. QED
  BY <1>2, <1>3 DEF SendNow

LEMMA UserKeeps ==
  ASSUME PageInv, Login \/ Ask \/ Quit \/ \E u \in Users \cup {None} : Type(u)
  PROVE  PageInv'
<1>1. CASE \E u \in Users \cup {None} : Type(u)
  <2>1. PICK u \in Users \cup {None} : Type(u)
    BY <1>1
  <2>2. /\ form' = u
        /\ UNCHANGED <<ws, stale, retry, token, username, resuming, dashboard, stored, leaving, pending,
                       running, user, live, issued, up, down>>
    BY <2>1 DEF Type, socket, session, server
  <2>3. SocketTypes' /\ QueueTypes' /\ ServerTypes' /\ SessionInv' /\ ResumeUnderWay'
    BY <2>2 DEF PageInv, SocketTypes, QueueTypes, ServerTypes, SessionInv, ResumeUnderWay
  <2>4. SessionTypes'
    BY <2>2 DEF PageInv, SessionTypes
  <2>5. QED
    BY <2>3, <2>4 DEF PageInv
<1>2. CASE Login \/ Ask
  <2>1. PICK msg \in Request : SendNow(msg)
    <3>1. CASE Login
      <4>1. form \in Users
        BY <3>1 DEF Login, PageInv, SessionTypes
      <4>2. QED
        BY <3>1, <4>1, Made DEF Login
    <3>2. CASE Ask
      <4>1. token \in Tokens
        BY <3>2 DEF Ask, PageInv, SessionTypes, SessionInv
      <4>2. QED
        BY <3>2, <4>1, Made DEF Ask
    <3>3. QED
      BY <1>2, <3>1, <3>2
  <2>2. UNCHANGED <<token, username, resuming, dashboard, stored, leaving, form>>
    BY <1>2 DEF Login, Ask, session
  <2>3. SessionTypes' /\ SessionInv'
    BY <2>2 DEF PageInv, SessionTypes, SessionInv
  <2>4. QED
    BY <2>1, <2>2, <2>3, SendKeeps DEF PageInv, SocketTypes
<1>3. CASE Quit
  <2>1. PICK msg \in Request : SendNow(msg)
    <3>1. token \in Tokens
      BY <1>3 DEF Quit, PageInv, SessionTypes, SessionInv
    <3>2. QED
      BY <1>3, <3>1, Made DEF Quit
  <2>2. /\ dashboard /\ leaving' = TRUE /\ token' = None /\ username' = None /\ stored' = None
        /\ dashboard' = FALSE /\ UNCHANGED <<resuming, form>>
    BY <1>3 DEF Quit
  <2>3. SessionTypes' /\ SessionInv'
    BY <2>2 DEF PageInv, SessionTypes, SessionInv
  <2>4. QED
    BY <2>1, <2>2, <2>3, SendKeeps DEF PageInv, SocketTypes
<1>4. QED
  BY <1>1, <1>2, <1>3

\* A reload leaves nothing but the storage.
LEMMA ReloadKeeps == PageInv /\ Reload => PageInv'
<1> SUFFICES ASSUME PageInv, Reload
             PROVE  PageInv'
  OBVIOUS
<1>1. SocketTypes' /\ SessionTypes' /\ ServerTypes'
  BY DEF Reload, PageInv, SocketTypes, SessionTypes, ServerTypes
<1>2. QueueTypes'
  BY DEF Reload, QueueTypes
<1>3. SessionInv' /\ ResumeUnderWay'
  BY DEF Reload, SessionInv, ResumeUnderWay
<1>4. QED
  BY <1>1, <1>2, <1>3 DEF PageInv

-----------------------------------------------------------------------------
(***************************************************************************)
(* handleMessage.                                                          *)
(***************************************************************************)
LEMMA MessageKeeps == PageInv /\ Messages => PageInv'
<1> SUFFICES ASSUME PageInv, Messages
             PROVE  PageInv'
  OBVIOUS
<1>0. PICK type : Receive(type)
  BY DEF Messages, AuthOk, Error, Close
<1>1. Head(down) \in Answer /\ Tail(down) \in Seq(Answer) /\ down' = Tail(down) /\ ws = "open"
  BY <1>0, Taken DEF Receive, PageInv, QueueTypes
<1>2. CASE AuthOk
  <2>1. Head(down).token \in Tokens
    BY <1>1, <1>2, Fields DEF AuthOk, Receive
  <2>2. /\ token' = Head(down).token
        /\ username' \in {username, form} /\ (username' = form => username' \in Users \cup {None})
        /\ resuming' = FALSE
        /\ stored' = [token |-> token', user |-> username']
        /\ dashboard' = TRUE
        /\ UNCHANGED <<ws, stale, retry, leaving, pending, form, running, user, live, issued, up>>
    BY <1>2 DEF AuthOk, socket, server, PageInv, SessionTypes
  <2>3. SessionTypes'
    BY <2>1, <2>2 DEF PageInv, SessionTypes
  <2>4. SessionInv' /\ ResumeUnderWay'
    BY <2>1, <2>2, NoneIsNothing DEF SessionInv, ResumeUnderWay
  <2>5. SocketTypes' /\ QueueTypes' /\ ServerTypes'
    BY <1>1, <2>2 DEF PageInv, SocketTypes, QueueTypes, ServerTypes
  <2>6. QED
    BY <2>3, <2>4, <2>5 DEF PageInv
<1>3. CASE Error
  <2>1. /\ \/ username' = None /\ stored' = None
           \/ UNCHANGED <<username, stored>>
        /\ resuming' = FALSE
        /\ UNCHANGED <<ws, stale, retry, token, dashboard, leaving, pending, form, running, user, live, issued, up>>
    BY <1>3 DEF Error, socket, server
  <2>2. SessionTypes'
    BY <2>1 DEF PageInv, SessionTypes
  <2>3. SessionInv' /\ ResumeUnderWay'
    BY <2>1 DEF PageInv, SessionInv, ResumeUnderWay
  <2>4. SocketTypes' /\ QueueTypes' /\ ServerTypes'
    BY <1>1, <2>1 DEF PageInv, SocketTypes, QueueTypes, ServerTypes
  <2>5. QED
    BY <2>2, <2>3, <2>4 DEF PageInv
<1>4. CASE Close
  <2>1. ws' = "closing" /\ up' = <<>> /\ UNCHANGED <<stale, retry, page, server>>
    BY <1>4 DEF Close
  <2>2. SessionTypes' /\ SessionInv' /\ ServerTypes'
    BY <2>1 DEF PageInv, SessionTypes, SessionInv, ServerTypes, page, session, server
  <2>3. SocketTypes' /\ QueueTypes' /\ ResumeUnderWay'
    BY <1>1, <2>1 DEF PageInv, SocketTypes, QueueTypes, ResumeUnderWay, page
  <2>4. QED
    BY <2>2, <2>3 DEF PageInv
<1>5. QED
  BY <1>2, <1>3, <1>4 DEF Messages

-----------------------------------------------------------------------------
(***************************************************************************)
(* The server.                                                             *)
(***************************************************************************)

\* What every request leaves alone.
LEMMA ReadKeeps ==
  ASSUME PageInv, NEW type, Read(type)
  PROVE  /\ SocketTypes' /\ SessionTypes' /\ SessionInv'
         /\ UNCHANGED <<ws, pending, resuming, running>> /\ ws = "open"
         /\ Head(up) \in Request /\ Head(up).type = type /\ up' \in Seq(Request)
BY Taken DEF Read, socket, page, session, PageInv, SocketTypes, SessionTypes, SessionInv, QueueTypes

\* The answer to a request: the resume is answered first, and by an error.
LEMMA ReplyKeeps ==
  ASSUME PageInv, NEW type, Read(type), NEW msg \in Answer, Reply(msg), ServerTypes',
         type = "RESUME" => msg.type = "ERROR" /\ msg.re = "RESUME"
  PROVE  PageInv'
<1>1. down' \in Seq(Answer) /\ down' # <<>> /\ Head(down') = IF down = <<>> THEN msg ELSE Head(down)
  BY Added DEF Reply, PageInv, QueueTypes
<1>2. QueueTypes'
  BY <1>1, ReadKeeps DEF PageInv, QueueTypes
<1>3. ResumeUnderWay'
  BY <1>1, ReadKeeps DEF PageInv, ResumeUnderWay
<1>4. QED
  BY <1>2, <1>3, ReadKeeps DEF PageInv

LEMMA HandlerKeeps == PageInv /\ Handler => PageInv'
<1> SUFFICES ASSUME PageInv, Handler
             PROVE  PageInv'
  OBVIOUS
<1>1. CASE Admit
  <2>1. Read("LOGIN") /\ Head(up).user \in Users /\ UNCHANGED running
    BY <1>1, ReadKeeps, Fields DEF Admit
  <2>2. CASE \E t \in Tokens \ issued :
               /\ issued' = issued \cup {t} /\ live' = t /\ user' = Head(up).user
               /\ Reply([type |-> "AUTH_OK", token |-> t, re |-> "LOGIN"])
    <3>1. PICK t \in Tokens \ issued :
            /\ issued' = issued \cup {t} /\ live' = t /\ user' = Head(up).user
            /\ Reply([type |-> "AUTH_OK", token |-> t, re |-> "LOGIN"])
      BY <2>2
    <3>2. ServerTypes'
      BY <2>1, <3>1 DEF PageInv, ServerTypes
    <3>3. QED
      BY <2>1, <3>1, <3>2, Made, ReplyKeeps
  <2>3. CASE Reply([type |-> "ERROR", re |-> "LOGIN"]) /\ UNCHANGED <<user, live, issued>>
    <3>1. ServerTypes'
      BY <2>1, <2>3 DEF PageInv, ServerTypes
    <3>2. QED
      BY <2>1, <2>3, <3>1, Made, ReplyKeeps
  <2>4. QED
    BY <1>1, <2>2, <2>3 DEF Admit
<1>2. CASE Resume
  <2>1. /\ Read("RESUME") /\ Reply([type |-> "ERROR", re |-> "RESUME"])
        /\ UNCHANGED <<user, live, issued, running>>
    BY <1>2, ReadKeeps DEF Resume
  <2>2. ServerTypes'
    BY <2>1 DEF PageInv, ServerTypes
  <2>3. QED
    BY <2>1, <2>2, Made, ReplyKeeps
<1>3. CASE Serve
  <2>1. Read("REQUEST") /\ UNCHANGED <<user, live, issued, running>>
    BY <1>3, ReadKeeps DEF Serve
  <2>2. ServerTypes'
    BY <2>1 DEF PageInv, ServerTypes
  <2>3. CASE Reply([type |-> "ERROR", re |-> "REQUEST"])
    BY <2>1, <2>2, <2>3, Made, ReplyKeeps
  <2>4. CASE UNCHANGED down
    <3>1. QueueTypes' /\ ResumeUnderWay'
      BY <2>1, <2>4, ReadKeeps DEF PageInv, QueueTypes, ResumeUnderWay
    <3>2. QED
      BY <2>1, <2>2, <3>1, ReadKeeps DEF PageInv
  <2>5. QED
    BY <1>3, <2>3, <2>4 DEF Serve
<1>4. CASE Disconnect
  <2>1. /\ Read("DISCONNECT") /\ Reply([type |-> "CLOSE"])
        /\ user' = None /\ live' = None /\ UNCHANGED <<issued, running>>
    BY <1>4, ReadKeeps DEF Disconnect
  <2>2. ServerTypes'
    BY <2>1 DEF PageInv, ServerTypes
  <2>3. QED
    BY <2>1, <2>2, Made, ReplyKeeps
<1>5. QED
  BY <1>1, <1>2, <1>3, <1>4 DEF Handler

LEMMA OutageKeeps == PageInv /\ (Break \/ Switch) => PageInv'
<1> SUFFICES ASSUME PageInv, Break \/ Switch
             PROVE  PageInv'
  OBVIOUS
<1>1. CASE Break
  <2>1. /\ ws' = "closing" /\ up' = <<>> /\ down' = <<>> /\ user' = None /\ live' = None
        /\ running' \in BOOLEAN /\ UNCHANGED <<stale, retry, page, issued>>
    BY <1>1 DEF Break
  <2>2. SessionTypes' /\ SessionInv' /\ ServerTypes'
    BY <2>1 DEF PageInv, SessionTypes, SessionInv, ServerTypes, page, session
  <2>3. SocketTypes' /\ QueueTypes' /\ ResumeUnderWay'
    BY <2>1 DEF PageInv, SocketTypes, QueueTypes, ResumeUnderWay, page
  <2>4. QED
    BY <2>2, <2>3 DEF PageInv
<1>2. CASE Switch
  <2>1. running' = ~running /\ UNCHANGED <<socket, page, user, live, issued, up, down>>
    BY <1>2 DEF Switch
  <2>2. SessionTypes' /\ SessionInv' /\ ServerTypes'
    BY <2>1 DEF PageInv, SessionTypes, SessionInv, ServerTypes, page, session
  <2>3. SocketTypes' /\ QueueTypes' /\ ResumeUnderWay'
    BY <2>1 DEF PageInv, SocketTypes, QueueTypes, ResumeUnderWay, page, session, socket
  <2>4. QED
    BY <2>2, <2>3 DEF PageInv
<1>3. QED
  BY <1>1, <1>2

-----------------------------------------------------------------------------
LEMMA PageStep == PageInv /\ [Next]_vars => PageInv'
<1> SUFFICES ASSUME PageInv, [Next]_vars
             PROVE  PageInv'
  OBVIOUS
<1>1. CASE UNCHANGED vars
  BY <1>1 DEF vars, socket, page, session, server, PageInv, SocketTypes, SessionTypes, QueueTypes, ServerTypes,
              SessionInv, ResumeUnderWay
<1>2. QED
  BY <1>1, EventKeeps, MessageKeeps, HandlerKeeps, UserKeeps, ReloadKeeps, OutageKeeps DEF Next

\* The page's variables keep their types, and the dashboard is never shown
\* without a token to make requests with.
THEOREM PageTypeCorrect == Spec => []TypeOK
BY PageInit, PageStep, InvImpliesTypeOK, PTL DEF Spec

\* However a page is closed, reloaded and connected again: an answer that
\* arrives while it resumes is the one to its RESUME, and never that of a
\* login or a request.
THEOREM ResumesAnswerFirst == Spec => []ResumeAnswersFirst
<1>1. PageInv => ResumeAnswersFirst
  <2> SUFFICES ASSUME PageInv, resuming, ws = "open", NEW k \in DOMAIN down,
                      down[k].type \in {"AUTH_OK", "ERROR"},
                      \A j \in 1..k - 1 : down[j].type \notin {"AUTH_OK", "ERROR"}
               PROVE  down[k].re = "RESUME"
    BY DEF ResumeAnswersFirst
  <2>1. down \in Seq(Answer) /\ Len(down) \in Nat /\ k \in 1..Len(down)
    BY LenProperties DEF PageInv, QueueTypes
  <2>2. down # <<>>
    BY <2>1, EmptySeq
  <2>3. Head(down) = down[1] /\ down[1].type = "ERROR" /\ down[1].re = "RESUME"
    BY <2>1, <2>2, HeadTailProperties DEF PageInv, ResumeUnderWay
  <2>4. k = 1
    BY <2>1, <2>3
  <2>5. QED
    BY <2>3, <2>4
<1>2. QED
  BY <1>1, PageInit, PageStep, PTL DEF Spec
=============================================================================
