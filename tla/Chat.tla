-------------------------------- MODULE Chat --------------------------------
(***************************************************************************)
(* What the operator sends to the users (server/src/main.rs): broadcasts   *)
(* through a tokio broadcast channel, which every connection's chat_task   *)
(* reads and forwards, and direct messages through the registry of write   *)
(* halves.  Logins, switches and logouts are those of Sessions.tla.        *)
(*                                                                         *)
(* The channel numbers its messages and keeps the last Cap of them; a      *)
(* receiver that has fallen behind them is told so and goes on with the    *)
(* oldest one kept.  chat_task is four steps: it receives, it reads the    *)
(* connection's user, it locks the write half, it writes.                  *)
(*                                                                         *)
(* A client may stop reading (Stall) and go on later, or never.  A write   *)
(* waits for it, holding the lock of the write half, so that the handler,  *)
(* the chat_task and the operator all wait for the same client.  What the  *)
(* handler writes is one step: nothing else happens to the lock in it.     *)
(*                                                                         *)
(* The operator's clone of a write half outlives the handler and keeps its *)
(* socket: a connection slot is used again only when it is let go of.      *)
(***************************************************************************)
EXTENDS Integers, Sequences

CONSTANTS Users, Conns, Tokens, None, Faults,
          Cap,            \* BROADCAST_CAP
          MaxBroadcasts   \* bound on the broadcasts of a behaviour

ASSUME CapPositive == Cap \in Nat \ {0}
ASSUME BroadcastsBounded == MaxBroadcasts \in Nat
ASSUME NoneIsNobody == None \notin Users \cup Conns \cup Tokens
ASSUME FaultKinds == Faults \subseteq {"send", "db", "crash"}

VARIABLES users, sessions, issuedTo, status, sinks, pc, userState, target, offered,
          sent,    \* broadcasts sent so far: they are numbered 1..sent
          next,    \* the number each receiver reads next
          task,    \* next step of each connection's chat_task
          heard,   \* broadcasts written to each socket, in order (history)
          reads,   \* the client takes what is written to its socket
          lock,    \* who holds the lock of each write half
          owed,    \* frames the handler writes before its next step
          since,   \* broadcasts sent before the connection had a user (history)
          dm       \* direct message in the operator's hands: user and write half

Auth == INSTANCE Sessions

\* The variables of Sessions.tla, and those of the channel.
access == <<users, sessions, issuedTo, status, sinks, pc, userState, target, offered>>
receivers == <<next, task, heard>>
socket == <<reads, lock, owed>>
vars == <<access, sent, receivers, socket, since, dm>>

TypeOK == /\ Auth!TypeOK
          /\ sent \in 0..MaxBroadcasts
          /\ next \in [Conns -> 1..MaxBroadcasts + 1]
          /\ task \in [Conns -> {"off", "recv", "who", "lock", "write"}]
          /\ \A c \in Conns : heard[c] \in Seq(1..sent)
          /\ reads \in [Conns -> BOOLEAN]
          /\ lock \in [Conns -> {"free", "chat_task", "operator"}]
          /\ owed \in [Conns -> 0..2]
          /\ since \in [Conns -> 0..MaxBroadcasts]
          /\ dm = None \/ dm \in [user : Users, conn : Conns]

Init == /\ Auth!Init
        /\ sent = 0
        /\ next = [c \in Conns |-> 1]
        /\ task = [c \in Conns |-> "off"]
        /\ heard = [c \in Conns |-> <<>>]
        /\ reads = [c \in Conns |-> TRUE]
        /\ lock = [c \in Conns |-> "free"]
        /\ owed = [c \in Conns |-> 0]
        /\ since = [c \in Conns |-> 0]
        /\ dm = None

-----------------------------------------------------------------------------
Lock(c, holder) == /\ lock[c] = "free"
                   /\ lock' = [lock EXCEPT ![c] = holder]

Unlock(c) == lock' = [lock EXCEPT ![c] = "free"]

(***************************************************************************)
(* The operator: admin_stdin, one line after the other.                    *)
(***************************************************************************)
Broadcast == /\ dm = None
             /\ sent < MaxBroadcasts
             /\ sent' = sent + 1
             /\ UNCHANGED <<access, receivers, socket, since, dm>>

\* "@user text": the write half is cloned and the registry released; a user
\* who is not in it is reported and nothing is sent.
LookUp(u) == /\ dm = None
             /\ sinks[u] # None
             /\ dm' = [user |-> u, conn |-> sinks[u]]
             /\ UNCHANGED <<access, sent, receivers, socket, since>>

LockDm == /\ dm # None
          /\ Lock(dm.conn, "operator")
          /\ UNCHANGED <<access, sent, receivers, reads, owed, since, dm>>

\* The message is written as soon as the client reads, whether or not its
\* handler is still there.
SendDm == /\ dm # None
          /\ lock[dm.conn] = "operator"
          /\ reads[dm.conn]
          /\ Unlock(dm.conn)
          /\ dm' = None
          /\ UNCHANGED <<access, sent, receivers, reads, owed, since>>

\* The socket is closed or breaks, which nobody has to notice soon.
FailDm == /\ dm # None
          /\ lock[dm.conn] = "operator"
          /\ Unlock(dm.conn)
          /\ dm' = None
          /\ UNCHANGED <<access, sent, receivers, reads, owed, since>>

(***************************************************************************)
(* chat_task.                                                              *)
(***************************************************************************)
Goto(c, s) == task' = [task EXCEPT ![c] = s]

\* Mutant: one message less is kept.
OldestButOne == IF sent < Cap THEN 1 ELSE sent - Cap + 2

\* The oldest number the channel still has.
Oldest == IF sent < Cap THEN 1 ELSE sent - Cap + 1

Recv(c) == /\ task[c] = "recv"
           /\ next[c] >= Oldest
           /\ next[c] <= sent
           /\ next' = [next EXCEPT ![c] = @ + 1]
           /\ Goto(c, "who")
           /\ UNCHANGED <<access, sent, heard, socket, since, dm>>

\* Mutant: a lag ends the task.
LaggedOut(c) == /\ task[c] = "recv"
                /\ next[c] < Oldest
                /\ Goto(c, "off")
                /\ UNCHANGED <<access, sent, next, heard, socket, since, dm>>

\* RecvError::Lagged: the messages in between are lost, and the loop goes on.
Lagged(c) == /\ task[c] = "recv"
             /\ next[c] < Oldest
             /\ next' = [next EXCEPT ![c] = Oldest]
             /\ UNCHANGED <<access, sent, task, heard, socket, since, dm>>

\* An anonymous connection is skipped (and so would be a user of the name
\* "SERVER", which all broadcasts are from).
Who(c) == /\ task[c] = "who"
          /\ Goto(c, IF userState[c] = None THEN "recv" ELSE "lock")
          /\ UNCHANGED <<access, sent, next, heard, socket, since, dm>>

LockChat(c) == /\ task[c] = "lock"
               /\ Lock(c, "chat_task")
               /\ Goto(c, "write")
               /\ UNCHANGED <<access, sent, next, heard, reads, owed, since, dm>>

\* Mutant: the message after the one received is forwarded.
ForwardUnread(c) == /\ task[c] = "write"
                    /\ reads[c]
                    /\ heard' = [heard EXCEPT ![c] = Append(@, next[c])]
                    /\ Goto(c, "recv")
                    /\ Unlock(c)
                    /\ UNCHANGED <<access, sent, next, reads, owed, since, dm>>

\* The message is the one before next; it is written when the client reads,
\* and a failing send ends the task.
Forward(c) == /\ task[c] = "write"
              /\ reads[c]
              /\ \/ /\ heard' = [heard EXCEPT ![c] = Append(@, next[c] - 1)]
                    /\ Goto(c, "recv")
                 \/ /\ "send" \in Faults
                    /\ Goto(c, "off")
                    /\ UNCHANGED heard
              /\ Unlock(c)
              /\ UNCHANGED <<access, sent, next, reads, owed, since, dm>>

ChatTask(c) == Recv(c) \/ Lagged(c) \/ Who(c) \/ LockChat(c) \/ Forward(c)

-----------------------------------------------------------------------------
(***************************************************************************)
(* The handler.  It subscribes as it starts and aborts chat_task as it     *)
(* ends; if it leaves by `?`, the task is left running.                    *)
(***************************************************************************)

\* The handler, or what is left of it, still has the write half; somebody has.
Open(c) == pc[c] # "closed" \/ owed[c] > 0
Held(c) == Open(c) \/ (dm # None /\ dm.conn = c)

\* A new connection: the client reads what it is sent.
Subscribe(c) == /\ Auth!Connect(c)
                /\ ~Held(c)
                /\ next' = [next EXCEPT ![c] = sent + 1]
                /\ Goto(c, "recv")
                /\ reads' = [reads EXCEPT ![c] = TRUE]
                /\ UNCHANGED <<sent, heard, lock, owed, since, dm>>

\* Mutant: chat_task, stopped in the middle of a write, keeps the lock.
AbortLocked(c) == /\ task' = [task EXCEPT ![c] = "off"]
                  /\ next' = [next EXCEPT ![c] = 1]
                  /\ heard' = [heard EXCEPT ![c] = <<>>]
                  /\ since' = [since EXCEPT ![c] = 0]
                  /\ UNCHANGED lock

\* chat_task.abort: wherever the task is, its guard of the write half is
\* dropped.  Nothing is done to the operator's clone.
Abort(c) == /\ task' = [task EXCEPT ![c] = "off"]
            /\ next' = [next EXCEPT ![c] = 1]
            /\ heard' = [heard EXCEPT ![c] = <<>>]
            /\ since' = [since EXCEPT ![c] = 0]
            /\ lock' = [lock EXCEPT ![c] = IF @ = "chat_task" THEN "free" ELSE @]

\* A step of the handler, when it has written what it owes: one that brings it
\* back to the loop owes a reply, one that invalidates the token of a
\* DISCONNECT owes Ack and Close, and any other end aborts the task.  The first
\* user of a connection is noted.
Session(c) ==
  /\ pc[c] # "closed" /\ owed[c] = 0
  /\ Auth!Handler(c)
  /\ \/ pc'[c] = "closed" /\ offered[c] = None /\ Abort(c) /\ UNCHANGED owed
     \/ /\ pc'[c] = "closed" /\ offered[c] # None
        /\ owed' = [owed EXCEPT ![c] = 2]
        /\ UNCHANGED <<receivers, lock, since>>
     \/ /\ pc'[c] # "closed"
        /\ owed' = [owed EXCEPT ![c] = IF pc'[c] = "idle" THEN 1 ELSE 0]
        /\ since' = [since EXCEPT ![c] = IF userState[c] = None /\ userState'[c] # None
                                         THEN sent ELSE @]
        /\ UNCHANGED <<receivers, lock>>
  /\ UNCHANGED <<sent, reads, dm>>

\* DISCONNECT with another token: Ack and Close come before the cleanup.
Dismiss(c) ==
  /\ owed[c] = 0
  /\ \E t \in Tokens : Auth!DisconnectOther(c, t)
  /\ pc'[c] # "gone"
  /\ owed' = [owed EXCEPT ![c] = 2]
  /\ UNCHANGED <<sent, receivers, reads, lock, since, dm>>

\* A frame the handler owes is written when the lock is free and the client
\* reads.  (An Ack to a DISCONNECT that fails leaves by `?`: nothing more is
\* written, and the task goes on.)
Write(c) ==
  /\ owed[c] > 0
  /\ lock[c] = "free" /\ reads[c]
  /\ owed' = [owed EXCEPT ![c] = @ - 1]
  /\ IF owed[c] = 1 /\ pc[c] = "closed" THEN Abort(c) ELSE UNCHANGED <<receivers, lock, since>>
  /\ UNCHANGED <<access, sent, reads, dm>>

\* The client stops reading, or goes on.
Stall(c) == /\ Held(c)
            /\ reads' = [reads EXCEPT ![c] = ~@]
            /\ UNCHANGED <<access, sent, receivers, lock, owed, since, dm>>

Next == \/ \E c \in Conns : \/ Subscribe(c) \/ Session(c) \/ Dismiss(c) \/ Write(c)
                            \/ ChatTask(c) \/ Stall(c)
        \/ \E u \in Users : LookUp(u)
        \/ Broadcast \/ LockDm \/ SendDm \/ FailDm

\* tokio runs a task that has something to do, and its mutex is handed over
\* in the order of the requests, so that whoever waits for it gets it if it is
\* let go of again and again.  Nobody makes a client read.
Fairness == /\ WF_vars(SendDm) /\ SF_vars(LockDm)
            /\ \A c \in Conns : WF_vars(ChatTask(c)) /\ SF_vars(LockChat(c))

Spec == Init /\ [][Next]_vars /\ Fairness

-----------------------------------------------------------------------------
(***************************************************************************)
(* Properties.                                                             *)
(***************************************************************************)

\* Only what the channel has dropped is lost: a connection that has caught up,
\* and within Cap broadcasts of its login, was sent all of them.  (BROADCAST_CAP:
\* "If a slow client accumulates more than 256 unread messages, the oldest ones
\* are dropped", server/src/main.rs:36-38.)
CatchesUp == \A c \in Conns :
  /\ task[c] = "recv" /\ next[c] = sent + 1
  /\ userState[c] # None
  /\ sent - since[c] <= Cap
  => \A k \in since[c] + 1..sent : \E i \in DOMAIN heard[c] : heard[c][i] = k

\* A receiver reads on until nothing is left, as long as its connection is
\* open and its client reads, whatever the handler and the operator do and
\* however far it has fallen behind.  (A failing write is another end of the
\* task, so this is without "send".)
Delivered == \A c \in Conns :
  Open(c) ~> ~Open(c) \/ next[c] = sent + 1 \/ ~reads[c]

\* With a direct message in hand the operator waits for nothing but a client
\* that does not read, even one that has logged out (main.rs:250-251): the
\* lock of the write half comes free whoever has it, also when chat_task is
\* aborted in the middle of a write (main.rs:716).
OperatorGoesOn == dm # None ~> dm = None \/ ~reads[dm.conn]

\* `@user text` is a "DM to the specific user (if connected)"
\* (server/src/main.rs:194): the connection a DM is written to is that user's.
DmReachesUser == [][\A u \in Users, c \in Conns :
  SendDm /\ dm.user = u /\ dm.conn = c => userState[c] = u]_vars
=============================================================================
