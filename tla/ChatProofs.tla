----------------------------- MODULE ChatProofs -----------------------------
(***************************************************************************)
(* Theorems about Chat.tla, for any users, connections, tokens and faults  *)
(* and a channel of any capacity.                                          *)
(*                                                                         *)
(* The channel does not know the connections, and the sessions do not know *)
(* the channel: what they share is userState, which chat_task reads        *)
(* between two of its steps and the handler changes whenever it likes.     *)
(* CaughtUp is what survives that: a connection that has a user and is     *)
(* within Cap of its login has written every broadcast it has received     *)
(* since, but the one in its hands.  A lag does not break it, because      *)
(* what a lag skips is then older than the login.                          *)
(***************************************************************************)
EXTENDS Chat, SequenceTheorems, TLAPS

\* The facts SessionsProofs.tla proves of the variables of the sessions.
Proved == INSTANCE SessionsProofs

-----------------------------------------------------------------------------
(***************************************************************************)
(* The sessions.                                                           *)
(***************************************************************************)

\* Both instances of the sessions are the same module.
LEMMA SameHandler == ASSUME NEW c \in Conns
                     PROVE  Auth!Handler(c) <=> Proved!Handler(c)
<1> USE DEF Auth!Goto, Proved!Goto, Auth!Reply, Proved!Reply, Auth!shared, Auth!accounts, Auth!locals,
            Proved!shared, Proved!accounts, Proved!locals, Auth!SessionFree, Proved!SessionFree,
            Auth!Accepts, Proved!Accepts, Auth!Expire, Proved!Expire, Auth!Cleanup, Proved!Cleanup
<1>1. Auth!Enter(c) <=> Proved!Enter(c)
  BY DEF Auth!Enter, Auth!Connect, Auth!Refuse, Auth!Login, Auth!Register, Auth!SaveUser, Auth!TryInsertToken,
         Proved!Enter, Proved!Connect, Proved!Refuse, Proved!Login, Proved!Register, Proved!SaveUser,
         Proved!TryInsertToken
<1>2. Auth!Switch(c) <=> Proved!Switch(c)
  BY DEF Auth!Switch, Auth!DropSession, Auth!DropStatus, Auth!DropSink,
         Proved!Switch, Proved!DropSession, Proved!DropStatus, Proved!DropSink
<1>3. Auth!Install(c) <=> Proved!Install(c)
  BY DEF Auth!Install, Auth!SetStatus, Auth!SetSink, Proved!Install, Proved!SetStatus, Proved!SetSink
<1>4. Auth!Request(c) <=> Proved!Request(c)
  BY DEF Auth!Request, Auth!Serve, Auth!Track, Auth!Served, Proved!Request, Proved!Serve, Proved!Track,
         Proved!Served
<1>5. Auth!Quit(c) <=> Proved!Quit(c)
  BY DEF Auth!Quit, Auth!Hangup, Auth!Disconnect, Auth!DisconnectOther,
         Proved!Quit, Proved!Hangup, Proved!Disconnect, Proved!DisconnectOther
<1>6. Auth!Leave(c) <=> Proved!Leave(c)
  BY DEF Auth!Leave, Auth!TripsClosed, Auth!LeaveStatus, Auth!LeaveSink, Auth!LeaveSession, Auth!Invalidate,
         Proved!Leave, Proved!TripsClosed, Proved!LeaveStatus, Proved!LeaveSink, Proved!LeaveSession,
         Proved!Invalidate
<1>7. QED
  BY <1>1, <1>2, <1>3, <1>4, <1>5, <1>6 DEF Auth!Handler, Proved!Handler

LEMMA SameInit == Auth!Init <=> Proved!Init
BY DEF Auth!Init, Proved!Init, Auth!Nobody, Auth!AllDisconnected, Auth!AllClosed,
       Proved!Nobody, Proved!AllDisconnected, Proved!AllClosed

LEMMA SameTypes == Auth!TypeOK <=> Proved!TypeOK
BY DEF Auth!TypeOK, Proved!TypeOK, Auth!Steps, Proved!Steps, Auth!Statuses, Proved!Statuses

\* A DISCONNECT with another token is one of the handler's steps.
LEMMA DismissIsQuit == ASSUME NEW c \in Conns, Dismiss(c)
                       PROVE  Auth!Handler(c)
<1>1. PICK t \in Tokens : Auth!DisconnectOther(c, t)
  BY DEF Dismiss
<1>2. Auth!Quit(c)
  BY <1>1 DEF Auth!Quit
<1>3. QED
  BY <1>2 DEF Auth!Handler

\* A step is one of some handler, or leaves the sessions alone.
LEMMA StepIsSessionStep ==
  [Next]_vars => \/ \E c \in Conns : (Subscribe(c) \/ Session(c) \/ Dismiss(c)) /\ Auth!Handler(c)
                 \/ UNCHANGED access
<1> SUFFICES ASSUME [Next]_vars
             PROVE  \/ \E c \in Conns : (Subscribe(c) \/ Session(c) \/ Dismiss(c)) /\ Auth!Handler(c)
                    \/ UNCHANGED access
  OBVIOUS
<1>1. ASSUME NEW c \in Conns, Subscribe(c) \/ Session(c) \/ Dismiss(c)
      PROVE  Auth!Handler(c)
  BY <1>1, DismissIsQuit DEF Subscribe, Session, Auth!Handler, Auth!Enter
<1>2. ASSUME NEW c \in Conns, ChatTask(c) \/ Write(c) \/ Stall(c)
      PROVE  UNCHANGED access
  BY <1>2 DEF ChatTask, Recv, Lagged, Who, LockChat, Forward, Write, Stall
<1>3. ASSUME (\E u \in Users : LookUp(u)) \/ Broadcast \/ LockDm \/ SendDm \/ FailDm
      PROVE  UNCHANGED access
  BY <1>3 DEF LookUp, Broadcast, LockDm, SendDm, FailDm
<1>4. CASE UNCHANGED vars
  BY <1>4 DEF vars
<1>5. QED
  BY <1>1, <1>2, <1>3, <1>4 DEF Next

\* What the operator sends changes nothing for the sessions.
THEOREM ChatStepsAreSessionSteps == Spec => Auth!Init /\ [][Auth!Next]_(Auth!vars)
<1>1. Init => Auth!Init
  BY DEF Init
<1>2. [Next]_vars => [Auth!Next]_(Auth!vars)
  BY StepIsSessionStep DEF Auth!Next, access, Auth!vars, Auth!shared, Auth!accounts, Auth!locals
<1>3. QED
  BY <1>1, <1>2, PTL DEF Spec

SessionFacts == Proved!TypeInv /\ Proved!LocalInv

LEMMA SessionsHold ==
  /\ Init => SessionFacts
  /\ SessionFacts /\ [Next]_vars => SessionFacts'
<1> USE NoneIsNobody, FaultKinds
<1>1. Init => SessionFacts
  BY SameInit, Proved!TypeInit, Proved!HoldInit DEF Init, SessionFacts
<1>2. [Next]_vars => [Proved!Next]_(Proved!vars)
  BY StepIsSessionStep, SameHandler
     DEF Proved!Next, access, Proved!vars, Proved!shared, Proved!accounts, Proved!locals
<1>3. SessionFacts /\ [Next]_vars => SessionFacts'
  BY <1>2, Proved!TypeStep, Proved!LocalStep DEF SessionFacts
<1>4. QED
  BY <1>1, <1>3

\* A handler says for its own connection who its user is.
LEMMA OwnUser ==
  ASSUME SessionFacts, NEW c \in Conns, Auth!Handler(c), NEW d \in Conns, d # c
  PROVE  userState'[d] = userState[d]
<1>0. userState \in [Conns -> Users \cup {None}]
  BY DEF SessionFacts, Proved!TypeInv, Proved!TypeOK
<1> USE <1>0 DEF Auth!shared, Auth!accounts, Auth!locals
<1>1. CASE Auth!Enter(c)
  BY <1>1 DEF Auth!Enter, Auth!Connect, Auth!Refuse, Auth!Login, Auth!Register, Auth!SaveUser,
              Auth!TryInsertToken
<1>2. CASE Auth!Switch(c) \/ Auth!Install(c)
  BY <1>2 DEF Auth!Switch, Auth!DropSession, Auth!DropStatus, Auth!DropSink, Auth!Install, Auth!SetStatus,
              Auth!SetSink
<1>3. CASE Auth!Request(c) \/ Auth!Quit(c)
  BY <1>3 DEF Auth!Request, Auth!Serve, Auth!Track, Auth!Served, Auth!Quit, Auth!Hangup, Auth!Disconnect,
              Auth!DisconnectOther
<1>4. CASE Auth!Leave(c)
  BY <1>4 DEF Auth!Leave, Auth!TripsClosed, Auth!LeaveStatus, Auth!LeaveSink, Auth!LeaveSession
<1>5. QED
  BY <1>1, <1>2, <1>3, <1>4 DEF Auth!Handler

-----------------------------------------------------------------------------
(***************************************************************************)
(* The invariant.                                                          *)
(***************************************************************************)
ChannelTypes == /\ sent \in 0..MaxBroadcasts
                /\ next \in [Conns -> Nat]
                /\ task \in [Conns -> {"off", "recv", "who", "lock", "write"}]
                /\ heard \in [Conns -> Seq(Nat)]
                /\ since \in [Conns -> Nat]

SocketTypes == /\ reads \in [Conns -> BOOLEAN]
               /\ lock \in [Conns -> {"free", "chat_task", "operator"}]
               /\ owed \in [Conns -> 0..2]
               /\ dm = None \/ dm \in [user : Users, conn : Conns]

\* Nothing is received, written or waited for that was not sent.
Behind(c) == /\ next[c] \in 1..sent + 1
             /\ since[c] \in 0..sent
             /\ task[c] \in {"who", "lock", "write"} => next[c] > 1
             /\ \A i \in DOMAIN heard[c] : heard[c][i] \in 1..sent

\* What a receiver is done with.
Done(c) == IF task[c] = "recv" THEN next[c] - 1 ELSE next[c] - 2

Wrote(c, k) == \E i \in DOMAIN heard[c] : heard[c][i] = k

CaughtUp(c) == userState[c] # None /\ task[c] # "off" /\ sent - since[c] <= Cap
                 => \A k \in since[c] + 1..Done(c) : Wrote(c, k)

ReceiverInv == \A c \in Conns : Behind(c) /\ CaughtUp(c)

ChatInv == SessionFacts /\ ChannelTypes /\ SocketTypes /\ ReceiverInv

LEMMA ChatInit == Init => ChatInv
<1> SUFFICES ASSUME Init
             PROVE  ChatInv
  OBVIOUS
<1>1. SessionFacts
  BY SessionsHold
<1>2. 0 \in 0..MaxBroadcasts /\ <<>> \in Seq(Nat)
  BY BroadcastsBounded
<1>3. ChannelTypes
  BY <1>2 DEF Init, ChannelTypes
<1>4. SocketTypes
  BY DEF Init, SocketTypes
<1>5. ASSUME NEW c \in Conns
      PROVE  Behind(c) /\ CaughtUp(c)
  BY <1>5 DEF Init, Behind, CaughtUp
<1>6. QED
  BY <1>1, <1>3, <1>4, <1>5 DEF ChatInv, ReceiverInv

\* A type of the channel as TypeOK has it.
LEMMA HeardType ==
  ASSUME ChannelTypes, NEW c \in Conns, Behind(c)
  PROVE  heard[c] \in Seq(1..sent)
<1>1. heard[c] \in Seq(Nat) /\ \A i \in DOMAIN heard[c] : heard[c][i] \in 1..sent
  BY DEF ChannelTypes, Behind
<1>2. Len(heard[c]) \in Nat /\ DOMAIN heard[c] = 1..Len(heard[c])
  BY <1>1, LenProperties
<1>3. heard[c] = [i \in 1..Len(heard[c]) |-> heard[c][i]]
  BY <1>1, <1>2, SeqDef
<1>4. heard[c] \in [1..Len(heard[c]) -> 1..sent]
  BY <1>1, <1>2, <1>3
<1>5. QED
  BY <1>2, <1>4, SeqDef

LEMMA InvImpliesTypeOK == ChatInv => TypeOK
<1> SUFFICES ASSUME ChatInv
             PROVE  TypeOK
  OBVIOUS
<1>1. Auth!TypeOK
  BY SameTypes DEF ChatInv, SessionFacts, Proved!TypeInv
<1>2. sent \in 0..MaxBroadcasts /\ BroadcastsBounded
  BY BroadcastsBounded DEF ChatInv, ChannelTypes
<1>3. next \in [Conns -> 1..MaxBroadcasts + 1] /\ since \in [Conns -> 0..MaxBroadcasts]
  <2>1. ASSUME NEW c \in Conns
        PROVE  next[c] \in 1..MaxBroadcasts + 1 /\ since[c] \in 0..MaxBroadcasts
    BY <1>2, BroadcastsBounded DEF ChatInv, ReceiverInv, Behind
  <2>2. QED
    BY <2>1 DEF ChatInv, ChannelTypes
<1>4. \A c \in Conns : heard[c] \in Seq(1..sent)
  BY HeardType DEF ChatInv, ReceiverInv
<1>5. QED
  BY <1>1, <1>2, <1>3, <1>4 DEF TypeOK, ChatInv, ChannelTypes, SocketTypes

-----------------------------------------------------------------------------
(***************************************************************************)
(* Steps.                                                                  *)
(***************************************************************************)

\* A connection nothing happens to.
LEMMA Untouched ==
  ASSUME ReceiverInv, NEW d \in Conns, UNCHANGED sent,
         next'[d] = next[d], task'[d] = task[d], heard'[d] = heard[d], since'[d] = since[d],
         userState'[d] = userState[d]
  PROVE  Behind(d)' /\ CaughtUp(d)'
BY DEF ReceiverInv, Behind, CaughtUp, Done, Wrote

\* A message written is added to those written before.
LEMMA Added ==
  ASSUME NEW s \in Seq(Nat), NEW m \in Nat
  PROVE  /\ Append(s, m) \in Seq(Nat)
         /\ \A i \in DOMAIN Append(s, m) : (i \in DOMAIN s /\ Append(s, m)[i] = s[i]) \/ Append(s, m)[i] = m
         /\ \A i \in DOMAIN s : i \in DOMAIN Append(s, m) /\ Append(s, m)[i] = s[i]
         /\ \E i \in DOMAIN Append(s, m) : Append(s, m)[i] = m
<1>1. /\ Append(s, m) \in Seq(Nat) /\ Len(Append(s, m)) = Len(s) + 1
      /\ Append(s, m)[Len(s) + 1] = m
      /\ \A i \in 1..Len(s) : Append(s, m)[i] = s[i]
  BY AppendProperties
<1>2. Len(s) \in Nat /\ DOMAIN s = 1..Len(s) /\ DOMAIN Append(s, m) = 1..Len(s) + 1
  BY <1>1, LenProperties
<1>3. QED
  BY <1>1, <1>2

\* The operator's steps.
LEMMA OperatorKeeps ==
  ASSUME ChatInv, Broadcast \/ LockDm \/ SendDm \/ FailDm \/ \E u \in Users : LookUp(u)
  PROVE  ChannelTypes' /\ SocketTypes' /\ ReceiverInv'
<1>1. CASE Broadcast
  <2>1. /\ sent < MaxBroadcasts /\ sent' = sent + 1
        /\ UNCHANGED <<next, task, heard, reads, lock, owed, since, dm, userState>>
    BY <1>1 DEF Broadcast, access, receivers, socket
  <2>2. sent' \in 0..MaxBroadcasts /\ sent \in Nat
    BY <2>1, BroadcastsBounded DEF ChatInv, ChannelTypes
  <2>3. ASSUME NEW c \in Conns
        PROVE  Behind(c)' /\ CaughtUp(c)'
    <3>1. Behind(c) /\ CaughtUp(c) /\ since[c] \in Nat /\ next[c] \in Nat
      BY DEF ChatInv, ReceiverInv, ChannelTypes
    <3>2. Behind(c)'
      BY <2>1, <2>2, <3>1 DEF Behind
    <3>3. sent' - since'[c] <= Cap => sent - since[c] <= Cap
      BY <2>1, <2>2, <3>1, CapPositive
    <3>4. CaughtUp(c)'
      BY <2>1, <3>1, <3>3 DEF CaughtUp, Done, Wrote
    <3>5. QED
      BY <3>2, <3>4
  <2>4. QED
    BY <2>1, <2>2, <2>3 DEF ChatInv, ChannelTypes, SocketTypes, ReceiverInv
<1>2. CASE LockDm \/ SendDm \/ FailDm \/ \E u \in Users : LookUp(u)
  <2>1. UNCHANGED <<sent, next, task, heard, reads, owed, since, userState>>
    BY <1>2 DEF LockDm, SendDm, FailDm, LookUp, access, receivers, socket
  <2>2. SocketTypes'
    <3>0. SocketTypes
      BY DEF ChatInv
    <3>1. CASE LockDm
      BY <2>1, <3>0, <3>1 DEF LockDm, Lock, SocketTypes
    <3>2. CASE SendDm \/ FailDm
      BY <2>1, <3>0, <3>2 DEF SendDm, FailDm, Unlock, SocketTypes
    <3>3. ASSUME NEW u \in Users, LookUp(u)
          PROVE  SocketTypes'
      <4>1. sinks[u] \in Conns
        BY <3>3 DEF LookUp, ChatInv, SessionFacts, Proved!TypeInv, Proved!TypeOK
      <4>2. dm' = [user |-> u, conn |-> sinks[u]] /\ UNCHANGED lock
        BY <3>3 DEF LookUp, socket
      <4>3. QED
        BY <2>1, <3>0, <4>1, <4>2 DEF SocketTypes
    <3>4. QED
      BY <1>2, <3>1, <3>2, <3>3
  <2>3. \A c \in Conns : Behind(c)' /\ CaughtUp(c)'
    BY <2>1, Untouched DEF ChatInv
  <2>4. QED
    BY <2>1, <2>2, <2>3 DEF ChatInv, ChannelTypes, ReceiverInv
<1>3. QED
  BY <1>1, <1>2

\* chat_task, and the client that stops reading or goes on.
LEMMA TaskKeeps ==
  ASSUME ChatInv, NEW c \in Conns, ChatTask(c) \/ Stall(c)
  PROVE  ChannelTypes' /\ SocketTypes' /\ ReceiverInv'
<1>0. /\ ChannelTypes /\ SocketTypes /\ ReceiverInv /\ Behind(c) /\ CaughtUp(c)
      /\ sent \in Nat /\ next[c] \in Nat /\ since[c] \in Nat /\ heard[c] \in Seq(Nat) /\ Cap \in Nat /\ Cap > 0
  BY CapPositive, BroadcastsBounded DEF ChatInv, ReceiverInv, ChannelTypes
<1>1. CASE Recv(c)
  <2>1. /\ task[c] = "recv" /\ next[c] <= sent
        /\ next' = [next EXCEPT ![c] = @ + 1] /\ task' = [task EXCEPT ![c] = "who"]
        /\ UNCHANGED <<sent, heard, reads, lock, owed, since, dm, userState>>
    BY <1>1 DEF Recv, Goto, access, socket
  <2>2. next'[c] = next[c] + 1 /\ task'[c] = "who" /\ ChannelTypes' /\ SocketTypes'
    BY <1>0, <2>1 DEF ChannelTypes, SocketTypes
  <2>3. Behind(c)'
    BY <1>0, <2>1, <2>2 DEF Behind
  <2>4. Done(c)' = Done(c)
    BY <1>0, <2>1, <2>2 DEF Done
  <2>5. CaughtUp(c)'
    BY <1>0, <2>1, <2>4 DEF CaughtUp, Wrote
  <2>6. \A d \in Conns \ {c} : Behind(d)' /\ CaughtUp(d)'
    BY <1>0, <2>1, Untouched DEF ChannelTypes
  <2>7. QED
    BY <2>2, <2>3, <2>5, <2>6 DEF ReceiverInv
<1>2. CASE Lagged(c)
  <2>1. /\ task[c] = "recv" /\ next[c] < Oldest
        /\ next' = [next EXCEPT ![c] = Oldest]
        /\ UNCHANGED <<sent, task, heard, reads, lock, owed, since, dm, userState>>
    BY <1>2 DEF Lagged, access, socket
  <2>2. sent >= Cap /\ Oldest = sent - Cap + 1 /\ Oldest \in Nat
    BY <1>0, <2>1 DEF Oldest, Behind
  <2>3. next'[c] = Oldest /\ ChannelTypes' /\ SocketTypes'
    BY <1>0, <2>1, <2>2 DEF ChannelTypes, SocketTypes
  <2>4. Behind(c)'
    BY <1>0, <2>1, <2>2, <2>3 DEF Behind
  <2>5. CaughtUp(c)'
    <3>1. Done(c)' = sent - Cap
      <4>1. task'[c] = "recv" /\ next'[c] = sent - Cap + 1 /\ sent \in Nat /\ Cap \in Nat
        BY <1>0, <2>1, <2>2, <2>3
      <4>2. QED
        BY <4>1 DEF Done
    <3>2. sent - since[c] <= Cap => since[c] + 1 > sent - Cap
      BY <1>0
    <3>3. QED
      BY <1>0, <2>1, <3>1, <3>2 DEF CaughtUp
  <2>6. \A d \in Conns \ {c} : Behind(d)' /\ CaughtUp(d)'
    BY <1>0, <2>1, Untouched DEF ChannelTypes
  <2>7. QED
    BY <2>3, <2>4, <2>5, <2>6 DEF ReceiverInv
<1>3. CASE Who(c)
  <2>1. /\ task[c] = "who"
        /\ task' = [task EXCEPT ![c] = IF userState[c] = None THEN "recv" ELSE "lock"]
        /\ UNCHANGED <<sent, next, heard, reads, lock, owed, since, dm, userState>>
    BY <1>3 DEF Who, Goto, access, socket
  <2>2. task'[c] = (IF userState[c] = None THEN "recv" ELSE "lock") /\ ChannelTypes' /\ SocketTypes'
    BY <1>0, <2>1 DEF ChannelTypes, SocketTypes
  <2>3. Behind(c)'
    BY <1>0, <2>1, <2>2 DEF Behind
  <2>4. CaughtUp(c)'
    BY <1>0, <2>1, <2>2 DEF CaughtUp, Done, Wrote
  <2>5. \A d \in Conns \ {c} : Behind(d)' /\ CaughtUp(d)'
    BY <1>0, <2>1, Untouched DEF ChannelTypes
  <2>6. QED
    BY <2>2, <2>3, <2>4, <2>5 DEF ReceiverInv
<1>4. CASE Forward(c)
  <2>1. /\ task[c] = "write" /\ UNCHANGED <<sent, next, reads, owed, since, dm, userState>>
        /\ next[c] > 1 /\ next[c] - 1 \in Nat /\ next[c] - 1 \in 1..sent
    BY <1>0, <1>4 DEF Forward, Behind, access
  <2>0. lock' \in [Conns -> {"free", "chat_task", "operator"}]
    BY <1>0, <1>4 DEF Forward, Unlock, SocketTypes
  <2>2. CASE /\ heard' = [heard EXCEPT ![c] = Append(@, next[c] - 1)]
             /\ Goto(c, "recv")
    <3>1. heard'[c] = Append(heard[c], next[c] - 1) /\ task'[c] = "recv" /\ ChannelTypes' /\ SocketTypes'
      <4>1. Append(heard[c], next[c] - 1) \in Seq(Nat)
        BY <1>0, <2>1, Added
      <4>2. heard'[c] = Append(heard[c], next[c] - 1) /\ task'[c] = "recv" /\ ChannelTypes'
        BY <1>0, <2>1, <2>2, <4>1 DEF ChannelTypes, Goto
      <4>3. SocketTypes'
        BY <1>0, <2>0, <2>1 DEF SocketTypes
      <4>4. QED
        BY <4>2, <4>3
    <3> DEFINE s == heard[c]
               m == next[c] - 1
    <3>1a. /\ \A i \in DOMAIN Append(s, m) : (i \in DOMAIN s /\ Append(s, m)[i] = s[i]) \/ Append(s, m)[i] = m
           /\ \A i \in DOMAIN s : i \in DOMAIN Append(s, m) /\ Append(s, m)[i] = s[i]
           /\ \E i \in DOMAIN Append(s, m) : Append(s, m)[i] = m
      <4>1. s \in Seq(Nat) /\ m \in Nat
        BY <1>0, <2>1
      <4> HIDE DEF s, m
      <4>2. QED
        BY <4>1, Added
    <3>2. Behind(c)'
      <4>1. \A i \in DOMAIN heard'[c] : heard'[c][i] \in 1..sent
        BY <1>0, <2>1, <3>1, <3>1a DEF Behind
      <4>2. QED
        BY <1>0, <2>1, <3>1, <4>1 DEF Behind
    <3>3. CaughtUp(c)'
      <4>1. Done(c) = next[c] - 2 /\ Done(c)' = next[c] - 1
        BY <2>1, <3>1 DEF Done
      <4>2. \E i \in DOMAIN heard'[c] : heard'[c][i] = next[c] - 1
        BY <3>1, <3>1a
      <4>3. \A k \in Nat : Wrote(c, k) => Wrote(c, k)'
        BY <3>1, <3>1a DEF Wrote
      <4>4. \A k \in since[c] + 1..next[c] - 1 : k \in since[c] + 1..next[c] - 2 \/ k = next[c] - 1
        BY <1>0
      <4>5. ASSUME userState[c] # None, sent - since[c] <= Cap, NEW k \in since[c] + 1..next[c] - 1
            PROVE  Wrote(c, k)'
        <5>1. CASE k \in since[c] + 1..next[c] - 2
          BY <1>0, <2>1, <4>1, <4>3, <4>5, <5>1 DEF CaughtUp
        <5>2. CASE k = next[c] - 1
          BY <4>2, <5>2 DEF Wrote
        <5>3. QED
          BY <4>4, <4>5, <5>1, <5>2
      <4>6. QED
        BY <2>1, <4>1, <4>5 DEF CaughtUp
    <3>4. \A d \in Conns \ {c} : Behind(d)' /\ CaughtUp(d)'
      BY <1>0, <2>1, <2>2, Untouched DEF ChannelTypes, Goto
    <3>5. QED
      BY <3>1, <3>2, <3>3, <3>4 DEF ReceiverInv
  <2>3. CASE Goto(c, "off") /\ UNCHANGED heard
    <3>1. task'[c] = "off" /\ ChannelTypes' /\ SocketTypes'
      BY <1>0, <2>0, <2>1, <2>3 DEF ChannelTypes, SocketTypes, Goto
    <3>2. Behind(c)' /\ CaughtUp(c)'
      BY <1>0, <2>1, <2>3, <3>1 DEF Behind, CaughtUp
    <3>3. \A d \in Conns \ {c} : Behind(d)' /\ CaughtUp(d)'
      BY <1>0, <2>1, <2>3, Untouched DEF ChannelTypes, Goto
    <3>4. QED
      BY <3>1, <3>2, <3>3 DEF ReceiverInv
  <2>4. QED
    BY <1>4, <2>2, <2>3 DEF Forward
<1>5. CASE LockChat(c)
  <2>1. /\ task[c] = "lock" /\ task' = [task EXCEPT ![c] = "write"]
        /\ lock' = [lock EXCEPT ![c] = "chat_task"]
        /\ UNCHANGED <<sent, next, heard, reads, owed, since, dm, userState>>
    BY <1>5 DEF LockChat, Lock, Goto, access
  <2>2. task'[c] = "write" /\ ChannelTypes' /\ SocketTypes'
    BY <1>0, <2>1 DEF ChannelTypes, SocketTypes
  <2>3. Behind(c)'
    BY <1>0, <2>1, <2>2 DEF Behind
  <2>4. CaughtUp(c)'
    BY <1>0, <2>1, <2>2 DEF CaughtUp, Done, Wrote
  <2>5. \A d \in Conns \ {c} : Behind(d)' /\ CaughtUp(d)'
    BY <1>0, <2>1, Untouched DEF ChannelTypes
  <2>6. QED
    BY <2>2, <2>3, <2>4, <2>5 DEF ReceiverInv
<1>6. CASE Stall(c)
  <2>1. reads' = [reads EXCEPT ![c] = ~@] /\ UNCHANGED <<sent, next, task, heard, lock, owed, since, dm, userState>>
    BY <1>6 DEF Stall, access, receivers
  <2>2. ChannelTypes' /\ SocketTypes'
    BY <1>0, <2>1 DEF ChannelTypes, SocketTypes
  <2>3. \A d \in Conns : Behind(d)' /\ CaughtUp(d)'
    BY <1>0, <2>1, Untouched
  <2>4. QED
    BY <2>2, <2>3 DEF ReceiverInv
<1>7. QED
  BY <1>1, <1>2, <1>3, <1>4, <1>5, <1>6 DEF ChatTask

\* The end of chat_task: nothing is owed any more.
LEMMA AbortKeeps ==
  ASSUME ChatInv, NEW c \in Conns, Abort(c), UNCHANGED <<sent, reads, dm>>, owed' \in [Conns -> 0..2],
         \A d \in Conns \ {c} : userState'[d] = userState[d]
  PROVE  ChannelTypes' /\ SocketTypes' /\ ReceiverInv'
<1>0. /\ ChannelTypes /\ SocketTypes /\ ReceiverInv /\ Behind(c) /\ sent \in Nat
  BY BroadcastsBounded DEF ChatInv, ReceiverInv, ChannelTypes
<1>1. /\ task' = [task EXCEPT ![c] = "off"] /\ next' = [next EXCEPT ![c] = 1]
      /\ heard' = [heard EXCEPT ![c] = <<>>] /\ since' = [since EXCEPT ![c] = 0]
      /\ lock' = [lock EXCEPT ![c] = IF @ = "chat_task" THEN "free" ELSE @]
      /\ UNCHANGED <<sent, reads, dm>>
  BY DEF Abort
<1>2. <<>> \in Seq(Nat)
  OBVIOUS
<1>3. ChannelTypes'
  BY <1>0, <1>1, <1>2 DEF ChannelTypes
<1>4. SocketTypes'
  BY <1>0, <1>1 DEF SocketTypes
<1>5. next'[c] = 1 /\ task'[c] = "off" /\ heard'[c] = <<>> /\ since'[c] = 0
  BY <1>0, <1>1 DEF ChannelTypes
<1>6. Behind(c)' /\ CaughtUp(c)'
  BY <1>0, <1>1, <1>5 DEF Behind, CaughtUp
<1>7. \A d \in Conns \ {c} : Behind(d)' /\ CaughtUp(d)'
  BY <1>0, <1>1, Untouched DEF ChannelTypes
<1>8. QED
  BY <1>3, <1>4, <1>6, <1>7 DEF ReceiverInv

\* The handler: a connection without a user owes nothing, and one that gets a
\* user owes what is sent from then on.
LEMMA HandlerKeeps ==
  ASSUME ChatInv, NEW c \in Conns, Subscribe(c) \/ Session(c) \/ Dismiss(c), Auth!Handler(c), SessionFacts'
  PROVE  ChannelTypes' /\ SocketTypes' /\ ReceiverInv'
<1>0. /\ ChannelTypes /\ SocketTypes /\ ReceiverInv /\ Behind(c) /\ CaughtUp(c) /\ SessionFacts
      /\ sent \in Nat /\ next[c] \in Nat /\ since[c] \in Nat /\ heard[c] \in Seq(Nat)
  BY BroadcastsBounded DEF ChatInv, ReceiverInv, ChannelTypes
<1>1. \A d \in Conns \ {c} : userState'[d] = userState[d]
  BY <1>0, OwnUser
<1>2. CASE Subscribe(c)
  <2>1. /\ pc[c] = "closed" /\ next' = [next EXCEPT ![c] = sent + 1] /\ task' = [task EXCEPT ![c] = "recv"]
        /\ reads' = [reads EXCEPT ![c] = TRUE]
        /\ UNCHANGED <<sent, heard, lock, owed, since, dm, userState>>
    BY <1>2 DEF Subscribe, Goto, Auth!Connect, Auth!locals
  <2>2. userState[c] = None
    BY <1>0, <2>1 DEF SessionFacts, Proved!LocalInv
  <2>3. next'[c] = sent + 1 /\ task'[c] = "recv" /\ ChannelTypes' /\ SocketTypes'
    BY <1>0, <2>1 DEF ChannelTypes, SocketTypes
  <2>4. Behind(c)' /\ CaughtUp(c)'
    BY <1>0, <2>1, <2>2, <2>3 DEF Behind, CaughtUp
  <2>5. \A d \in Conns \ {c} : Behind(d)' /\ CaughtUp(d)'
    BY <1>0, <2>1, Untouched DEF ChannelTypes
  <2>6. QED
    BY <2>3, <2>4, <2>5 DEF ReceiverInv
<1>3. CASE Session(c) /\ Abort(c) /\ UNCHANGED owed
  BY <1>0, <1>1, <1>3, AbortKeeps DEF Session, SocketTypes
<1>4. CASE Session(c) /\ UNCHANGED <<receivers, lock, since>> /\ pc'[c] = "closed"
            /\ owed' = [owed EXCEPT ![c] = 2]
  <2>1. UNCHANGED <<sent, next, task, heard, reads, lock, since, dm>>
    BY <1>4 DEF Session, receivers
  <2>2. ChannelTypes' /\ SocketTypes'
    BY <1>0, <1>4, <2>1 DEF ChannelTypes, SocketTypes
  <2>3. userState'[c] = None
    BY <1>4 DEF SessionFacts, Proved!LocalInv
  <2>4. Behind(c)' /\ CaughtUp(c)'
    BY <1>0, <2>1, <2>3 DEF Behind, CaughtUp
  <2>5. \A d \in Conns \ {c} : Behind(d)' /\ CaughtUp(d)'
    BY <1>0, <1>1, <2>1, Untouched
  <2>6. QED
    BY <2>2, <2>4, <2>5 DEF ReceiverInv
<1>5. CASE Session(c) /\ pc'[c] # "closed"
  <2>1. /\ since' = [since EXCEPT ![c] = IF userState[c] = None /\ userState'[c] # None THEN sent ELSE @]
        /\ owed' = [owed EXCEPT ![c] = IF pc'[c] = "idle" THEN 1 ELSE 0]
        /\ UNCHANGED <<sent, next, task, heard, reads, lock, dm>>
    BY <1>5 DEF Session, receivers
  <2>2. since'[c] = IF userState[c] = None /\ userState'[c] # None THEN sent ELSE since[c]
    BY <1>0, <2>1 DEF ChannelTypes
  <2>3. ChannelTypes' /\ SocketTypes'
    BY <1>0, <2>1 DEF ChannelTypes, SocketTypes
  <2>4. Behind(c)'
    BY <1>0, <2>1, <2>2 DEF Behind
  <2>5. CaughtUp(c)'
    <3>1. CASE userState'[c] = None
      BY <3>1 DEF CaughtUp
    <3>2. CASE userState[c] = None /\ userState'[c] # None
      <4>1. Done(c)' \in Int /\ Done(c)' <= sent /\ since'[c] = sent
        BY <1>0, <2>1, <2>2, <3>2 DEF Done, Behind
      <4>2. \A k \in since'[c] + 1..Done(c)' : FALSE
        BY <1>0, <4>1
      <4>3. QED
        BY <4>2 DEF CaughtUp
    <3>3. CASE userState[c] # None /\ userState'[c] # None
      <4>1. since'[c] = since[c] /\ UNCHANGED <<sent, next, task, heard>>
        BY <2>1, <2>2, <3>3
      <4>2. QED
        BY <1>0, <3>3, <4>1 DEF CaughtUp, Done, Wrote
    <3>4. QED
      BY <3>1, <3>2, <3>3
  <2>6. \A d \in Conns \ {c} : Behind(d)' /\ CaughtUp(d)'
    BY <1>0, <1>1, <2>1, Untouched DEF ChannelTypes
  <2>7. QED
    BY <2>3, <2>4, <2>5, <2>6 DEF ReceiverInv
<1>6. CASE Dismiss(c)
  <2>1. /\ owed' = [owed EXCEPT ![c] = 2]
        /\ UNCHANGED <<sent, next, task, heard, reads, lock, since, dm, userState>>
    BY <1>6 DEF Dismiss, receivers, Auth!DisconnectOther, Auth!locals
  <2>2. ChannelTypes' /\ SocketTypes'
    BY <1>0, <2>1 DEF ChannelTypes, SocketTypes
  <2>3. \A d \in Conns : Behind(d)' /\ CaughtUp(d)'
    BY <1>0, <2>1, Untouched
  <2>4. QED
    BY <2>2, <2>3 DEF ReceiverInv
<1>7. QED
  BY <1>2, <1>3, <1>4, <1>5, <1>6 DEF Session

\* A frame the handler owed is written; the last one ends the task.
LEMMA WriteKeeps ==
  ASSUME ChatInv, NEW c \in Conns, Write(c)
  PROVE  ChannelTypes' /\ SocketTypes' /\ ReceiverInv'
<1>0. ChannelTypes /\ SocketTypes /\ ReceiverInv
  BY DEF ChatInv
<1>1. owed[c] > 0 /\ owed' = [owed EXCEPT ![c] = @ - 1] /\ UNCHANGED <<sent, reads, dm, userState>>
  BY DEF Write, access
<1>2. owed' \in [Conns -> 0..2]
  BY <1>0, <1>1 DEF SocketTypes
<1>3. CASE Abort(c)
  BY <1>1, <1>2, <1>3, AbortKeeps
<1>4. CASE UNCHANGED <<receivers, lock, since>>
  <2>1. ChannelTypes' /\ SocketTypes'
    BY <1>0, <1>1, <1>2, <1>4 DEF ChannelTypes, SocketTypes, receivers
  <2>2. \A d \in Conns : Behind(d)' /\ CaughtUp(d)'
    BY <1>0, <1>1, <1>4, Untouched DEF receivers
  <2>3. QED
    BY <2>1, <2>2 DEF ReceiverInv
<1>5. QED
  BY <1>3, <1>4 DEF Write

LEMMA ChatStep == ChatInv /\ [Next]_vars => ChatInv'
<1> SUFFICES ASSUME ChatInv, [Next]_vars
             PROVE  ChatInv'
  OBVIOUS
<1>1. SessionFacts'
  BY SessionsHold DEF ChatInv
<1>2. CASE UNCHANGED vars
  BY <1>1, <1>2, Untouched DEF vars, receivers, socket, access, ChatInv, ChannelTypes, SocketTypes, ReceiverInv
<1>3. ASSUME NEW c \in Conns, Subscribe(c) \/ Session(c) \/ Dismiss(c)
      PROVE  ChatInv'
  <2>1. Auth!Handler(c)
    BY <1>3, DismissIsQuit DEF Subscribe, Session, Auth!Handler, Auth!Enter
  <2>2. QED
    BY <1>1, <1>3, <2>1, HandlerKeeps DEF ChatInv
<1>4. QED
  BY <1>1, <1>2, <1>3, TaskKeeps, WriteKeeps, OperatorKeeps DEF Next, ChatInv

-----------------------------------------------------------------------------
\* The channel, its receivers and the operator keep their types: nothing is
\* received that was not sent.
THEOREM ChatTypeCorrect == Spec => []TypeOK
BY ChatInit, ChatStep, InvImpliesTypeOK, PTL DEF Spec

\* A connection that has caught up within Cap broadcasts of its login was sent
\* all of them, whatever its handler and the others did meanwhile.
THEOREM BroadcastsCatchUp == Spec => []CatchesUp
<1>1. ChatInv => CatchesUp
  <2> SUFFICES ASSUME ChatInv, NEW c \in Conns, task[c] = "recv", next[c] = sent + 1,
                      userState[c] # None, sent - since[c] <= Cap, NEW k \in since[c] + 1..sent
               PROVE  \E i \in DOMAIN heard[c] : heard[c][i] = k
    BY DEF CatchesUp
  <2>1. sent \in Nat /\ since[c] \in Nat /\ Done(c) = sent
    BY BroadcastsBounded DEF ChatInv, ChannelTypes, Done
  <2>2. QED
    BY <2>1 DEF ChatInv, ReceiverInv, CaughtUp, Wrote
<1>2. QED
  BY <1>1, ChatInit, ChatStep, PTL DEF Spec
=============================================================================
