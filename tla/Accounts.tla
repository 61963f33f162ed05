------------------------------ MODULE Accounts ------------------------------
(***************************************************************************)
(* What the session layer of the server promises, and nothing else.        *)
(*                                                                         *)
(* An account has at most one holder, the connection that won it.  Only a  *)
(* holder acts under the account's name, nobody is admitted while there is *)
(* a holder, and an account is never taken from a connection that is in    *)
(* the middle of acting under it.  A restart of the server is the one      *)
(* event that takes everything from everybody.                             *)
(*                                                                         *)
(* Sessions.tla is shown to implement this module.                         *)
(***************************************************************************)
CONSTANTS Users,   \* accounts
          Conns,   \* connections
          None     \* nobody

VARIABLES holder,  \* who holds each account
          acting   \* the account under which a connection is acting now

vars == <<holder, acting>>

Init == /\ holder = [u \in Users |-> None]
        /\ acting = [c \in Conns |-> None]

\* An idle connection wins a free account.
Admit(c, u) == /\ acting[c] = None
               /\ holder[u] = None
               /\ holder' = [holder EXCEPT ![u] = c]
               /\ UNCHANGED acting

\* The holder starts a request under the account's name ...
Act(c, u) == /\ acting[c] = None
             /\ holder[u] = c
             /\ acting' = [acting EXCEPT ![c] = u]
             /\ UNCHANGED holder

\* ... and completes it.
Complete(c) == /\ acting[c] # None
               /\ acting' = [acting EXCEPT ![c] = None]
               /\ UNCHANGED holder

\* The account becomes free again, never under a request.
Release(u) == /\ holder[u] # None
              /\ acting[holder[u]] = None
              /\ holder' = [holder EXCEPT ![u] = None]
              /\ UNCHANGED acting

Restart == /\ holder' = [u \in Users |-> None]
           /\ acting' = [c \in Conns |-> None]

Next == \/ \E c \in Conns, u \in Users : Admit(c, u) \/ Act(c, u)
        \/ \E c \in Conns : Complete(c)
        \/ \E u \in Users : Release(u)
        \/ Restart

Spec == Init /\ [][Next]_vars
=============================================================================
