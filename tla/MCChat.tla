------------------------------- MODULE MCChat -------------------------------
(***************************************************************************)
(* A small instance of Chat.tla: one connection of two users, one after    *)
(* the other, and twice as many broadcasts as the channel keeps.           *)
(***************************************************************************)
EXTENDS Chat
=============================================================================
