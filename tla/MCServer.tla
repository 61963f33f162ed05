------------------------------ MODULE MCServer ------------------------------
(***************************************************************************)
(* Small instances of Server.tla: two users on two connections, with one   *)
(* trip and every fault, or with two trips and no failing query.           *)
(***************************************************************************)
EXTENDS Server
=============================================================================
