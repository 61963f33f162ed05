------------------------------ MODULE MCClient ------------------------------
(***************************************************************************)
(* A small instance of Client.tla: two accounts, two logins and two trips  *)
(* at most, queries that fail and a connection that breaks.                *)
(***************************************************************************)
EXTENDS Client
=============================================================================
