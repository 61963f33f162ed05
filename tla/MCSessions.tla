----------------------------- MODULE MCSessions -----------------------------
(***************************************************************************)
(* Small instances of Sessions.tla: two users on two connections.          *)
(***************************************************************************)
EXTENDS Sessions
=============================================================================
