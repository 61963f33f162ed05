----------------------------- MODULE MCBrowser ------------------------------
(***************************************************************************)
(* A small instance of Browser.tla.                                        *)
(***************************************************************************)
EXTENDS Browser
=============================================================================
