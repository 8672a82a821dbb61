---------------------------- MODULE MCSessionLog ----------------------------
(***************************************************************************)
(* A small instance of SessionLog whose failed writes may be partial.      *)
(***************************************************************************)
EXTENDS SessionLog
=============================================================================
