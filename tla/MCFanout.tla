------------------------------ MODULE MCFanout ------------------------------
(***************************************************************************)
(* One conversation and one socket whose two attaches may overlap; other   *)
(* sockets share only the log with it, and other conversations only cause  *)
(* the eviction of the log.                                                *)
(***************************************************************************)
EXTENDS Fanout

CONSTANT p1
=============================================================================
