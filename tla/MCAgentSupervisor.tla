------------------------- MODULE MCAgentSupervisor -------------------------
(***************************************************************************)
(* One request, one restart for the tools, two faults and a limit          *)
(* of one automatic restart, so that every state of the supervisor occurs. *)
(***************************************************************************)
EXTENDS AgentSupervisor

CONSTANT c1
=============================================================================
