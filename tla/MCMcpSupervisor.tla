-------------------------- MODULE MCMcpSupervisor --------------------------
(***************************************************************************)
(* Two starts and two stops that may overlap, three faults and a limit of  *)
(* one automatic restart.                                                  *)
(***************************************************************************)
EXTENDS McpSupervisor
=============================================================================
