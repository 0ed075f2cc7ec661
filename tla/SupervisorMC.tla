---------------------------- MODULE SupervisorMC ----------------------------
(* Instances of Supervisor for TLC. *)
EXTENDS Supervisor

CONSTANTS task, operator
=============================================================================
