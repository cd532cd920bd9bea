-------------------------- MODULE MCManagerLifecycle --------------------------
(* Two requests, and two attempts to connect at the start and in the loop. *)
EXTENDS ManagerLifecycle

CONSTANTS m1, m2

=============================================================================
