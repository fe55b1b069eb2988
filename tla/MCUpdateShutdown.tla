-------------------------- MODULE MCUpdateShutdown --------------------------
(* Model checking of UpdateShutdown: the bounds.                             *)
EXTENDS UpdateShutdown

MCWorkers == 2

=============================================================================
