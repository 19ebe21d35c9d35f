-------------------------- MODULE MCDaemonLifecycle --------------------------
(* An instance of DaemonLifecycle for TLC. *)
EXTENDS DaemonLifecycle, TLC

CONSTANTS asker, operator

MCCommandsOf == (asker :> {"ask"}) @@ (operator :> {"stop", "restart"})
=============================================================================
