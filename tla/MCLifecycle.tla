------------------------------ MODULE MCLifecycle ------------------------------
(* One instance of the service and its registry, on small bounds. *)
EXTENDS Lifecycle
===============================================================================
