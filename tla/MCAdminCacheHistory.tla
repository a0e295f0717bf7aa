-------------------------- MODULE MCAdminCacheHistory --------------------------
(* AdminCacheHistory with its requests on two nodes. *)
EXTENDS AdminCacheHistory, TLC

CONSTANTS p1, p2, n1, n2

TwoNodes == (p1 :> n1) @@ (p2 :> n2)
===============================================================================
