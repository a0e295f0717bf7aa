------------------------------ MODULE MCAdminCache ------------------------------
(* AdminCache with its requests on one node. *)
EXTENDS AdminCache, TLC

CONSTANTS p1, p2, n1, n2

OneNode == (p1 :> n1) @@ (p2 :> n1)
===============================================================================
