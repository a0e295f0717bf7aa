---------------------------- MODULE MCLoadBalancer ----------------------------
(* LoadBalancer on three values: one plain, one of weight 2, one of weight 0. *)
EXTENDS LoadBalancer

Weights == [a \in Addresses |-> CASE a = 1 -> 1 [] a = 2 -> 2 [] OTHER -> 0]
===============================================================================
