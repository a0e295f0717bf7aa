------------------------------ MODULE MCPipeline ------------------------------
(* Requests, addresses and users for TLC. *)
EXTENDS Pipeline

CONSTANTS r1, r2, a1, u1

OneAddress == [r \in Requests |-> a1]
MixedRoutes == (r1 :> {"admin", "profile"}) @@ (r2 :> {"admin", "login", "none"})
OneUser == [r \in Requests |-> u1]
===============================================================================
