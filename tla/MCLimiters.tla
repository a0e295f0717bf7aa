------------------------------ MODULE MCLimiters ------------------------------
(* Limiters for five requests: all of one address, by a header or by where they  *)
(* come from, but the last; two of one user, the others of none.                 *)
EXTENDS Limiters

CONSTANTS a, b, u

Requested(forwarded, real, user) ==
    [h \in HeaderNames |-> CASE h = "X-Forwarded-For" -> forwarded
                             [] h = "X-Real-IP" -> real
                             [] OTHER -> user]

Headers == [r \in Requests |-> CASE r = 1 -> Requested(a, b, Blank)
                                 [] r = 2 -> Requested(Blank, a, u)
                                 [] r = 5 -> Requested(Blank, b, u)
                                 [] OTHER -> Requested(Blank, Blank, Blank)]

Addresses == [r \in Requests |-> [ip |-> a, port |-> r]]
===============================================================================
