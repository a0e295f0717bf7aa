------------------------------- MODULE MCLruList -------------------------------
(* LruList on the list left by Sets of e3, e2 and e1, in this order.           *)
EXTENDS LruList

CONSTANTS e1, e2, e3
Three == <<e1, e2, e3>>
===============================================================================
