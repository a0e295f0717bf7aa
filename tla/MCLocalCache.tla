------------------------------ MODULE MCLocalCache ------------------------------
(* LocalCache with interchangeable goroutines, keys, values and allocations.   *)
EXTENDS LocalCache

Symmetry == Permutations(Threads) \cup Permutations(Keys) \cup Permutations(Elements)
===============================================================================
