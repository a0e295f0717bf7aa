------------------------------ MODULE MCStressTest ------------------------------
(* StressTest with interchangeable workers.                                    *)
EXTENDS StressTest, TLC

Symmetry == Permutations(Workers)
===============================================================================
