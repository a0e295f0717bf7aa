---------------------------- MODULE MCCommandHooks ----------------------------
(* CommandHooks with interchangeable goroutines and commands. *)
EXTENDS CommandHooks, TLC

Symmetry == Permutations(Goroutines) \cup Permutations(Commands)
===============================================================================
