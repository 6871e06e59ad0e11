---------------------------- MODULE MCGeneration ----------------------------
(* Generation and its promise on small instances. *)
EXTENDS GenerationPromise, TLC

(* Executors and generations are interchangeable. *)
Symmetry == Permutations(Generations) \cup Permutations(Executors)
=============================================================================
