-------------------------- MODULE WpaControllerMC ---------------------------
(* WpaController with process numbers that are as good as one another.        *)
EXTENDS WpaController

Symmetry == Permutations(Pids)
=============================================================================
