----------------------------- MODULE MC_CowImage -----------------------------
(* Three sectors whose bits share one bitmap byte, two coroutines, one    *)
(* value of guest data, one I/O error and one crash.                      *)
EXTENDS CowImage, TLC
CONSTANTS r1, r2
MC_Reqs == {r1, r2}
MC_Symmetry == Permutations(MC_Reqs)
=============================================================================
