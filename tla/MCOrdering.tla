------------------------------ MODULE MCOrdering ------------------------------
(* One draft that is edited, and one that is ready for a basket.              *)
EXTENDS Ordering, TLC

CONSTANTS d2, u2

ItsFile == d2 :> u2
Alike == Permutations(Configs)
===============================================================================
