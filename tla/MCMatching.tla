------------------------------ MODULE MCMatching ------------------------------
(* Matching on small sets of orders and branches.                             *)
EXTENDS Matching
=============================================================================
