------------------------------- MODULE MCLayouts -------------------------------
(* TLC instances of Layouts: the .cfg files give the constants small values.    *)
EXTENDS Layouts, TLC
===============================================================================
