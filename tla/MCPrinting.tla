------------------------------ MODULE MCPrinting ------------------------------
(* Printing for small sets of items and agents.                               *)
EXTENDS Printing
=============================================================================
