------------------------------ MODULE MCHandover ------------------------------
(* Handover for small sets of orders and couriers.                            *)
EXTENDS Handover
=============================================================================
