----------------------------- MODULE MCPayment -----------------------------
(* TLC instances of Payment: the .cfg files give the constants small values. *)
EXTENDS Payment, TLC
=============================================================================
