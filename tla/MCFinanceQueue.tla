---------------------------- MODULE MCFinanceQueue ----------------------------
(* FinanceQueue with few workers and attempts.                                *)
EXTENDS FinanceQueue
=============================================================================
