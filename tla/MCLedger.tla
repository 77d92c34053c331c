------------------------------- MODULE MCLedger -------------------------------
(* Ledger for a few orders and batches. Workers, requests and reconciliations *)
(* are alike, and no liveness is checked of it.                               *)
EXTENDS Ledger, TLC

Symmetry ==
  Permutations(Runners) \cup Permutations(Requests) \cup Permutations(Reviewers)
=============================================================================
