------------------------------ MODULE MCRetention ------------------------------
(* Retention for two orders that share a layout.                              *)
EXTENDS Retention

CONSTANTS o1, o2, l1, l2

\* Two orders of one layout, of which the first prints another one too.
SameLayout == (o1 :> l1) @@ (o2 :> l1)
TwoItems == (o1 :> {l1, l2}) @@ (o2 :> {l1})
=============================================================================
