-------------------------------- MODULE Tender --------------------------------
(* What matching promises, without capacity, versions, time or refunds: an    *)
(* order is tendered to one branch after another, to no branch twice, until   *)
(* one of them takes it or the tender is closed for good.                     *)
CONSTANTS Orders, Branches

VARIABLES
  phase,    \* of the tender of each order
  asked,    \* the branches that were ever asked
  asking    \* the branches whose answer is awaited

vars == <<phase, asked, asking>>

Init ==
  /\ phase = [o \in Orders |-> "NEW"]
  /\ asked = [o \in Orders |-> {}]
  /\ asking = [o \in Orders |-> {}]

\* The first tender, or the next one once the branch that was asked declined.
Ask(o, b) ==
  /\ \/ phase[o] = "NEW"
     \/ phase[o] = "OPEN" /\ asking[o] # {}
  /\ b \notin asked[o]
  /\ phase' = [phase EXCEPT ![o] = "OPEN"]
  /\ asked' = [asked EXCEPT ![o] = @ \cup {b}]
  /\ asking' = [asking EXCEPT ![o] = {b}]

Take(o, b) ==
  /\ phase[o] = "OPEN" /\ asking[o] = {b}
  /\ phase' = [phase EXCEPT ![o] = "TAKEN"]
  /\ asking' = [asking EXCEPT ![o] = {}]
  /\ UNCHANGED asked

Close(o) ==
  /\ \/ phase[o] = "NEW"
     \/ phase[o] = "OPEN" /\ asking[o] # {}
  /\ phase' = [phase EXCEPT ![o] = "CLOSED"]
  /\ asking' = [asking EXCEPT ![o] = {}]
  /\ UNCHANGED asked

Next ==
  \E o \in Orders : Close(o) \/ \E b \in Branches : Ask(o, b) \/ Take(o, b)

Spec == Init /\ [][Next]_vars
=============================================================================
