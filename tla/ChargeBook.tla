----------------------------- MODULE ChargeBook -----------------------------
(* What the payment of an order promises: a charge is booked as successful   *)
(* only once the provider has taken its money, a booking is never withdrawn, *)
(* and the order is in production only while some charge is booked.          *)
EXTENDS Naturals

CONSTANT Charges

VARIABLES
  captured,    \* charges the provider has taken the money of
  booked,      \* charges whose attempt counts as SUCCEEDED
  producing    \* the order has left AWAITING_PAYMENT

Init == captured = {} /\ booked = {} /\ producing = FALSE

Capture(c) ==
  /\ captured' = captured \cup {c}
  /\ UNCHANGED <<booked, producing>>

\* A charge is booked, and with it the order may go into production.
Book(c) ==
  /\ c \in captured
  /\ booked' = booked \cup {c}
  /\ producing' \in {producing, TRUE}
  /\ UNCHANGED captured

Produce ==
  /\ booked # {}
  /\ producing' = TRUE
  /\ UNCHANGED <<captured, booked>>

Suspend ==
  /\ producing' = FALSE
  /\ UNCHANGED <<captured, booked>>

Next ==
  \/ \E c \in Charges : Capture(c) \/ Book(c)
  \/ Produce \/ Suspend

Spec == Init /\ [][Next]_<<captured, booked, producing>>
=============================================================================
