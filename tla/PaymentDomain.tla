--------------------------- MODULE PaymentDomain ---------------------------
(* The status vocabulary of a payment and the transition function that       *)
(* webhooks and reconciliation share (payment-domain.ts).                    *)

\* Attempts the partial unique index PaymentAttempt_one_unresolved counts.
Unresolved == {"CREATED", "PROCESSING", "UNKNOWN"}
Terminal == {"SUCCEEDED", "FAILED", "CANCELLED"}
AttemptStatus == Unresolved \cup Terminal

PaymentStatus ==
  {"PENDING", "PROCESSING", "UNKNOWN", "SUCCEEDED", "FAILED", "CANCELLED",
   "REFUND_PENDING", "REFUNDED"}

Observation == {"PROCESSING", "SUCCEEDED", "FAILED", "UNKNOWN", "CANCELLED"}

\* The observations each attempt status accepts as its next status.
Allowed ==
  [CREATED    |-> {"PROCESSING", "CANCELLED"},
   PROCESSING |-> {"PROCESSING", "SUCCEEDED", "FAILED", "UNKNOWN"},
   UNKNOWN    |-> Observation,
   SUCCEEDED  |-> {"SUCCEEDED"},
   FAILED     |-> {"FAILED"},
   CANCELLED  |-> {"CANCELLED"}]

\* Mutant of PaymentTransition: success does not dominate.
PaymentTransitionRegressing(current, observation) ==
  IF observation \in Allowed[current] THEN observation ELSE "UNKNOWN"

\* The status an observation gives an attempt. An attempt that succeeded stays
\* so; every observation its status does not allow makes it UNKNOWN. The code
\* gives the payment row the same status (paymentTransition returns both).
PaymentTransition(current, observation) ==
  IF current = "SUCCEEDED" THEN "SUCCEEDED"
  ELSE IF observation \in Allowed[current] THEN observation
  ELSE "UNKNOWN"
=============================================================================
