------------------------------- MODULE Aftercare -------------------------------
(* What happens to orders once they are over: disputes, reprints, refunds and *)
(* legal holds (disputes.service.ts), and the refund's way through the        *)
(* aftercare queue and the payment provider (aftercare-queue.service.ts,      *)
(* commerce.service.ts). Every command is one transaction under the retention *)
(* lock and the order's. Ledger and Retention build on this module.           *)
EXTENDS Integers, SequencesExt

CONSTANTS
  Orders,
  Price,         \* Payment.amountMinor of every order
  MaxDisputes    \* bound: disputes of all orders together

ASSUME AftercareAssumption ==
  /\ IsFiniteSet(Orders)
  /\ Price \in Nat \ {0} /\ MaxDisputes \in Nat

VARIABLES
  order,      \* Order.status; PRODUCING for all that comes before its end
  cycles,     \* status of every ProductionCycle, in sequence
  dispute,    \* the latest DisputeCase
  hold,       \* kinds of LegalHolds that are not released
  payment,    \* Payment.status
  refunds     \* RefundOperations, in order of creation

caseVars == <<order, cycles, dispute, hold, payment, refunds>>

-----------------------------------------------------------------------------
Over == {"COMPLETED", "DELIVERY_FAILED"}
OrderStatus == Over \cup {"PRODUCING", "DISPUTED", "REPRINT", "REFUND_PENDING",
                          "PARTIALLY_REFUNDED", "REFUNDED"}
Refundable == {"SUCCEEDED", "PARTIALLY_REFUNDED"}
PaymentStatus == Refundable \cup {"REFUND_PENDING", "REFUNDED"}

\* from: openedFromStatus. sequence: how many disputes there were.
Dispute == [status : {"NONE", "OPEN", "PARTNER_RESPONDED", "CANCELLED",
                      "RESOLVED"},
            from : Over \cup {"NONE"},
            sequence : Nat]
NoDispute == [status |-> "NONE", from |-> "NONE", sequence |-> 0]

\* sent: the provider's reference is stored.
Refund == [amount : 1 .. Price, status : {"REQUESTED", "CONFIRMED"},
           sent : BOOLEAN]

CaseInit ==
  /\ order = [o \in Orders |-> "PRODUCING"]
  /\ cycles = [o \in Orders |-> <<"RUNNING">>]
  /\ dispute = [o \in Orders |-> NoDispute]
  /\ hold = [o \in Orders |-> {}]
  /\ payment = [o \in Orders |-> "SUCCEEDED"]
  /\ refunds = [o \in Orders |-> <<>>]

Active(o) == dispute[o].status \in {"OPEN", "PARTNER_RESPONDED"}

\* What rows S of a table come to.
Amounts(table, S) == SumFunction([i \in S |-> table[i].amount])

Confirmed(o) == {i \in DOMAIN refunds[o] : refunds[o][i].status = "CONFIRMED"}
Refunded(o) == Amounts(refunds[o], Confirmed(o))
\* Refunds that were only requested count as spent.
Spent(o) == Amounts(refunds[o], DOMAIN refunds[o])

-----------------------------------------------------------------------------
(* Production and delivery, as Printing and Handover have them in full.       *)

Ends(o, status, cycle) ==
  /\ order[o] \in {"PRODUCING", "REPRINT"}
  /\ order' = [order EXCEPT ![o] = status]
  /\ cycles' = [cycles EXCEPT ![o][Len(cycles[o])] = cycle]
  /\ UNCHANGED <<dispute, hold, payment, refunds>>

\* completeWithPin, and failDelivery.
Complete(o) == Ends(o, "COMPLETED", "COMPLETED")
FailDelivery(o) == Ends(o, "DELIVERY_FAILED", "FAILED")

-----------------------------------------------------------------------------
(* The customer, the partner and the administrator. The 72 hours in which a   *)
(* dispute may be opened are not counted.                                     *)

OpenedFrom(o) == order[o]

Disputes == SumFunction([o \in Orders |-> dispute[o].sequence])

OpenDispute(o) ==
  /\ order[o] \in Over /\ ~Active(o)
  /\ Disputes < MaxDisputes
  /\ dispute' = [dispute EXCEPT ![o] = [status |-> "OPEN", from |-> OpenedFrom(o),
                                        sequence |-> @.sequence + 1]]
  /\ order' = [order EXCEPT ![o] = "DISPUTED"]
  /\ hold' = [hold EXCEPT ![o] = @ \cup {"DISPUTE"}]
  /\ UNCHANGED <<cycles, payment, refunds>>

PartnerRespond(o) ==
  /\ dispute[o].status = "OPEN"
  /\ dispute' = [dispute EXCEPT ![o].status = "PARTNER_RESPONDED"]
  /\ UNCHANGED <<order, cycles, hold, payment, refunds>>

\* Mutant of Decided: the hold of the dispute is left behind.
DecidedHeld(o, status, next) ==
  /\ dispute' = [dispute EXCEPT ![o].status = status]
  /\ order' = [order EXCEPT ![o] = next]
  /\ hold' = hold

\* The end of every decision about a dispute.
Decided(o, status, next) ==
  /\ dispute' = [dispute EXCEPT ![o].status = status]
  /\ order' = [order EXCEPT ![o] = next]
  /\ hold' = [hold EXCEPT ![o] = @ \ {"DISPUTE"}]

CancelDispute(o) ==
  /\ dispute[o].status = "OPEN" /\ order[o] = "DISPUTED"
  /\ Decided(o, "CANCELLED", dispute[o].from)
  /\ UNCHANGED <<cycles, payment, refunds>>

ResolveNoAction(o) ==
  /\ Active(o) /\ order[o] = "DISPUTED"
  /\ Decided(o, "RESOLVED", dispute[o].from)
  /\ UNCHANGED <<cycles, payment, refunds>>

\* The partner and its branch can still produce the order.
ResolveReprint(o) ==
  /\ Active(o) /\ order[o] = "DISPUTED"
  /\ Decided(o, "RESOLVED", "REPRINT")
  /\ cycles' = [cycles EXCEPT ![o] = Append(@, "RUNNING")]
  /\ UNCHANGED <<payment, refunds>>

\* refundAmount: all that is left, or less.
RefundAmount(o, amount) == amount \in 1 .. Price - Spent(o)

ResolveRefund(o, amount) ==
  /\ Active(o) /\ order[o] = "DISPUTED"
  /\ payment[o] \in Refundable /\ RefundAmount(o, amount)
  /\ Decided(o, "RESOLVED", "REFUND_PENDING")
  /\ payment' = [payment EXCEPT ![o] = "REFUND_PENDING"]
  /\ refunds' = [refunds EXCEPT ![o] =
                   Append(@, [amount |-> amount, status |-> "REQUESTED",
                              sent |-> FALSE])]
  /\ UNCHANGED cycles

\* createHold and releaseHold, of the administrator's own holds.
CreateHold(o) ==
  /\ "MANUAL" \notin hold[o]
  /\ hold' = [hold EXCEPT ![o] = @ \cup {"MANUAL"}]
  /\ UNCHANGED <<order, cycles, dispute, payment, refunds>>

ReleaseHold(o) ==
  /\ "MANUAL" \in hold[o]
  /\ hold' = [hold EXCEPT ![o] = @ \ {"MANUAL"}]
  /\ UNCHANGED <<order, cycles, dispute, payment, refunds>>

-----------------------------------------------------------------------------
(* dispatchRefundOperation, under the refund's own key, and the provider's    *)
(* callback; a repeated one changes nothing.                                  *)

SendRefund(o, i) ==
  /\ i \in DOMAIN refunds[o] /\ ~refunds[o][i].sent
  /\ refunds' = [refunds EXCEPT ![o][i].sent = TRUE]
  /\ UNCHANGED <<order, cycles, dispute, hold, payment>>

FullyRefunded(o, i) == Refunded(o) + refunds[o][i].amount >= Price

ConfirmRefund(o, i) ==
  /\ i \in DOMAIN refunds[o] /\ refunds[o][i].sent
  /\ refunds[o][i].status # "CONFIRMED"
  /\ payment[o] = "REFUND_PENDING" /\ order[o] = "REFUND_PENDING"
  /\ LET status == IF FullyRefunded(o, i) THEN "REFUNDED"
                   ELSE "PARTIALLY_REFUNDED"
     IN /\ payment' = [payment EXCEPT ![o] = status]
        /\ order' = [order EXCEPT ![o] = status]
  /\ refunds' = [refunds EXCEPT ![o][i].status = "CONFIRMED"]
  /\ UNCHANGED <<cycles, dispute, hold>>

-----------------------------------------------------------------------------
CaseTypeOK ==
  /\ order \in [Orders -> OrderStatus]
  /\ \A o \in Orders :
       /\ \A c \in DOMAIN cycles[o] :
            cycles[o][c] \in {"RUNNING", "COMPLETED", "FAILED"}
       /\ \A i \in DOMAIN refunds[o] : refunds[o][i] \in Refund
  /\ dispute \in [Orders -> Dispute]
  /\ hold \in [Orders -> SUBSET {"DISPUTE", "MANUAL"}]
  /\ payment \in [Orders -> PaymentStatus]

\* Order, dispute, hold and payment tell one story: an order is DISPUTED while
\* its dispute is active and holds it, money is on its way back exactly while
\* both say so, and both know how much came back.
CasesAgree ==
  \A o \in Orders :
    /\ order[o] = "DISPUTED" <=> Active(o)
    /\ "DISPUTE" \in hold[o] <=> Active(o)
    /\ order[o] = "REFUND_PENDING" <=> payment[o] = "REFUND_PENDING"
    /\ order[o] = "REFUND_PENDING" <=>
         \E i \in DOMAIN refunds[o] : refunds[o][i].status # "CONFIRMED"
    /\ order[o] = "REFUNDED" <=> Refunded(o) = Price
    /\ Spent(o) <= Price
=============================================================================
