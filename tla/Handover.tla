------------------------------- MODULE Handover -------------------------------
(* The way of finished orders to their customers (fulfillment.service.ts):    *)
(* pickup or delivery with PINs, couriers that several orders compete for,    *)
(* and the worker that assigns them (fulfillment-queue.service.ts). A dispute *)
(* may send an order back to production, in a new cycle with a new            *)
(* fulfilment. Every transaction locks the order; what is read before it is   *)
(* modelled where the transaction does not read it again.                     *)
EXTENDS Naturals, FiniteSets

CONSTANTS
  Orders, Couriers,
  NoCourier,
  Disputed,      \* bound: orders that a dispute may send back to production
  MaxAttempts,   \* pickupPinMaxAttempts
  MaxCycles      \* bound: production cycles per order

ASSUME HandoverAssumption ==
  /\ NoCourier \notin Couriers
  /\ MaxAttempts \in Nat \ {0}
  /\ MaxCycles \in Nat \ {0}

VARIABLES
  order,        \* Order.status
  cycle,        \* sequence of the latest ProductionCycle
  fulfillment,  \* OrderFulfillment of every order and cycle
  delivery,     \* DeliveryTask of every order and cycle
  courier,      \* CourierProfile.status; LEAVING while it is being suspended
  found,        \* what runs of assignDelivery have read and not yet written
  inbox         \* DELIVERY_REQUESTED events that were handled: order and cycle

vars == <<order, cycle, fulfillment, delivery, courier, found, inbox>>

-----------------------------------------------------------------------------
Cycles == 1 .. MaxCycles
OrderStatus == {"READY", "AWAITING_PICKUP", "COURIER_ASSIGNED", "IN_DELIVERY",
                "COMPLETED", "DELIVERY_FAILED"}

\* expired: completionExpiresAt has passed. wrong, misses: the attempts made at
\* the completion PIN and at the handoff PIN.
Fulfillment ==
  [status : {"NONE", "AWAITING_HANDOFF", "IN_DELIVERY", "COMPLETED", "FAILED"},
   mode : {"PICKUP", "DELIVERY"},
   expired : BOOLEAN,
   wrong : 0 .. MaxAttempts,
   misses : 0 .. MaxAttempts]
NewFulfillment(mode) == [status |-> "AWAITING_HANDOFF", mode |-> mode,
                         expired |-> FALSE, wrong |-> 0, misses |-> 0]
NoFulfillment == [NewFulfillment("PICKUP") EXCEPT !.status = "NONE"]

\* A task is active until it is DELIVERED or FAILED.
Delivery == [status : {"NONE", "ASSIGNED", "IN_DELIVERY", "DELIVERED", "FAILED"},
             courier : Couriers \cup {NoCourier}]
NoDelivery == [status |-> "NONE", courier |-> NoCourier]

Init ==
  /\ order = [o \in Orders |-> "READY"]
  /\ cycle = [o \in Orders |-> 1]
  /\ fulfillment = [o \in Orders |-> [c \in Cycles |-> NoFulfillment]]
  /\ delivery = [o \in Orders |-> [c \in Cycles |-> NoDelivery]]
  /\ courier \in [Couriers -> {"PENDING", "APPROVED"}]
  /\ found = {}
  /\ inbox = {}

-----------------------------------------------------------------------------
Active(o, c) == delivery[o][c].status \in {"ASSIGNED", "IN_DELIVERY"}
Approved(r) == courier[r] \in {"APPROVED", "LEAVING"}
Free(r) ==
  \A o \in Orders, c \in Cycles : Active(o, c) => delivery[o][c].courier # r

Latest(o) == fulfillment[o][cycle[o]]

\* requestFulfillment and activateCommittedFulfillment: once per cycle, later
\* requests are answered from what the first one made.
RequestFulfillment(o, mode) ==
  /\ order[o] = "READY"
  /\ Latest(o) = NoFulfillment
  /\ order' = [order EXCEPT ![o] = "AWAITING_PICKUP"]
  /\ fulfillment' = [fulfillment EXCEPT ![o][cycle[o]] = NewFulfillment(mode)]
  /\ UNCHANGED <<cycle, delivery, courier, found, inbox>>

-----------------------------------------------------------------------------
(* assignDelivery, for the event of cycle e. A run may be stopped between its *)
(* two halves and run again, so several may be under way.                    *)

\* Mutant of FindCourier: nothing is read when no courier is free.
FindFreeCourier(o, e) ==
  /\ fulfillment[o][e].mode = "DELIVERY" /\ <<o, e>> \notin inbox
  /\ Latest(o).mode = "DELIVERY"
  /\ \E r \in Couriers :
       /\ Approved(r) /\ Free(r)
       /\ found' = found \cup {[order |-> o, event |-> e, cycle |-> cycle[o],
                                courier |-> r]}
  /\ UNCHANGED <<order, cycle, fulfillment, delivery, courier, inbox>>

\* It reads the newest fulfilment and the oldest of the free couriers of the
\* zone, which may be any, and then calls the provider.
FindCourier(o, e) ==
  /\ fulfillment[o][e].mode = "DELIVERY" /\ <<o, e>> \notin inbox
  /\ Latest(o).mode = "DELIVERY"
  /\ LET free == {r \in Couriers : Approved(r) /\ Free(r)}
     IN \E r \in IF free = {} THEN {NoCourier} ELSE free :
          found' = found \cup {[order |-> o, event |-> e, cycle |-> cycle[o],
                                courier |-> r]}
  /\ UNCHANGED <<order, cycle, fulfillment, delivery, courier, inbox>>

\* Mutant of Assignable: the courier is not read again.
AssignableUnseen(f) ==
  /\ <<f.order, f.event>> \notin inbox
  /\ order[f.order] = "AWAITING_PICKUP" /\ cycle[f.order] = f.cycle

\* The courier and the order are locked and read again.
Assignable(f) ==
  /\ <<f.order, f.event>> \notin inbox
  /\ Approved(f.courier) /\ Free(f.courier)
  /\ order[f.order] = "AWAITING_PICKUP" /\ cycle[f.order] = f.cycle

AssignCourier(f) ==
  /\ f.courier # NoCourier /\ Assignable(f)
  /\ delivery' = [delivery EXCEPT ![f.order][f.cycle] =
                    [status |-> "ASSIGNED", courier |-> f.courier]]
  /\ order' = [order EXCEPT ![f.order] = "COURIER_ASSIGNED"]
  /\ inbox' = inbox \cup {<<f.order, f.event>>}
  /\ found' = found \ {f}
  /\ UNCHANGED <<cycle, fulfillment, courier>>

\* failNoCourier; it does not look at the cycle again.
FailNoCourier(f) ==
  /\ f.courier = NoCourier
  /\ <<f.order, f.event>> \notin inbox /\ order[f.order] = "AWAITING_PICKUP"
  /\ order' = [order EXCEPT ![f.order] = "DELIVERY_FAILED"]
  /\ fulfillment' = [fulfillment EXCEPT ![f.order][f.cycle].status = "FAILED"]
  /\ inbox' = inbox \cup {<<f.order, f.event>>}
  /\ found' = found \ {f}
  /\ UNCHANGED <<cycle, delivery, courier>>

\* The transaction is refused, or the worker stopped before it; the queue runs
\* the job again.
AssignmentDropped(f) ==
  /\ found' = found \ {f}
  /\ UNCHANGED <<order, cycle, fulfillment, delivery, courier, inbox>>

-----------------------------------------------------------------------------
(* PINs. A PIN of an earlier cycle is one wrong PIN among others.            *)

\* handoffDelivery, by the partner.
HandoffDelivery(o, c, right) ==
  /\ order[o] = "COURIER_ASSIGNED" /\ delivery[o][c].status = "ASSIGNED"
  /\ fulfillment[o][c].misses < MaxAttempts
  /\ IF right
     THEN /\ order' = [order EXCEPT ![o] = "IN_DELIVERY"]
          /\ delivery' = [delivery EXCEPT ![o][c].status = "IN_DELIVERY"]
          /\ fulfillment' = [fulfillment EXCEPT ![o][c].status = "IN_DELIVERY"]
     ELSE /\ fulfillment' = [fulfillment EXCEPT ![o][c].misses = @ + 1]
          /\ UNCHANGED <<order, delivery>>
  /\ UNCHANGED <<cycle, courier, found, inbox>>

PinOpen(o) ==
  /\ Latest(o).status # "COMPLETED"
  /\ ~Latest(o).expired /\ Latest(o).wrong < MaxAttempts

\* completeWithPin; table holds the deliveries after a right PIN.
CompleteWithPin(o, right, table) ==
  /\ PinOpen(o)
  /\ IF right
     THEN /\ order' = [order EXCEPT ![o] = "COMPLETED"]
          /\ fulfillment' =
               [fulfillment EXCEPT ![o][cycle[o]].status = "COMPLETED"]
          /\ delivery' = table
     ELSE /\ fulfillment' = [fulfillment EXCEPT ![o][cycle[o]].wrong = @ + 1]
          /\ UNCHANGED <<order, delivery>>
  /\ UNCHANGED <<cycle, courier, found, inbox>>

\* completePickup, at the partner.
CompletePickup(o, right) ==
  /\ order[o] = "AWAITING_PICKUP" /\ Latest(o).mode = "PICKUP"
  /\ CompleteWithPin(o, right, delivery)

\* completeDelivery, by its courier; c is the newest task of the order.
CompleteDelivery(o, c, right) ==
  /\ delivery[o][c] # NoDelivery /\ Approved(delivery[o][c].courier)
  /\ \A k \in Cycles : delivery[o][k] # NoDelivery => k <= c
  /\ order[o] = "IN_DELIVERY" /\ Latest(o).mode = "DELIVERY"
  /\ CompleteWithPin(o, right, [delivery EXCEPT ![o][c].status = "DELIVERED"])

\* Mutant of FailDelivery: the task stays active.
FailDeliveryActive(o, c) ==
  /\ Active(o, c) /\ Approved(delivery[o][c].courier)
  /\ order[o] \in {"COURIER_ASSIGNED", "IN_DELIVERY"}
  /\ order' = [order EXCEPT ![o] = "DELIVERY_FAILED"]
  /\ fulfillment' = [fulfillment EXCEPT ![o][c].status = "FAILED"]
  /\ UNCHANGED <<cycle, delivery, courier, found, inbox>>

FailDelivery(o, c) ==
  /\ Active(o, c) /\ Approved(delivery[o][c].courier)
  /\ order[o] \in {"COURIER_ASSIGNED", "IN_DELIVERY"}
  /\ order' = [order EXCEPT ![o] = "DELIVERY_FAILED"]
  /\ fulfillment' = [fulfillment EXCEPT ![o][c].status = "FAILED"]
  /\ delivery' = [delivery EXCEPT ![o][c].status = "FAILED"]
  /\ UNCHANGED <<cycle, courier, found, inbox>>

PinExpires(o) ==
  /\ Latest(o).status \in {"AWAITING_HANDOFF", "IN_DELIVERY"}
  /\ ~Latest(o).expired
  /\ fulfillment' = [fulfillment EXCEPT ![o][cycle[o]].expired = TRUE]
  /\ UNCHANGED <<order, cycle, delivery, courier, found, inbox>>

-----------------------------------------------------------------------------
(* Couriers, and disputes.                                                   *)

CourierBecomes(r, from, to) ==
  /\ courier[r] = from
  /\ courier' = [courier EXCEPT ![r] = to]
  /\ UNCHANGED <<order, cycle, fulfillment, delivery, found, inbox>>

ApproveCourier(r) == CourierBecomes(r, "PENDING", "APPROVED")

\* suspendCourier reads the deliveries and then writes, in no transaction: the
\* courier may be given a delivery between the two.
SuspendAsked(r) == Free(r) /\ CourierBecomes(r, "APPROVED", "LEAVING")
Suspended(r) == CourierBecomes(r, "LEAVING", "SUSPENDED")

\* A dispute over an order that is over is decided with REPRINT, and the order
\* is produced again up to READY: nothing here happens to it meanwhile.
Reprint(o) ==
  /\ o \in Disputed /\ cycle[o] < MaxCycles
  /\ order[o] \in {"COMPLETED", "DELIVERY_FAILED"}
  /\ order' = [order EXCEPT ![o] = "READY"]
  /\ cycle' = [cycle EXCEPT ![o] = @ + 1]
  /\ UNCHANGED <<fulfillment, delivery, courier, found, inbox>>

-----------------------------------------------------------------------------
WorkerWrites(o) ==
  \E f \in found : f.order = o /\ (AssignCourier(f) \/ FailNoCourier(f))

OrderStep(o) ==
  \/ \E mode \in {"PICKUP", "DELIVERY"} : RequestFulfillment(o, mode)
  \/ \E e \in Cycles : FindCourier(o, e)
  \/ WorkerWrites(o)
  \/ \E right \in BOOLEAN :
       \/ CompletePickup(o, right)
       \/ \E c \in Cycles : \/ HandoffDelivery(o, c, right)
                            \/ CompleteDelivery(o, c, right)
  \/ \E c \in Cycles : FailDelivery(o, c)
  \/ PinExpires(o) \/ Reprint(o)

Next ==
  \/ \E o \in Orders : OrderStep(o)
  \/ \E f \in found : AssignmentDropped(f)
  \/ \E r \in Couriers : ApproveCourier(r) \/ SuspendAsked(r) \/ Suspended(r)

Spec == Init /\ [][Next]_vars

TypeOK ==
  /\ order \in [Orders -> OrderStatus]
  /\ cycle \in [Orders -> Cycles]
  /\ fulfillment \in [Orders -> [Cycles -> Fulfillment]]
  /\ delivery \in [Orders -> [Cycles -> Delivery]]
  /\ courier \in [Couriers -> {"PENDING", "APPROVED", "LEAVING", "SUSPENDED"}]
  /\ found \subseteq [order : Orders, event : Cycles, cycle : Cycles,
                      courier : Couriers \cup {NoCourier}]
  /\ inbox \subseteq Orders \X Cycles

\* The three tables tell one story: an order's status says which rows its latest
\* cycle has, and of an earlier cycle, which a dispute closed, nothing is open:
\* no PIN, no task and no late run of the worker brings it back.
RowsAgree ==
  /\ TypeOK
  /\ \A o \in Orders :
       LET f == Latest(o).status
           d == delivery[o][cycle[o]].status
       IN CASE order[o] = "READY" -> f = "NONE" /\ d = "NONE"
            [] order[o] = "AWAITING_PICKUP" -> f = "AWAITING_HANDOFF" /\ d = "NONE"
            [] order[o] = "COURIER_ASSIGNED" ->
                 f = "AWAITING_HANDOFF" /\ d = "ASSIGNED"
            [] order[o] = "IN_DELIVERY" -> f = "IN_DELIVERY" /\ d = "IN_DELIVERY"
            [] order[o] = "COMPLETED" ->
                 f = "COMPLETED" /\ d \in {"NONE", "DELIVERED"}
            [] OTHER -> f = "FAILED" /\ d \in {"NONE", "FAILED"}
  /\ \A o \in Orders, c \in Cycles :
       /\ c # cycle[o] => ~Active(o, c)
       /\ c < cycle[o] => fulfillment[o][c].status \in {"COMPLETED", "FAILED"}

\* A courier carries one order at a time, although several runs may have found
\* the same courier free.
OneOrderPerCourier ==
  \A o, p \in Orders, c, d \in Cycles :
    Active(o, c) /\ Active(p, d)
      /\ delivery[o][c].courier = delivery[p][d].courier => o = p /\ c = d

\* The queue's worker runs again and again, and one of its runs gets through.
\* Users, partners and couriers owe nothing.
Fairness ==
  \A o \in Orders :
    /\ \A e \in Cycles : WF_vars(FindCourier(o, e))
    /\ SF_vars(WorkerWrites(o))
FairSpec == Spec /\ Fairness

\* An order to be delivered does not wait forever: it gets a courier, or fails.
RequestAnswered ==
  \A o \in Orders :
    order[o] = "AWAITING_PICKUP" /\ Latest(o).mode = "DELIVERY"
      ~> order[o] \in {"COURIER_ASSIGNED", "DELIVERY_FAILED"}
=============================================================================
