---------------------------- MODULE HandoverProofs ----------------------------
(* What holds of Handover for any orders, couriers, numbers of PIN attempts  *)
(* and of reprints.                                                          *)
EXTENDS Handover, TLAPS

-----------------------------------------------------------------------------
(* The inductive invariant, order by order.                                  *)

\* What the status of an order says of the rows of its latest cycle.
StatusTells(o) ==
  LET f == fulfillment[o][cycle[o]].status
      d == delivery[o][cycle[o]].status
  IN /\ order[o] = "READY" => f = "NONE" /\ d = "NONE"
     /\ order[o] = "AWAITING_PICKUP" => f = "AWAITING_HANDOFF" /\ d = "NONE"
     /\ order[o] = "COURIER_ASSIGNED" => f = "AWAITING_HANDOFF" /\ d = "ASSIGNED"
     /\ order[o] = "IN_DELIVERY" => f = "IN_DELIVERY" /\ d = "IN_DELIVERY"
     /\ order[o] = "COMPLETED" => f = "COMPLETED" /\ d \in {"NONE", "DELIVERED"}
     /\ order[o] = "DELIVERY_FAILED" => f = "FAILED" /\ d \in {"NONE", "FAILED"}

\* Earlier cycles are over, and of later ones there is nothing yet.
CyclesApart(o) ==
  \A c \in Cycles :
    /\ c < cycle[o] => /\ ~Active(o, c)
                       /\ fulfillment[o][c].status \in {"COMPLETED", "FAILED"}
    /\ cycle[o] < c => delivery[o][c] = NoDelivery
    /\ cycle[o] < c \/ (c = cycle[o] /\ order[o] = "READY")
         => fulfillment[o][c].mode = "PICKUP"
    /\ cycle[o] < c => fulfillment[o][c] = NoFulfillment

\* A request for delivery is open only while its order waits in its own cycle:
\* the event of an earlier cycle was handled before that cycle was over.
RequestsHandled(o) ==
  \A c \in Cycles :
    /\ fulfillment[o][c].mode = "DELIVERY"
    /\ c < cycle[o] \/ order[o] # "AWAITING_PICKUP"
    => <<o, c>> \in inbox

Local(o) == StatusTells(o) /\ CyclesApart(o) /\ RequestsHandled(o)

\* A run found what it found in its event's cycle or a later one, which has come.
FindingsArePast ==
  \A f \in found :
    /\ f.event <= f.cycle /\ f.cycle <= cycle[f.order]
    /\ fulfillment[f.order][f.event].mode = "DELIVERY"

IInv ==
  /\ TypeOK
  /\ \A o \in Orders : Local(o)
  /\ FindingsArePast
  /\ OneOrderPerCourier

-----------------------------------------------------------------------------
(* The two tables.                                                           *)

\* Only the row of order o and cycle c is another.
OnlyRow(table, new, o, c) ==
  \A q \in Orders, d \in Cycles : (q # o \/ d # c) => new[q][d] = table[q][d]

LEMMA FulfillmentStatusWritten ==
  ASSUME TypeOK, NEW o \in Orders, NEW c \in Cycles,
         NEW s \in {"IN_DELIVERY", "COMPLETED", "FAILED"},
         fulfillment' = [fulfillment EXCEPT ![o][c].status = s]
  PROVE  /\ fulfillment' \in [Orders -> [Cycles -> Fulfillment]]
         /\ OnlyRow(fulfillment, fulfillment', o, c)
         /\ fulfillment'[o][c].status = s
         /\ fulfillment'[o][c].mode = fulfillment[o][c].mode
<1> DEFINE row == [fulfillment[o][c] EXCEPT !.status = s]
<1>1. fulfillment \in [Orders -> [Cycles -> Fulfillment]]
      /\ fulfillment[o][c] \in Fulfillment
  BY DEF TypeOK
<1>2. row \in Fulfillment /\ row.status = s /\ row.mode = fulfillment[o][c].mode
  BY <1>1 DEF Fulfillment
<1>3. fulfillment' = [fulfillment EXCEPT ![o][c] = row]
  OBVIOUS
<1> HIDE DEF row
<1> QED BY <1>1, <1>2, <1>3 DEF OnlyRow

\* A wrong PIN is counted, or a PIN expires: the status of the row stays.
LEMMA FulfillmentCounted ==
  ASSUME TypeOK, NEW o \in Orders, NEW c \in Cycles,
         \/ /\ fulfillment[o][c].misses < MaxAttempts
            /\ fulfillment' = [fulfillment EXCEPT ![o][c].misses = @ + 1]
         \/ /\ fulfillment[o][c].wrong < MaxAttempts
            /\ fulfillment' = [fulfillment EXCEPT ![o][c].wrong = @ + 1]
         \/ fulfillment' = [fulfillment EXCEPT ![o][c].expired = TRUE]
  PROVE  /\ fulfillment' \in [Orders -> [Cycles -> Fulfillment]]
         /\ OnlyRow(fulfillment, fulfillment', o, c)
         /\ fulfillment'[o][c].status = fulfillment[o][c].status
         /\ fulfillment'[o][c].mode = fulfillment[o][c].mode
<1> DEFINE old == fulfillment[o][c]
           missed == [old EXCEPT !.misses = old.misses + 1]
           wronged == [old EXCEPT !.wrong = old.wrong + 1]
           over == [old EXCEPT !.expired = TRUE]
<1>1. fulfillment \in [Orders -> [Cycles -> Fulfillment]] /\ old \in Fulfillment
  BY DEF TypeOK
<1>2. PICK row \in Fulfillment : /\ row.status = old.status /\ row.mode = old.mode
                                 /\ fulfillment' = [fulfillment EXCEPT ![o][c] = row]
  <2>1. CASE /\ fulfillment[o][c].misses < MaxAttempts
             /\ fulfillment' = [fulfillment EXCEPT ![o][c].misses = @ + 1]
    <3>0. old.misses \in 0 .. MaxAttempts /\ old.misses + 1 \in 0 .. MaxAttempts
      BY <1>1, <2>1, HandoverAssumption DEF Fulfillment
    <3>1. missed \in Fulfillment /\ missed.status = old.status /\ missed.mode = old.mode
      BY <1>1, <3>0 DEF Fulfillment
    <3>2. fulfillment' = [fulfillment EXCEPT ![o][c] = missed]
      BY <2>1
    <3> QED BY <3>1, <3>2
  <2>2. CASE /\ fulfillment[o][c].wrong < MaxAttempts
             /\ fulfillment' = [fulfillment EXCEPT ![o][c].wrong = @ + 1]
    <3>0. old.wrong \in 0 .. MaxAttempts /\ old.wrong + 1 \in 0 .. MaxAttempts
      BY <1>1, <2>2, HandoverAssumption DEF Fulfillment
    <3>1. wronged \in Fulfillment /\ wronged.status = old.status /\ wronged.mode = old.mode
      BY <1>1, <3>0 DEF Fulfillment
    <3>2. fulfillment' = [fulfillment EXCEPT ![o][c] = wronged]
      BY <2>2
    <3> QED BY <3>1, <3>2
  <2>3. CASE fulfillment' = [fulfillment EXCEPT ![o][c].expired = TRUE]
    <3>1. over \in Fulfillment /\ over.status = old.status /\ over.mode = old.mode
      BY <1>1 DEF Fulfillment
    <3>2. fulfillment' = [fulfillment EXCEPT ![o][c] = over]
      BY <2>3
    <3> QED BY <3>1, <3>2
  <2> QED BY <2>1, <2>2, <2>3
<1> HIDE DEF old
<1>3. /\ fulfillment' \in [Orders -> [Cycles -> Fulfillment]]
      /\ fulfillment'[o][c] = row
      /\ OnlyRow(fulfillment, fulfillment', o, c)
  BY <1>1, <1>2 DEF OnlyRow
<1> QED BY <1>2, <1>3 DEF old

LEMMA DeliveryStatusWritten ==
  ASSUME TypeOK, NEW o \in Orders, NEW c \in Cycles,
         NEW s \in {"IN_DELIVERY", "DELIVERED", "FAILED"},
         delivery' = [delivery EXCEPT ![o][c].status = s]
  PROVE  /\ delivery' \in [Orders -> [Cycles -> Delivery]]
         /\ OnlyRow(delivery, delivery', o, c)
         /\ delivery'[o][c].status = s
         /\ delivery'[o][c].courier = delivery[o][c].courier
<1> DEFINE row == [delivery[o][c] EXCEPT !.status = s]
<1>1. delivery \in [Orders -> [Cycles -> Delivery]]
  BY DEF TypeOK
<1>2. row \in Delivery /\ row.status = s /\ row.courier = delivery[o][c].courier
  BY <1>1 DEF Delivery
<1>3. delivery' = [delivery EXCEPT ![o][c] = row]
  OBVIOUS
<1> HIDE DEF row
<1> QED BY <1>1, <1>2, <1>3 DEF OnlyRow

-----------------------------------------------------------------------------
(* What every step shows: it has an order of its own, whose rows it leaves   *)
(* in order, and unless it assigns a courier no task is active that was not. *)

OnlyOrder(o) ==
  \A q \in Orders \ {o} :
    /\ order'[q] = order[q] /\ cycle'[q] = cycle[q]
    /\ \A c \in Cycles :
         /\ fulfillment'[q][c] = fulfillment[q][c]
         /\ delivery'[q][c] = delivery[q][c]
         /\ <<q, c>> \in inbox => <<q, c>> \in inbox'

NoNewTask ==
  \A q \in Orders, c \in Cycles :
    Active(q, c)' => Active(q, c) /\ delivery'[q][c].courier = delivery[q][c].courier

Kept(o) == TypeOK' /\ OnlyOrder(o) /\ Local(o)' /\ FindingsArePast'

LEMMA OthersKeepLocal ==
  ASSUME TypeOK, NEW o \in Orders, NEW q \in Orders, q # o, OnlyOrder(o), Local(q)
  PROVE  Local(q)'
<1>1. /\ order'[q] = order[q] /\ cycle'[q] = cycle[q] /\ cycle[q] \in Cycles
      /\ \A c \in Cycles : /\ fulfillment'[q][c] = fulfillment[q][c]
                           /\ delivery'[q][c] = delivery[q][c]
                           /\ <<q, c>> \in inbox => <<q, c>> \in inbox'
  BY DEF OnlyOrder, TypeOK
<1>2. StatusTells(q)'
  BY <1>1 DEF StatusTells, Local
<1>3. CyclesApart(q)'
  BY <1>1 DEF CyclesApart, Active, Local
<1>4. RequestsHandled(q)'
  BY <1>1 DEF RequestsHandled, Local
<1> QED BY <1>2, <1>3, <1>4 DEF Local

LEMMA NoNewTaskKeepsCouriers ==
  ASSUME OneOrderPerCourier, NoNewTask
  PROVE  OneOrderPerCourier'
BY DEF OneOrderPerCourier, NoNewTask

LEMMA KeptIsEnough ==
  ASSUME IInv, NEW o \in Orders, Kept(o), OneOrderPerCourier'
  PROVE  IInv'
<1>1. ASSUME NEW q \in Orders PROVE Local(q)'
  <2>1. CASE q = o
    BY <2>1 DEF Kept
  <2>2. CASE q # o
    BY <2>2, OthersKeepLocal DEF IInv, Kept
  <2> QED BY <2>1, <2>2
<1> QED BY <1>1 DEF IInv, Kept

\* The rows of the latest cycle, for the steps that begin with its status.
LEMMA LatestRows ==
  ASSUME IInv, NEW o \in Orders
  PROVE  /\ cycle[o] \in Cycles /\ order[o] \in OrderStatus
         /\ StatusTells(o) /\ CyclesApart(o) /\ RequestsHandled(o)
         /\ \A c \in Cycles : /\ fulfillment[o][c] \in Fulfillment
                              /\ delivery[o][c] \in Delivery
                              /\ Active(o, c) => c = cycle[o]
<1>1. /\ cycle[o] \in Cycles /\ order[o] \in OrderStatus
      /\ \A c \in Cycles : fulfillment[o][c] \in Fulfillment /\ delivery[o][c] \in Delivery
  BY DEF IInv, TypeOK
<1>2. StatusTells(o) /\ CyclesApart(o) /\ RequestsHandled(o)
  BY DEF IInv, Local
<1>3. ASSUME NEW c \in Cycles, Active(o, c) PROVE c = cycle[o]
  <2>1. ~(c < cycle[o])
    BY <1>2, <1>3 DEF CyclesApart
  <2>2. ~(cycle[o] < c)
    BY <1>2, <1>3 DEF CyclesApart, Active, NoDelivery
  <2> QED BY <1>1, <2>1, <2>2 DEF Cycles
<1> QED BY <1>1, <1>2, <1>3

-----------------------------------------------------------------------------
(* The steps.                                                                *)

LEMMA RequestKeeps ==
  ASSUME IInv, NEW o \in Orders, NEW mode \in {"PICKUP", "DELIVERY"},
         RequestFulfillment(o, mode)
  PROVE  Kept(o) /\ NoNewTask
<1> DEFINE row == NewFulfillment(mode)
           c == cycle[o]
<1>1. /\ c \in Cycles /\ order[o] \in OrderStatus
      /\ StatusTells(o) /\ CyclesApart(o) /\ RequestsHandled(o)
  BY LatestRows
<1>2. row \in Fulfillment /\ row.status = "AWAITING_HANDOFF" /\ row.mode = mode
  BY HandoverAssumption DEF NewFulfillment, Fulfillment
<1>3. fulfillment' = [fulfillment EXCEPT ![o][c] = row]
  BY DEF RequestFulfillment
<1> HIDE DEF row
<1>4. /\ fulfillment' \in [Orders -> [Cycles -> Fulfillment]]
      /\ OnlyRow(fulfillment, fulfillment', o, c)
      /\ fulfillment'[o][c] = row
  BY <1>1, <1>2, <1>3 DEF IInv, TypeOK, OnlyRow
<1>5. TypeOK'
  BY <1>4 DEF IInv, TypeOK, RequestFulfillment, OrderStatus
<1>6. OnlyOrder(o)
  BY <1>4 DEF OnlyOrder, OnlyRow, RequestFulfillment, IInv, TypeOK
<1>7. order'[o] = "AWAITING_PICKUP" /\ order[o] = "READY" /\ UNCHANGED <<cycle, delivery, found, inbox>>
  BY DEF RequestFulfillment, IInv, TypeOK
<1>8. StatusTells(o)'
  BY <1>1, <1>2, <1>4, <1>7 DEF StatusTells
<1>9. CyclesApart(o)'
  BY <1>1, <1>2, <1>4, <1>7 DEF CyclesApart, Active, OnlyRow, Cycles
<1>10. RequestsHandled(o)'
  BY <1>1, <1>2, <1>4, <1>7 DEF RequestsHandled, OnlyRow, Cycles
<1>11. FindingsArePast'
  <2>1. ASSUME NEW f \in found
        PROVE  fulfillment'[f.order][f.event].mode = "DELIVERY"
    <3>1. f.order \in Orders /\ f.event \in Cycles
      BY DEF IInv, TypeOK
    <3>2. fulfillment[f.order][f.event].mode = "DELIVERY"
      BY DEF IInv, FindingsArePast
    <3>3. f.order # o \/ f.event # c
      BY <1>1, <1>7, <3>1, <3>2 DEF CyclesApart
    <3> QED BY <1>4, <3>1, <3>2, <3>3 DEF OnlyRow
  <2> QED BY <1>7, <2>1 DEF IInv, FindingsArePast
<1>12. NoNewTask
  BY <1>7 DEF NoNewTask, Active
<1> QED BY <1>5, <1>6, <1>8, <1>9, <1>10, <1>11, <1>12 DEF Kept, Local

LEMMA FindingsStay ==
  ASSUME IInv, found' \subseteq found, TypeOK',
         \A q \in Orders : cycle[q] <= cycle'[q],
         \A q \in Orders, c \in Cycles : fulfillment'[q][c].mode = fulfillment[q][c].mode
  PROVE  FindingsArePast'
<1> SUFFICES ASSUME NEW f \in found'
             PROVE  /\ f.event <= f.cycle /\ f.cycle <= cycle'[f.order]
                    /\ fulfillment'[f.order][f.event].mode = "DELIVERY"
  BY DEF FindingsArePast
<1>1. f \in found /\ f.order \in Orders /\ f.event \in Cycles /\ f.cycle \in Cycles
  BY DEF IInv, TypeOK
<1>2. /\ f.event <= f.cycle /\ f.cycle <= cycle[f.order]
      /\ fulfillment[f.order][f.event].mode = "DELIVERY"
  BY <1>1 DEF IInv, FindingsArePast
<1>3. cycle[f.order] \in Cycles /\ cycle'[f.order] \in Cycles
  BY <1>1 DEF IInv, TypeOK
<1> QED BY <1>1, <1>2, <1>3 DEF Cycles

LEMMA FindKeeps ==
  ASSUME IInv, NEW o \in Orders, NEW e \in Cycles, FindCourier(o, e)
  PROVE  Kept(o) /\ NoNewTask
<1>1. /\ cycle[o] \in Cycles /\ StatusTells(o) /\ CyclesApart(o) /\ RequestsHandled(o)
  BY LatestRows
<1>2. PICK r \in Couriers \cup {NoCourier} :
        found' = found \cup {[order |-> o, event |-> e, cycle |-> cycle[o], courier |-> r]}
  BY DEF FindCourier
<1>3. UNCHANGED <<order, cycle, fulfillment, delivery, courier, inbox>>
  BY DEF FindCourier
<1>4. TypeOK'
  BY <1>1, <1>2, <1>3 DEF IInv, TypeOK
<1>5. OnlyOrder(o)
  BY <1>3 DEF OnlyOrder
<1>6. Local(o)'
  BY <1>1, <1>3 DEF Local, StatusTells, CyclesApart, RequestsHandled, Active
<1>7. fulfillment[o][e].mode = "DELIVERY" /\ e <= cycle[o]
  BY <1>1 DEF FindCourier, CyclesApart, Cycles
<1>8. FindingsArePast'
  BY <1>1, <1>2, <1>3, <1>7 DEF IInv, FindingsArePast, Cycles
<1>9. NoNewTask
  BY <1>3 DEF NoNewTask, Active
<1> QED BY <1>4, <1>5, <1>6, <1>8, <1>9 DEF Kept

\* A run whose event nobody handled is about the latest cycle, and its event too.
LEMMA FindingIsLatest ==
  ASSUME IInv, NEW f \in found, <<f.order, f.event>> \notin inbox
  PROVE  /\ f.order \in Orders /\ f.event = cycle[f.order] /\ f.cycle = cycle[f.order]
         /\ fulfillment[f.order][f.cycle].mode = "DELIVERY"
<1>1. /\ f.order \in Orders /\ f.event \in Cycles /\ f.cycle \in Cycles
      /\ cycle[f.order] \in Cycles
  BY DEF IInv, TypeOK
<1>2. /\ f.event <= f.cycle /\ f.cycle <= cycle[f.order]
      /\ fulfillment[f.order][f.event].mode = "DELIVERY"
  BY DEF IInv, FindingsArePast
<1>3. ~(f.event < cycle[f.order])
  BY <1>1, <1>2 DEF IInv, Local, RequestsHandled
<1> QED BY <1>1, <1>2, <1>3 DEF Cycles

LEMMA AssignKeeps ==
  ASSUME IInv, NEW f \in found, AssignCourier(f)
  PROVE  Kept(f.order) /\ OneOrderPerCourier'
<1> DEFINE o == f.order
           c == f.cycle
           row == [status |-> "ASSIGNED", courier |-> f.courier]
<1>1. /\ o \in Orders /\ c = cycle[o] /\ f.event = c /\ fulfillment[o][c].mode = "DELIVERY"
  BY FindingIsLatest DEF AssignCourier, Assignable
<1>2. /\ c \in Cycles /\ order[o] = "AWAITING_PICKUP"
      /\ StatusTells(o) /\ CyclesApart(o) /\ RequestsHandled(o)
  BY <1>1, LatestRows DEF AssignCourier, Assignable
<1>3. row \in Delivery /\ row.status = "ASSIGNED" /\ row.courier = f.courier
  BY DEF IInv, TypeOK, Delivery, AssignCourier
<1>4. delivery' = [delivery EXCEPT ![o][c] = row]
  BY DEF AssignCourier
<1>5. /\ order' = [order EXCEPT ![o] = "COURIER_ASSIGNED"]
      /\ inbox' = inbox \cup {<<o, c>>} /\ found' = found \ {f}
      /\ UNCHANGED <<cycle, fulfillment, courier>>
  BY <1>1 DEF AssignCourier
<1>6. Free(f.courier)
  BY DEF AssignCourier, Assignable
<1> HIDE DEF row, o, c
<1>7. /\ delivery' \in [Orders -> [Cycles -> Delivery]]
      /\ OnlyRow(delivery, delivery', o, c)
      /\ delivery'[o][c] = row
  BY <1>1, <1>2, <1>3, <1>4 DEF IInv, TypeOK, OnlyRow
<1>8. TypeOK'
  <2>1. order' \in [Orders -> OrderStatus]
    BY <1>1, <1>5 DEF IInv, TypeOK, OrderStatus
  <2>2. inbox' \subseteq Orders \X Cycles
    BY <1>1, <1>2, <1>5 DEF IInv, TypeOK
  <2>3. found' \subseteq [order : Orders, event : Cycles, cycle : Cycles,
                         courier : Couriers \cup {NoCourier}]
    BY <1>5 DEF IInv, TypeOK
  <2> QED BY <1>5, <1>7, <2>1, <2>2, <2>3 DEF IInv, TypeOK
<1>9. OnlyOrder(o)
  BY <1>1, <1>5, <1>7 DEF OnlyOrder, OnlyRow, IInv, TypeOK
<1>10. order'[o] = "COURIER_ASSIGNED"
  BY <1>1, <1>5 DEF IInv, TypeOK
<1>11. StatusTells(o)'
  BY <1>1, <1>2, <1>3, <1>5, <1>7, <1>10 DEF StatusTells
<1>12. CyclesApart(o)'
  BY <1>1, <1>2, <1>5, <1>7, <1>10 DEF CyclesApart, Active, OnlyRow, Cycles
<1>13. RequestsHandled(o)'
  <2> SUFFICES ASSUME NEW d \in Cycles, fulfillment[o][d].mode = "DELIVERY"
               PROVE  <<o, d>> \in inbox'
    BY <1>5 DEF RequestsHandled
  <2>1. CASE d = c
    BY <1>5, <2>1
  <2>2. CASE d < c
    BY <1>1, <1>2, <1>5, <2>2 DEF RequestsHandled
  <2>3. CASE c < d
    BY <1>1, <1>2, <2>3 DEF CyclesApart
  <2> QED BY <1>2, <2>1, <2>2, <2>3 DEF Cycles
<1>14. FindingsArePast'
  BY <1>5, <1>8, FindingsStay DEF IInv, TypeOK, Cycles
<1>15. OneOrderPerCourier'
  <2>1. ASSUME NEW q \in Orders, NEW d \in Cycles, Active(q, d)', q # o \/ d # c
        PROVE  /\ Active(q, d) /\ delivery'[q][d] = delivery[q][d]
               /\ delivery'[q][d].courier # f.courier
    <3>1. delivery'[q][d] = delivery[q][d]
      BY <1>7, <2>1 DEF OnlyRow
    <3> QED BY <1>6, <2>1, <3>1 DEF Active, Free
  <2> SUFFICES ASSUME NEW p \in Orders, NEW q \in Orders, NEW d \in Cycles, NEW e \in Cycles,
                      Active(p, d)', Active(q, e)',
                      delivery'[p][d].courier = delivery'[q][e].courier
               PROVE  p = q /\ d = e
    BY DEF OneOrderPerCourier
  <2>2. CASE p = o /\ d = c
    BY <1>3, <1>7, <2>1, <2>2
  <2>3. CASE q = o /\ e = c
    BY <1>3, <1>7, <2>1, <2>3
  <2>4. CASE (p # o \/ d # c) /\ (q # o \/ e # c)
    BY <2>1, <2>4 DEF IInv, OneOrderPerCourier
  <2> QED BY <2>2, <2>3, <2>4
<1> QED BY <1>8, <1>9, <1>11, <1>12, <1>13, <1>14, <1>15 DEF Kept, Local, o

\* The other steps write the latest rows of one order: what is left to show of
\* each is what the order's new status says.
LEMMA LatestRowWritten ==
  ASSUME IInv, NEW o \in Orders, NEW c, c = cycle[o], TypeOK',
         order[o] # "READY", order'[o] # "READY",
         \A q \in Orders \ {o} : order'[q] = order[q],
         cycle' = cycle, inbox \subseteq inbox', found' \subseteq found,
         OnlyRow(fulfillment, fulfillment', o, c),
         fulfillment'[o][c].mode = fulfillment[o][c].mode,
         OnlyRow(delivery, delivery', o, c),
         StatusTells(o)',
         fulfillment[o][c].mode = "DELIVERY" /\ order'[o] # "AWAITING_PICKUP"
           => <<o, c>> \in inbox'
  PROVE  Kept(o)
<1>1. /\ c \in Cycles /\ cycle'[o] = c /\ c = cycle[o]
      /\ CyclesApart(o) /\ RequestsHandled(o)
  BY LatestRows
<1>2. OnlyOrder(o)
  BY <1>1 DEF OnlyOrder, OnlyRow
<1>3. ASSUME NEW d \in Cycles, d # c
      PROVE  fulfillment'[o][d] = fulfillment[o][d] /\ delivery'[o][d] = delivery[o][d]
  BY <1>3 DEF OnlyRow
<1>4. CyclesApart(o)'
  <2> SUFFICES ASSUME NEW d \in Cycles
               PROVE  /\ d < c => /\ ~Active(o, d)'
                                  /\ fulfillment'[o][d].status \in {"COMPLETED", "FAILED"}
                      /\ c < d => delivery'[o][d] = NoDelivery
                      /\ c < d => fulfillment'[o][d].mode = "PICKUP"
                      /\ c < d => fulfillment'[o][d] = NoFulfillment
    BY <1>1 DEF CyclesApart, Active
  <2>1. CASE d = c
    BY <1>1, <2>1 DEF Cycles
  <2>2. CASE d # c
    BY <1>1, <1>3, <2>2 DEF CyclesApart, Active
  <2> QED BY <2>1, <2>2
<1>5. RequestsHandled(o)'
  <2> SUFFICES ASSUME NEW d \in Cycles, fulfillment'[o][d].mode = "DELIVERY",
                      d < c \/ order'[o] # "AWAITING_PICKUP"
               PROVE  <<o, d>> \in inbox'
    BY <1>1 DEF RequestsHandled
  <2>1. CASE d = c
    BY <1>1, <2>1 DEF Cycles
  <2>2. CASE d < c
    BY <1>1, <1>3, <2>2 DEF RequestsHandled, Cycles
  <2>3. CASE c < d
    BY <1>1, <1>3, <2>3 DEF CyclesApart, Cycles
  <2> QED BY <1>1, <2>1, <2>2, <2>3 DEF Cycles
<1>6. FindingsArePast'
  <2>1. \A q \in Orders, d \in Cycles : fulfillment'[q][d].mode = fulfillment[q][d].mode
    BY DEF OnlyRow
  <2>2. \A q \in Orders : cycle[q] <= cycle'[q]
    BY DEF IInv, TypeOK, Cycles
  <2> QED BY <2>1, <2>2, FindingsStay
<1> QED BY <1>2, <1>4, <1>5, <1>6 DEF Kept, Local

\* A task that is written and not begun was active before.
LEMMA StatusOnlyIsNoNewTask ==
  ASSUME IInv, NEW o \in Orders, NEW c \in Cycles,
         OnlyRow(delivery, delivery', o, c),
         Active(o, c)' => Active(o, c) /\ delivery'[o][c].courier = delivery[o][c].courier
  PROVE  NoNewTask
BY DEF NoNewTask, OnlyRow, Active

LEMMA FailNoCourierKeeps ==
  ASSUME IInv, NEW f \in found, FailNoCourier(f)
  PROVE  Kept(f.order) /\ NoNewTask
<1> DEFINE o == f.order
           c == f.cycle
<1>1. /\ o \in Orders /\ c = cycle[o] /\ f.event = c
  BY FindingIsLatest DEF FailNoCourier
<1>2. c \in Cycles /\ StatusTells(o) /\ order[o] = "AWAITING_PICKUP"
  BY <1>1, LatestRows DEF FailNoCourier
<1>3. /\ order' = [order EXCEPT ![o] = "DELIVERY_FAILED"]
      /\ fulfillment' = [fulfillment EXCEPT ![o][c].status = "FAILED"]
      /\ inbox' = inbox \cup {<<o, c>>} /\ found' = found \ {f}
      /\ UNCHANGED <<cycle, delivery, courier>>
  BY <1>1 DEF FailNoCourier
<1> HIDE DEF o, c
<1>4. /\ fulfillment' \in [Orders -> [Cycles -> Fulfillment]]
      /\ OnlyRow(fulfillment, fulfillment', o, c)
      /\ fulfillment'[o][c].status = "FAILED"
      /\ fulfillment'[o][c].mode = fulfillment[o][c].mode
  BY <1>1, <1>2, <1>3, FulfillmentStatusWritten DEF IInv
<1>5. TypeOK'
  <2>1. order' \in [Orders -> OrderStatus]
    BY <1>1, <1>3 DEF IInv, TypeOK, OrderStatus
  <2>2. inbox' \subseteq Orders \X Cycles
    BY <1>1, <1>2, <1>3 DEF IInv, TypeOK
  <2>3. found' \subseteq [order : Orders, event : Cycles, cycle : Cycles,
                         courier : Couriers \cup {NoCourier}]
    BY <1>3 DEF IInv, TypeOK
  <2> QED BY <1>3, <1>4, <2>1, <2>2, <2>3 DEF IInv, TypeOK
<1>6. order'[o] = "DELIVERY_FAILED" /\ \A q \in Orders \ {o} : order'[q] = order[q]
  BY <1>1, <1>3 DEF IInv, TypeOK
<1>7. StatusTells(o)'
  BY <1>1, <1>2, <1>3, <1>4, <1>6 DEF StatusTells
<1>8. OnlyRow(delivery, delivery', o, c)
  BY <1>3 DEF OnlyRow
<1>9. Kept(o)
  BY <1>1, <1>2, <1>3, <1>4, <1>5, <1>6, <1>7, <1>8, LatestRowWritten
<1>10. NoNewTask
  BY <1>3 DEF NoNewTask, Active
<1> QED BY <1>9, <1>10 DEF o

LEMMA HandoffKeeps ==
  ASSUME IInv, NEW o \in Orders, NEW c \in Cycles, NEW right \in BOOLEAN,
         HandoffDelivery(o, c, right)
  PROVE  Kept(o) /\ NoNewTask
<1>1. /\ c = cycle[o] /\ StatusTells(o) /\ RequestsHandled(o)
      /\ order[o] = "COURIER_ASSIGNED" /\ delivery[o][c].status = "ASSIGNED"
  BY LatestRows DEF HandoffDelivery, Active
<1>2. UNCHANGED <<cycle, courier, found, inbox>>
  BY DEF HandoffDelivery
<1>3. /\ fulfillment' \in [Orders -> [Cycles -> Fulfillment]]
      /\ OnlyRow(fulfillment, fulfillment', o, c)
      /\ fulfillment'[o][c].mode = fulfillment[o][c].mode
      /\ delivery' \in [Orders -> [Cycles -> Delivery]]
      /\ OnlyRow(delivery, delivery', o, c)
      /\ delivery'[o][c].courier = delivery[o][c].courier
      /\ order' \in [Orders -> OrderStatus]
      /\ \A q \in Orders \ {o} : order'[q] = order[q]
      /\ \/ /\ order'[o] = "IN_DELIVERY"
            /\ fulfillment'[o][c].status = "IN_DELIVERY"
            /\ delivery'[o][c].status = "IN_DELIVERY"
         \/ /\ order'[o] = order[o]
            /\ fulfillment'[o][c].status = fulfillment[o][c].status
            /\ delivery'[o][c] = delivery[o][c]
  <2>1. CASE right
    <3>1. /\ order' = [order EXCEPT ![o] = "IN_DELIVERY"]
          /\ delivery' = [delivery EXCEPT ![o][c].status = "IN_DELIVERY"]
          /\ fulfillment' = [fulfillment EXCEPT ![o][c].status = "IN_DELIVERY"]
      BY <2>1 DEF HandoffDelivery
    <3>2. /\ fulfillment' \in [Orders -> [Cycles -> Fulfillment]]
          /\ OnlyRow(fulfillment, fulfillment', o, c)
          /\ fulfillment'[o][c].status = "IN_DELIVERY"
          /\ fulfillment'[o][c].mode = fulfillment[o][c].mode
      BY <3>1, FulfillmentStatusWritten DEF IInv
    <3>3. /\ delivery' \in [Orders -> [Cycles -> Delivery]]
          /\ OnlyRow(delivery, delivery', o, c)
          /\ delivery'[o][c].status = "IN_DELIVERY"
          /\ delivery'[o][c].courier = delivery[o][c].courier
      BY <3>1, DeliveryStatusWritten DEF IInv
    <3>4. /\ order' \in [Orders -> OrderStatus] /\ order'[o] = "IN_DELIVERY"
          /\ \A q \in Orders \ {o} : order'[q] = order[q]
      BY <3>1 DEF IInv, TypeOK, OrderStatus
    <3> QED BY <3>2, <3>3, <3>4
  <2>2. CASE ~right
    <3>1. /\ fulfillment[o][c].misses < MaxAttempts
          /\ fulfillment' = [fulfillment EXCEPT ![o][c].misses = @ + 1]
          /\ UNCHANGED <<order, delivery>>
      BY <2>2 DEF HandoffDelivery
    <3>2. /\ fulfillment' \in [Orders -> [Cycles -> Fulfillment]]
          /\ OnlyRow(fulfillment, fulfillment', o, c)
          /\ fulfillment'[o][c].status = fulfillment[o][c].status
          /\ fulfillment'[o][c].mode = fulfillment[o][c].mode
      BY <3>1, FulfillmentCounted DEF IInv
    <3> QED BY <3>1, <3>2 DEF IInv, TypeOK, OnlyRow
  <2> QED BY <2>1, <2>2
<1>4. TypeOK'
  BY <1>2, <1>3 DEF IInv, TypeOK
<1>5. StatusTells(o)'
  BY <1>1, <1>2, <1>3 DEF StatusTells
<1>6. order'[o] # "READY" /\ (fulfillment[o][c].mode = "DELIVERY" => <<o, c>> \in inbox')
  BY <1>1, <1>2, <1>3 DEF RequestsHandled
<1>7. Kept(o)
  BY <1>1, <1>2, <1>3, <1>4, <1>5, <1>6, LatestRowWritten
<1>8. NoNewTask
  BY <1>1, <1>3, StatusOnlyIsNoNewTask DEF Active
<1> QED BY <1>7, <1>8

\* A PIN, right or wrong, where the table is right for an order that is over.
LEMMA PinKeeps ==
  ASSUME IInv, NEW o \in Orders, NEW right \in BOOLEAN, NEW table,
         table \in [Orders -> [Cycles -> Delivery]],
         OnlyRow(delivery, table, o, cycle[o]),
         table[o][cycle[o]].status \in {"NONE", "DELIVERED"},
         order[o] # "READY",
         order[o] = "AWAITING_PICKUP" => fulfillment[o][cycle[o]].mode = "PICKUP",
         CompleteWithPin(o, right, table)
  PROVE  Kept(o) /\ NoNewTask
<1> DEFINE c == cycle[o]
<1>1. c \in Cycles /\ StatusTells(o) /\ RequestsHandled(o)
  BY LatestRows
<1>0. /\ OnlyRow(delivery, table, o, c) /\ table[o][c].status \in {"NONE", "DELIVERED"}
      /\ order[o] = "AWAITING_PICKUP" => fulfillment[o][c].mode = "PICKUP"
  OBVIOUS
<1> HIDE DEF c
<1>2. UNCHANGED <<cycle, courier, found, inbox>>
  BY DEF CompleteWithPin
<1>3. /\ fulfillment' \in [Orders -> [Cycles -> Fulfillment]]
      /\ OnlyRow(fulfillment, fulfillment', o, c)
      /\ fulfillment'[o][c].mode = fulfillment[o][c].mode
      /\ delivery' \in [Orders -> [Cycles -> Delivery]]
      /\ OnlyRow(delivery, delivery', o, c)
      /\ order' \in [Orders -> OrderStatus]
      /\ \A q \in Orders \ {o} : order'[q] = order[q]
      /\ \/ /\ order'[o] = "COMPLETED"
            /\ fulfillment'[o][c].status = "COMPLETED"
            /\ delivery'[o][c].status \in {"NONE", "DELIVERED"}
         \/ /\ order'[o] = order[o]
            /\ fulfillment'[o][c].status = fulfillment[o][c].status
            /\ delivery'[o][c] = delivery[o][c]
  <2>1. CASE right
    <3>1. /\ order' = [order EXCEPT ![o] = "COMPLETED"] /\ delivery' = table
          /\ fulfillment' = [fulfillment EXCEPT ![o][c].status = "COMPLETED"]
      BY <2>1 DEF CompleteWithPin, c
    <3>2. /\ fulfillment' \in [Orders -> [Cycles -> Fulfillment]]
          /\ OnlyRow(fulfillment, fulfillment', o, c)
          /\ fulfillment'[o][c].status = "COMPLETED"
          /\ fulfillment'[o][c].mode = fulfillment[o][c].mode
      BY <1>1, <3>1, FulfillmentStatusWritten DEF IInv
    <3>3. /\ order' \in [Orders -> OrderStatus] /\ order'[o] = "COMPLETED"
          /\ \A q \in Orders \ {o} : order'[q] = order[q]
      BY <3>1 DEF IInv, TypeOK, OrderStatus
    <3> QED BY <1>0, <3>1, <3>2, <3>3
  <2>2. CASE ~right
    <3>1. /\ fulfillment[o][c].wrong < MaxAttempts
          /\ fulfillment' = [fulfillment EXCEPT ![o][c].wrong = @ + 1]
          /\ UNCHANGED <<order, delivery>>
      BY <2>2 DEF CompleteWithPin, PinOpen, Latest, c
    <3>2. /\ fulfillment' \in [Orders -> [Cycles -> Fulfillment]]
          /\ OnlyRow(fulfillment, fulfillment', o, c)
          /\ fulfillment'[o][c].status = fulfillment[o][c].status
          /\ fulfillment'[o][c].mode = fulfillment[o][c].mode
      BY <1>1, <3>1, FulfillmentCounted DEF IInv
    <3> QED BY <3>1, <3>2 DEF IInv, TypeOK, OnlyRow
  <2> QED BY <2>1, <2>2
<1>4. TypeOK'
  BY <1>2, <1>3 DEF IInv, TypeOK
<1>5. StatusTells(o)'
  BY <1>1, <1>2, <1>3 DEF StatusTells, c
<1>6. /\ order'[o] # "READY"
      /\ fulfillment[o][c].mode = "DELIVERY" => <<o, c>> \in inbox'
  BY <1>0, <1>1, <1>2, <1>3 DEF RequestsHandled
<1>7. Kept(o)
  BY <1>1, <1>2, <1>3, <1>4, <1>5, <1>6, LatestRowWritten DEF c
<1>8. NoNewTask
  BY <1>1, <1>3, StatusOnlyIsNoNewTask DEF Active
<1> QED BY <1>7, <1>8

LEMMA PickupKeeps ==
  ASSUME IInv, NEW o \in Orders, NEW right \in BOOLEAN, CompletePickup(o, right)
  PROVE  Kept(o) /\ NoNewTask
<1>1. /\ order[o] = "AWAITING_PICKUP" /\ fulfillment[o][cycle[o]].mode = "PICKUP"
      /\ CompleteWithPin(o, right, delivery)
  BY DEF CompletePickup, Latest
<1>2. delivery[o][cycle[o]].status = "NONE"
  BY <1>1, LatestRows DEF StatusTells
<1>3. /\ delivery \in [Orders -> [Cycles -> Delivery]] /\ cycle[o] \in Cycles
      /\ OnlyRow(delivery, delivery, o, cycle[o])
  BY DEF IInv, TypeOK, OnlyRow
<1> QED BY <1>1, <1>2, <1>3, PinKeeps

\* The newest task of an order on its way is that of its latest cycle.
LEMMA CompletionKeeps ==
  ASSUME IInv, NEW o \in Orders, NEW c \in Cycles, NEW right \in BOOLEAN,
         CompleteDelivery(o, c, right)
  PROVE  Kept(o) /\ NoNewTask
<1> DEFINE table == [delivery EXCEPT ![o][c].status = "DELIVERED"]
           row == [delivery[o][c] EXCEPT !.status = "DELIVERED"]
<1>1. /\ order[o] = "IN_DELIVERY" /\ CompleteWithPin(o, right, table)
      /\ delivery[o][c] # NoDelivery
      /\ \A k \in Cycles : delivery[o][k] # NoDelivery => k <= c
  BY DEF CompleteDelivery
<1>2. /\ cycle[o] \in Cycles /\ CyclesApart(o)
      /\ delivery[o][cycle[o]].status = "IN_DELIVERY"
  BY <1>1, LatestRows DEF StatusTells
<1>3. c = cycle[o]
  <2>1. cycle[o] <= c
    BY <1>1, <1>2 DEF NoDelivery
  <2>2. ~(cycle[o] < c)
    BY <1>1, <1>2 DEF CyclesApart
  <2> QED BY <1>2, <2>1, <2>2 DEF Cycles
<1>4. delivery \in [Orders -> [Cycles -> Delivery]] /\ delivery[o][c] \in Delivery
  BY DEF IInv, TypeOK
<1>5. row \in Delivery /\ row.status = "DELIVERED"
  BY <1>4 DEF Delivery
<1>6. table = [delivery EXCEPT ![o][c] = row]
  OBVIOUS
<1> HIDE DEF row, table
<1>7. /\ table \in [Orders -> [Cycles -> Delivery]]
      /\ OnlyRow(delivery, table, o, c)
      /\ table[o][c].status = "DELIVERED"
  BY <1>4, <1>5, <1>6 DEF OnlyRow
<1> QED BY <1>1, <1>3, <1>7, PinKeeps

LEMMA FailDeliveryKeeps ==
  ASSUME IInv, NEW o \in Orders, NEW c \in Cycles, FailDelivery(o, c)
  PROVE  Kept(o) /\ NoNewTask
<1>1. /\ c = cycle[o] /\ RequestsHandled(o)
      /\ order[o] \in {"COURIER_ASSIGNED", "IN_DELIVERY"}
  BY LatestRows DEF FailDelivery
<1>2. /\ order' = [order EXCEPT ![o] = "DELIVERY_FAILED"]
      /\ fulfillment' = [fulfillment EXCEPT ![o][c].status = "FAILED"]
      /\ delivery' = [delivery EXCEPT ![o][c].status = "FAILED"]
      /\ UNCHANGED <<cycle, courier, found, inbox>>
  BY DEF FailDelivery
<1>3. /\ fulfillment' \in [Orders -> [Cycles -> Fulfillment]]
      /\ OnlyRow(fulfillment, fulfillment', o, c)
      /\ fulfillment'[o][c].status = "FAILED"
      /\ fulfillment'[o][c].mode = fulfillment[o][c].mode
  BY <1>2, FulfillmentStatusWritten DEF IInv
<1>4. /\ delivery' \in [Orders -> [Cycles -> Delivery]]
      /\ OnlyRow(delivery, delivery', o, c)
      /\ delivery'[o][c].status = "FAILED"
  BY <1>2, DeliveryStatusWritten DEF IInv
<1>5. /\ order' \in [Orders -> OrderStatus] /\ order'[o] = "DELIVERY_FAILED"
      /\ \A q \in Orders \ {o} : order'[q] = order[q]
  BY <1>2 DEF IInv, TypeOK, OrderStatus
<1>6. TypeOK'
  BY <1>2, <1>3, <1>4, <1>5 DEF IInv, TypeOK
<1>7. StatusTells(o)'
  BY <1>1, <1>2, <1>3, <1>4, <1>5 DEF StatusTells
<1>8. fulfillment[o][c].mode = "DELIVERY" => <<o, c>> \in inbox'
  BY <1>1, <1>2 DEF RequestsHandled
<1>9. Kept(o)
  BY <1>1, <1>2, <1>3, <1>4, <1>5, <1>6, <1>7, <1>8, LatestRowWritten
<1>10. NoNewTask
  BY <1>4, StatusOnlyIsNoNewTask DEF Active
<1> QED BY <1>9, <1>10

LEMMA ExpiryKeeps ==
  ASSUME IInv, NEW o \in Orders, PinExpires(o)
  PROVE  Kept(o) /\ NoNewTask
<1> DEFINE c == cycle[o]
<1>1. /\ c \in Cycles /\ StatusTells(o) /\ RequestsHandled(o)
      /\ fulfillment[o][c].status \in {"AWAITING_HANDOFF", "IN_DELIVERY"}
  BY LatestRows DEF PinExpires, Latest
<1>2. /\ fulfillment' = [fulfillment EXCEPT ![o][c].expired = TRUE]
      /\ UNCHANGED <<order, cycle, delivery, courier, found, inbox>>
  BY DEF PinExpires
<1>3. /\ fulfillment' \in [Orders -> [Cycles -> Fulfillment]]
      /\ OnlyRow(fulfillment, fulfillment', o, c)
      /\ fulfillment'[o][c].status = fulfillment[o][c].status
      /\ fulfillment'[o][c].mode = fulfillment[o][c].mode
  BY <1>1, <1>2, FulfillmentCounted DEF IInv
<1>4. TypeOK' /\ OnlyRow(delivery, delivery', o, c)
  BY <1>2, <1>3 DEF IInv, TypeOK, OnlyRow
<1>5. StatusTells(o)' /\ order[o] # "READY"
  BY <1>1, <1>2, <1>3 DEF StatusTells
<1>6. fulfillment[o][c].mode = "DELIVERY" /\ order'[o] # "AWAITING_PICKUP" => <<o, c>> \in inbox'
  BY <1>1, <1>2 DEF RequestsHandled
<1> HIDE DEF c
<1>7. Kept(o)
  BY <1>1, <1>2, <1>3, <1>4, <1>5, <1>6, LatestRowWritten DEF c
<1>8. NoNewTask
  BY <1>2 DEF NoNewTask, Active
<1> QED BY <1>7, <1>8

\* The order goes to a cycle of which there is nothing yet.
LEMMA ReprintKeeps ==
  ASSUME IInv, NEW o \in Orders, Reprint(o)
  PROVE  Kept(o) /\ NoNewTask
<1> DEFINE c == cycle[o]
           n == cycle[o] + 1
<1>1. /\ c \in Cycles /\ c < MaxCycles /\ StatusTells(o) /\ CyclesApart(o)
      /\ RequestsHandled(o) /\ order[o] \in {"COMPLETED", "DELIVERY_FAILED"}
  BY LatestRows DEF Reprint
<1>2. n \in Cycles
  BY <1>1, HandoverAssumption DEF Cycles
<1>3. /\ order' = [order EXCEPT ![o] = "READY"] /\ cycle' = [cycle EXCEPT ![o] = n]
      /\ UNCHANGED <<fulfillment, delivery, courier, found, inbox>>
  BY DEF Reprint
<1>4. /\ order'[o] = "READY" /\ cycle'[o] = n
      /\ \A q \in Orders \ {o} : order'[q] = order[q] /\ cycle'[q] = cycle[q]
  BY <1>3 DEF IInv, TypeOK
<1>5. TypeOK'
  BY <1>2, <1>3 DEF IInv, TypeOK, OrderStatus
<1>6. OnlyOrder(o)
  BY <1>3, <1>4 DEF OnlyOrder
<1>7. StatusTells(o)'
  BY <1>1, <1>2, <1>3, <1>4
     DEF StatusTells, CyclesApart, NoFulfillment, NewFulfillment, NoDelivery, Cycles
<1>8. CyclesApart(o)'
  <2> SUFFICES ASSUME NEW d \in Cycles
               PROVE  /\ d < n => /\ ~Active(o, d)
                                  /\ fulfillment[o][d].status \in {"COMPLETED", "FAILED"}
                      /\ n < d => delivery[o][d] = NoDelivery
                      /\ n <= d => fulfillment[o][d].mode = "PICKUP"
                      /\ n < d => fulfillment[o][d] = NoFulfillment
    BY <1>2, <1>3, <1>4 DEF CyclesApart, Active, Cycles
  <2>1. CASE d < c
    BY <1>1, <2>1 DEF CyclesApart, Cycles
  <2>2. CASE d = c
    BY <1>1, <2>2 DEF StatusTells, Active, Cycles
  <2>3. CASE c < d
    BY <1>1, <2>3 DEF CyclesApart, Cycles
  <2> QED BY <1>1, <2>1, <2>2, <2>3 DEF Cycles
<1>9. RequestsHandled(o)'
  BY <1>1, <1>3, <1>4 DEF RequestsHandled, CyclesApart, Cycles
<1>10. FindingsArePast'
  <2>1. \A q \in Orders : cycle[q] <= cycle'[q]
    BY <1>3, <1>4 DEF IInv, TypeOK, Cycles
  <2> QED BY <1>3, <1>5, <2>1, FindingsStay
<1>11. NoNewTask
  BY <1>3 DEF NoNewTask, Active
<1> QED BY <1>5, <1>6, <1>7, <1>8, <1>9, <1>10, <1>11 DEF Kept, Local

\* Steps of no order: a run is dropped, or a courier's profile changes.
LEMMA RowsRestKeep ==
  ASSUME IInv, TypeOK', found' \subseteq found,
         UNCHANGED <<order, cycle, fulfillment, delivery, inbox>>
  PROVE  IInv'
<1>1. ASSUME NEW o \in Orders PROVE Local(o)'
  <2>1. Local(o) /\ OnlyOrder(o)
    BY DEF IInv, OnlyOrder
  <2>2. StatusTells(o)' /\ CyclesApart(o)' /\ RequestsHandled(o)'
    BY <2>1 DEF Local, StatusTells, CyclesApart, RequestsHandled, Active
  <2> QED BY <2>2 DEF Local
<1>2. FindingsArePast'
  BY FindingsStay DEF IInv, TypeOK, Cycles
<1>3. OneOrderPerCourier'
  BY NoNewTaskKeepsCouriers DEF IInv, NoNewTask, Active
<1> QED BY <1>1, <1>2, <1>3 DEF IInv

-----------------------------------------------------------------------------
(* The theorems.                                                             *)

LEMMA Start == ASSUME Init PROVE IInv
<1>1. 1 \in Cycles
  BY HandoverAssumption DEF Cycles
<1>2. NoFulfillment \in Fulfillment /\ NoDelivery \in Delivery
  <2>1. NewFulfillment("PICKUP") \in Fulfillment
    BY HandoverAssumption DEF NewFulfillment, Fulfillment
  <2>2. NoFulfillment \in Fulfillment
    BY <2>1 DEF NoFulfillment, Fulfillment
  <2> QED BY <2>2 DEF NoDelivery, Delivery
<1>3. TypeOK
  BY <1>1, <1>2 DEF Init, TypeOK, OrderStatus
<1>4. \A o \in Orders, c \in Cycles :
        /\ order[o] = "READY" /\ cycle[o] = 1
        /\ fulfillment[o][c] = NoFulfillment /\ delivery[o][c] = NoDelivery
  BY DEF Init
<1>5. /\ NoFulfillment.status = "NONE" /\ NoFulfillment.mode = "PICKUP"
      /\ NoDelivery.status = "NONE"
  BY DEF NoFulfillment, NewFulfillment, NoDelivery
<1>6. ASSUME NEW o \in Orders PROVE Local(o)
  BY <1>1, <1>4, <1>5
     DEF Local, StatusTells, CyclesApart, RequestsHandled, Active, Cycles
<1>7. FindingsArePast /\ OneOrderPerCourier
  BY <1>4, <1>5 DEF Init, FindingsArePast, OneOrderPerCourier, Active
<1> QED BY <1>3, <1>6, <1>7 DEF IInv

LEMMA OrderStepKeeps ==
  ASSUME IInv, NEW o \in Orders, OrderStep(o)
  PROVE  IInv'
<1>1. ASSUME NEW mode \in {"PICKUP", "DELIVERY"}, RequestFulfillment(o, mode) PROVE IInv'
  BY <1>1, RequestKeeps, NoNewTaskKeepsCouriers, KeptIsEnough DEF IInv
<1>2. ASSUME NEW e \in Cycles, FindCourier(o, e) PROVE IInv'
  BY <1>2, FindKeeps, NoNewTaskKeepsCouriers, KeptIsEnough DEF IInv
<1>3. ASSUME NEW f \in found, f.order = o, AssignCourier(f) PROVE IInv'
  BY <1>3, AssignKeeps, KeptIsEnough
<1>4. ASSUME NEW f \in found, f.order = o, FailNoCourier(f) PROVE IInv'
  BY <1>4, FailNoCourierKeeps, NoNewTaskKeepsCouriers, KeptIsEnough DEF IInv
<1>5. ASSUME NEW right \in BOOLEAN, CompletePickup(o, right) PROVE IInv'
  BY <1>5, PickupKeeps, NoNewTaskKeepsCouriers, KeptIsEnough DEF IInv
<1>6. ASSUME NEW right \in BOOLEAN, NEW c \in Cycles, HandoffDelivery(o, c, right) PROVE IInv'
  BY <1>6, HandoffKeeps, NoNewTaskKeepsCouriers, KeptIsEnough DEF IInv
<1>7. ASSUME NEW right \in BOOLEAN, NEW c \in Cycles, CompleteDelivery(o, c, right) PROVE IInv'
  BY <1>7, CompletionKeeps, NoNewTaskKeepsCouriers, KeptIsEnough DEF IInv
<1>8. ASSUME NEW c \in Cycles, FailDelivery(o, c) PROVE IInv'
  BY <1>8, FailDeliveryKeeps, NoNewTaskKeepsCouriers, KeptIsEnough DEF IInv
<1>9. CASE PinExpires(o)
  BY <1>9, ExpiryKeeps, NoNewTaskKeepsCouriers, KeptIsEnough DEF IInv
<1>10. CASE Reprint(o)
  BY <1>10, ReprintKeeps, NoNewTaskKeepsCouriers, KeptIsEnough DEF IInv
<1> QED BY <1>1, <1>2, <1>3, <1>4, <1>5, <1>6, <1>7, <1>8, <1>9, <1>10
        DEF OrderStep, WorkerWrites

LEMMA Step == ASSUME IInv, [Next]_vars PROVE IInv'
<1>1. CASE UNCHANGED vars
  BY <1>1, RowsRestKeep DEF vars, IInv, TypeOK
<1>2. ASSUME NEW o \in Orders, OrderStep(o) PROVE IInv'
  BY <1>2, OrderStepKeeps
<1>3. ASSUME NEW f \in found, AssignmentDropped(f) PROVE IInv'
  <2>1. TypeOK'
    BY <1>3 DEF AssignmentDropped, IInv, TypeOK
  <2> QED BY <1>3, <2>1, RowsRestKeep DEF AssignmentDropped
<1>4. ASSUME NEW r \in Couriers, ApproveCourier(r) \/ SuspendAsked(r) \/ Suspended(r)
      PROVE  IInv'
  <2>1. PICK to \in {"APPROVED", "LEAVING", "SUSPENDED"} :
          /\ courier' = [courier EXCEPT ![r] = to]
          /\ UNCHANGED <<order, cycle, fulfillment, delivery, found, inbox>>
    BY <1>4 DEF ApproveCourier, SuspendAsked, Suspended, CourierBecomes
  <2>2. TypeOK'
    BY <2>1 DEF IInv, TypeOK
  <2> QED BY <2>1, <2>2, RowsRestKeep
<1> QED BY <1>1, <1>2, <1>3, <1>4 DEF Next

\* The inductive invariant holds in every reachable state.
THEOREM Invariant == Spec => []IInv
<1> QED BY Start, Step, PTL DEF Spec

\* The rows of orders, fulfilments and deliveries stay what they are declared
\* to be: no PIN attempt is counted beyond its bound, no cycle beyond the last.
THEOREM TypeCorrect == Spec => []TypeOK
<1>1. IInv => TypeOK
  BY DEF IInv
<1> QED BY <1>1, Invariant, PTL

\* completeWithPin, handoffDelivery, assignDelivery and failDelivery keep the
\* three tables at one story, whatever a dispute reopens: nothing of an earlier
\* cycle is open, and a late run of the worker changes none.
THEOREM RowsAlwaysAgree == Spec => []RowsAgree
<1>1. IInv => RowsAgree
  <2> SUFFICES ASSUME IInv PROVE RowsAgree
    OBVIOUS
  <2>1. ASSUME NEW o \in Orders, NEW c \in Cycles
        PROVE  /\ c # cycle[o] => ~Active(o, c)
               /\ c < cycle[o] => fulfillment[o][c].status \in {"COMPLETED", "FAILED"}
    BY LatestRows DEF CyclesApart
  <2>2. ASSUME NEW o \in Orders
        PROVE  StatusTells(o) /\ order[o] \in OrderStatus
    BY LatestRows
  <2> QED BY <2>1, <2>2 DEF RowsAgree, StatusTells, OrderStatus, Latest, IInv
<1> QED BY <1>1, Invariant, PTL

\* assignDelivery gives a courier no second order, although several of its runs
\* may have found the same courier free before one of them wrote.
THEOREM CourierCarriesOneOrder == Spec => []OneOrderPerCourier
<1>1. IInv => OneOrderPerCourier
  BY DEF IInv
<1> QED BY <1>1, Invariant, PTL
=============================================================================
