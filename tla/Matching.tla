------------------------------- MODULE Matching -------------------------------
(* Matching of paid orders to branches of partner studios                     *)
(* (matching.service.ts): offers, capacity reservations, assignments, their   *)
(* expiry and exhaustion, with what surrounds them: versions of a branch,     *)
(* production up to READY, reprints, and the refund of an order that found    *)
(* no executor. Orders share the capacity of the branches. Every transaction  *)
(* here is SERIALIZABLE or locks the order, so it is one action; one that     *)
(* fails to serialize changes nothing and is run again.                       *)
EXTENDS Naturals, FiniteSets

CONSTANTS
  Orders, Branches,
  Unversioned,   \* branches that start without a capacity version
  AdminRefunds,  \* orders for which an administrator may ask a refund
  MaxLimit,      \* bound: largest maxConcurrentOrders
  Publishers,    \* bound: branches that publish versions
  MaxVersions,   \* bound: publications of each of them
  MaxCycles      \* bound: production cycles per order

ASSUME MatchingAssumption ==
  /\ IsFiniteSet(Orders)
  /\ Unversioned \subseteq Branches /\ Publishers \subseteq Branches
  /\ MaxLimit \in 1 .. 10000
  /\ MaxVersions \in Nat /\ MaxCycles \in Nat

VARIABLES
  order,      \* Order.status
  matching,   \* OrderMatching.status, NONE before it exists
  offer,      \* PartnerOffer with its OfferCapacityReservation
  active,     \* active PartnerAssignments, as pairs of order and branch
  cycle,      \* sequence of the latest ProductionCycle
  capacity,   \* maxConcurrentOrders of the active version, 0 without one
  version,    \* versions of capability, hours, catalog or capacity published
  refund      \* requestNoExecutorRefund

vars == <<order, matching, offer, active, cycle, capacity, version, refund>>

-----------------------------------------------------------------------------
\* READY stands for READY and what follows it, up to DISPUTED.
OrderStatus == {"PAID", "MATCHING", "PARTNER_OFFERED", "PARTNER_ACCEPTED",
                "IN_PRODUCTION", "READY", "REPRINT", "REFUND_PENDING",
                "REFUNDED"}

\* hold: the reservation, which expires with its offer (lapsed). version: the
\* version of the branch the offer was made under.
Offer == [status : {"NONE", "PENDING", "ACCEPTED", "REJECTED", "EXPIRED"},
          hold : {"NONE", "HELD", "CONSUMED", "RELEASED"},
          lapsed : BOOLEAN,
          version : Nat]
NoOffer == [status |-> "NONE", hold |-> "NONE", lapsed |-> FALSE, version |-> 0]

Init ==
  /\ order = [o \in Orders |-> "PAID"]
  /\ matching = [o \in Orders |-> "NONE"]
  /\ offer = [o \in Orders |-> [b \in Branches |-> NoOffer]]
  /\ active = {}
  /\ cycle = [o \in Orders |-> 0]
  /\ capacity \in [Branches -> 0 .. MaxLimit]
  /\ \A b \in Branches : capacity[b] = 0 <=> b \in Unversioned
  /\ version = [b \in Branches |-> 0]
  /\ refund = [o \in Orders |-> "NONE"]

-----------------------------------------------------------------------------
Assigned(b) == {o \in Orders : <<o, b>> \in active}
\* Reservations that count: HELD, and not past their expiry.
Held(table, b) ==
  {o \in Orders : table[o][b].hold = "HELD" /\ ~table[o][b].lapsed}

\* Mutant of HasRoom: off by one.
HasRoomForOneMore(table, b) ==
  Cardinality(Assigned(b)) + Cardinality(Held(table, b))
    <= IF capacity[b] = 0 THEN 1000 ELSE capacity[b]

HasRoom(table, b) ==
  Cardinality(Assigned(b)) + Cardinality(Held(table, b))
    < IF capacity[b] = 0 THEN 1000 ELSE capacity[b]

\* Mutant of Ended: the reservation is left as it is.
EndedUnreleased(o, b, status) == [offer EXCEPT ![o][b].status = status]

\* The PENDING offer of o to b is over; a reservation is released with it.
Ended(o, b, status) ==
  [offer EXCEPT ![o][b].status = status,
                ![o][b].hold = IF @ = "HELD" THEN "RELEASED" ELSE @]

\* Mutant of NextOffer: only a PENDING offer excludes its branch.
NextOfferRepeating(o, table, status) ==
  \/ \E b \in Branches :
       /\ table[o][b].status # "PENDING"
       /\ HasRoom(table, b)
       /\ offer' = [table EXCEPT ![o][b] =
            [status |-> "PENDING",
             hold |-> IF capacity[b] = 0 THEN "NONE" ELSE "HELD",
             lapsed |-> FALSE, version |-> version[b]]]
       /\ order' = [order EXCEPT ![o] = "PARTNER_OFFERED"]
       /\ matching' = [matching EXCEPT ![o] = "ACTIVE"]
  \/ /\ offer' = table
     /\ order' = [order EXCEPT ![o] = status]
     /\ matching' = [matching EXCEPT ![o] = "EXHAUSTED"]

\* createNextOffer, after the offers have become table. Which of the branches
\* not asked before are compatible, open, near and preferred differs from moment
\* to moment: any of them that has room may come first, or there is none, and
\* the order then has the given status.
NextOffer(o, table, status) ==
  \/ \E b \in Branches :
       /\ table[o][b].status = "NONE"
       /\ HasRoom(table, b)
       /\ offer' = [table EXCEPT ![o][b] =
            [status |-> "PENDING",
             hold |-> IF capacity[b] = 0 THEN "NONE" ELSE "HELD",
             lapsed |-> FALSE, version |-> version[b]]]
       /\ order' = [order EXCEPT ![o] = "PARTNER_OFFERED"]
       /\ matching' = [matching EXCEPT ![o] = "ACTIVE"]
  \/ /\ offer' = table
     /\ order' = [order EXCEPT ![o] = status]
     /\ matching' = [matching EXCEPT ![o] = "EXHAUSTED"]

\* startOrder; the inbox row, the unique OrderMatching and the order's status
\* make it run once.
StartOrder(o) ==
  /\ order[o] = "PAID" /\ matching[o] = "NONE"
  /\ NextOffer(o, offer, "MATCHING")
  /\ UNCHANGED <<active, cycle, capacity, version, refund>>

Open(o, b) == offer[o][b].status = "PENDING" /\ ~offer[o][b].lapsed

\* Mutant of Current: the versions are not compared.
CurrentAlways(o, b) == TRUE

\* The versions of an offer are compared only when it has a reservation.
Current(o, b) == offer[o][b].hold = "HELD" => offer[o][b].version = version[b]

\* decideOffer with ACCEPT. The compare-and-swap of the order wants
\* PARTNER_OFFERED, and an index allows one active assignment of an order.
OfferAccepted(o, b) ==
  /\ Open(o, b) /\ Current(o, b)
  /\ order[o] = "PARTNER_OFFERED"
  /\ \A c \in Branches : <<o, c>> \notin active
  /\ order' = [order EXCEPT ![o] = "PARTNER_ACCEPTED"]
  /\ offer' = [offer EXCEPT ![o][b].status = "ACCEPTED",
                            ![o][b].hold = IF @ = "HELD" THEN "CONSUMED" ELSE @]
  /\ active' = active \cup {<<o, b>>}
  /\ cycle' = [cycle EXCEPT ![o] = 1]
  /\ matching' = [matching EXCEPT ![o] = "ASSIGNED"]
  /\ UNCHANGED <<capacity, version, refund>>

\* ACCEPT of an offer that is stale, or whose studio is retired, suspended or
\* closed at that moment.
OfferInvalidated(o, b) ==
  /\ Open(o, b)
  /\ NextOffer(o, Ended(o, b, "EXPIRED"), order[o])
  /\ UNCHANGED <<active, cycle, capacity, version, refund>>

OfferRejected(o, b) ==
  /\ Open(o, b)
  /\ NextOffer(o, Ended(o, b, "REJECTED"), order[o])
  /\ UNCHANGED <<active, cycle, capacity, version, refund>>

\* expiresAt passes, of the offer and of its reservation.
OfferLapses(o, b) ==
  /\ Open(o, b)
  /\ offer' = [offer EXCEPT ![o][b].lapsed = TRUE]
  /\ UNCHANGED <<order, matching, active, cycle, capacity, version, refund>>

\* Mutant of OfferExpired: only offers with a reservation expire.
OfferExpiredIfHeld(o, b) ==
  /\ offer[o][b].status = "PENDING" /\ offer[o][b].lapsed
  /\ offer[o][b].hold = "HELD"
  /\ NextOffer(o, Ended(o, b, "EXPIRED"), order[o])
  /\ UNCHANGED <<active, cycle, capacity, version, refund>>

\* expireOffer, the delayed job of PARTNER_OFFER_CREATED. It does nothing when
\* the offer was decided before.
OfferExpired(o, b) ==
  /\ offer[o][b].status = "PENDING" /\ offer[o][b].lapsed
  /\ NextOffer(o, Ended(o, b, "EXPIRED"), order[o])
  /\ UNCHANGED <<active, cycle, capacity, version, refund>>

-----------------------------------------------------------------------------
(* The branch, production and the refund.                                    *)

\* A new version of capability, hours or catalog leaves the limit alone; one of
\* capacity sets it.
Published(b) ==
  /\ b \in Publishers /\ version[b] < MaxVersions
  /\ version' = [version EXCEPT ![b] = @ + 1]
  /\ \E limit \in {capacity[b]} \cup 1 .. MaxLimit :
       capacity' = [capacity EXCEPT ![b] = limit]
  /\ UNCHANGED <<order, matching, offer, active, cycle, refund>>

\* setProductionStatus and setItemProductionStatus: the first item in print.
ProductionStarted(o, b) ==
  /\ <<o, b>> \in active
  /\ order[o] \in {"PARTNER_ACCEPTED", "REPRINT"}
  /\ order' = [order EXCEPT ![o] = "IN_PRODUCTION"]
  /\ UNCHANGED <<matching, offer, active, cycle, capacity, version, refund>>

\* READY, or the last item COMPLETED, which may also be the first one started.
ProductionReady(o, b) ==
  /\ <<o, b>> \in active
  /\ order[o] \in {"PARTNER_ACCEPTED", "REPRINT", "IN_PRODUCTION"}
  /\ order' = [order EXCEPT ![o] = "READY"]
  /\ active' = active \ {<<o, b>>}
  /\ UNCHANGED <<matching, offer, cycle, capacity, version, refund>>

\* Mutant of Reprint: the order goes back to the status its dispute began in.
ReprintReopened(o, b) ==
  /\ order[o] = "READY" /\ offer[o][b].status = "ACCEPTED"
  /\ cycle[o] < MaxCycles
  /\ order' = [order EXCEPT ![o] = "COMPLETED"]
  /\ active' = active \cup {<<o, b>>}
  /\ cycle' = [cycle EXCEPT ![o] = @ + 1]
  /\ UNCHANGED <<matching, offer, capacity, version, refund>>

\* decide of a dispute with REPRINT: the branch that made the order makes it
\* again, whatever its capacity.
Reprint(o, b) ==
  /\ order[o] = "READY" /\ offer[o][b].status = "ACCEPTED"
  /\ cycle[o] < MaxCycles
  /\ order' = [order EXCEPT ![o] = "REPRINT"]
  /\ active' = active \cup {<<o, b>>}
  /\ cycle' = [cycle EXCEPT ![o] = @ + 1]
  /\ UNCHANGED <<matching, offer, capacity, version, refund>>

\* Mutant of RefundAsked: any order without an assignment counts as exhausted.
RefundAskedEarly(o) ==
  /\ refund[o] = "NONE"
  /\ order[o] \in {"PAID", "MATCHING", "PARTNER_OFFERED"}
  /\ refund' = [refund EXCEPT ![o] = "ASKED"]
  /\ UNCHANGED <<order, matching, offer, active, cycle, capacity, version>>

\* requestNoExecutorRefund before its transaction, by the job of
\* MATCHING_EXHAUSTED or by an administrator.
RefundAsked(o) ==
  /\ refund[o] = "NONE"
  /\ order[o] \in {"PAID", "MATCHING", "PARTNER_OFFERED"}
  /\ matching[o] = "EXHAUSTED" \/ o \in AdminRefunds
  /\ refund' = [refund EXCEPT ![o] = "ASKED"]
  /\ UNCHANGED <<order, matching, offer, active, cycle, capacity, version>>

\* Its transaction, which overwrites the order whatever became of it.
RefundRecorded(o) ==
  /\ refund[o] = "ASKED"
  /\ refund' = [refund EXCEPT ![o] = "REQUESTED"]
  /\ order' = [order EXCEPT ![o] = "REFUND_PENDING"]
  /\ UNCHANGED <<matching, offer, active, cycle, capacity, version>>

\* The webhook REFUND_SUCCEEDED.
RefundConfirmed(o) ==
  /\ refund[o] = "REQUESTED" /\ order[o] = "REFUND_PENDING"
  /\ refund' = [refund EXCEPT ![o] = "CONFIRMED"]
  /\ order' = [order EXCEPT ![o] = "REFUNDED"]
  /\ UNCHANGED <<matching, offer, active, cycle, capacity, version>>

-----------------------------------------------------------------------------
Next ==
  \/ \E o \in Orders, b \in Branches :
       \/ OfferAccepted(o, b)
       \/ OfferInvalidated(o, b)
       \/ OfferRejected(o, b)
       \/ OfferLapses(o, b)
       \/ OfferExpired(o, b)
       \/ ProductionStarted(o, b)
       \/ ProductionReady(o, b)
       \/ Reprint(o, b)
  \/ \E b \in Branches : Published(b)
  \/ \E o \in Orders :
       StartOrder(o) \/ RefundAsked(o) \/ RefundRecorded(o) \/ RefundConfirmed(o)

Spec == Init /\ [][Next]_vars

-----------------------------------------------------------------------------
TypeOK ==
  /\ order \in [Orders -> OrderStatus]
  /\ matching \in [Orders -> {"NONE", "ACTIVE", "ASSIGNED", "EXHAUSTED"}]
  /\ offer \in [Orders -> [Branches -> Offer]]
  /\ active \subseteq Orders \X Branches
  /\ cycle \in [Orders -> Nat]
  /\ capacity \in [Branches -> Nat]
  /\ version \in [Branches -> Nat]
  /\ refund \in [Orders -> {"NONE", "ASKED", "REQUESTED", "CONFIRMED"}]

\* A reservation follows its offer through acceptance, rejection, expiry and
\* invalidation: it holds a place exactly while the offer is PENDING, and is
\* consumed exactly by the acceptance; an offer without one never gets one.
HoldFollowsOffer ==
  \A o \in Orders, b \in Branches :
    LET f == offer[o][b] IN
    f.hold # "NONE" =>
      /\ f.hold = "HELD" <=> f.status = "PENDING"
      /\ f.hold = "CONSUMED" <=> f.status = "ACCEPTED"

\* Places of branch b that originals take (a reprint takes one whatever the
\* capacity is).
Originals(b) == {o \in Assigned(b) : cycle[o] = 1}

\* While an offer stands that was made under the version in force, what the
\* branch produces and what it was offered fit into its capacity, although
\* orders are matched concurrently, versions change under pending offers and
\* reservations lapse before the job that expires their offers.
HoldsFit ==
  \A b \in Branches \ Unversioned :
    (\E o \in Held(offer, b) : offer[o][b].version = version[b])
      => Cardinality(Originals(b)) + Cardinality(Held(offer, b)) <= capacity[b]

\* Accepting an offer never takes the originals of a branch beyond the capacity
\* in force at that moment.
AcceptFits ==
  [][\A o \in Orders, b \in Branches \ Unversioned :
       offer[o][b].status = "PENDING" /\ offer'[o][b].status = "ACCEPTED"
         => Cardinality(Originals(b)') <= capacity'[b]]_vars

\* Unless an administrator refunds the order, a branch works on it exactly
\* while its status says so, and nobody is offered or makes an order whose
\* refund was asked for: matching gives up before the money goes back.
WorkMatchesOrder ==
  \A o \in Orders \ AdminRefunds :
    /\ (\E b \in Branches : <<o, b>> \in active)
         <=> order[o] \in {"PARTNER_ACCEPTED", "IN_PRODUCTION", "REPRINT"}
    /\ refund[o] # "NONE" =>
         \A b \in Branches : offer[o][b].status \notin {"PENDING", "ACCEPTED"}

\* The tender of each order: its branches are asked one after another, none of
\* them twice, and not again once one accepted or none was left. This holds
\* under refunds, reprints and new versions too.
Phase == [NONE |-> "NEW", ACTIVE |-> "OPEN",
          ASSIGNED |-> "TAKEN", EXHAUSTED |-> "CLOSED"]

Tenders == INSTANCE Tender WITH
  phase <- [o \in Orders |-> Phase[matching[o]]],
  asked <- [o \in Orders |-> {b \in Branches : offer[o][b].status # "NONE"}],
  asking <- [o \in Orders |-> {b \in Branches : offer[o][b].status = "PENDING"}]

\* Matching implements Tender.
TendersOrders == Tenders!Spec

-----------------------------------------------------------------------------
\* Jobs run and are retried after a failure (BullMQ), time passes, and the
\* provider answers the refund. Partners need not answer an offer.
Fairness ==
  \A o \in Orders :
    /\ WF_vars(StartOrder(o))
    /\ WF_vars(RefundAsked(o) /\ matching[o] = "EXHAUSTED")
    /\ WF_vars(RefundRecorded(o))
    /\ WF_vars(RefundConfirmed(o))
    /\ \A b \in Branches :
         WF_vars(OfferLapses(o, b)) /\ WF_vars(OfferExpired(o, b))

FairSpec == Spec /\ Fairness

\* Every paid order is taken by a partner or refunded, even if no partner ever
\* answers and versions go stale under every offer.
PaidIsServed ==
  \A o \in Orders \ AdminRefunds :
    order[o] = "PAID" ~> order[o] \in {"PARTNER_ACCEPTED", "REFUNDED"}
=============================================================================
