--------------------------- MODULE MatchingProofs ---------------------------
(* What holds of Matching for any finite number of orders, any branches,     *)
(* capacities and numbers of versions and reprints.                          *)
EXTENDS Matching, FiniteSetTheorems, TLAPS

-----------------------------------------------------------------------------
(* The inductive invariant.                                                  *)

\* The offers of an order agree with its matching, which is why a table of
\* offers tells how far the tender is.
OffersFollowMatching ==
  \A o \in Orders, b \in Branches :
    /\ offer[o][b].status = "PENDING" => matching[o] = "ACTIVE"
    /\ offer[o][b].status = "ACCEPTED" => matching[o] = "ASSIGNED"
    /\ offer[o][b].status # "NONE" => matching[o] # "NONE"

\* One branch at a time is asked, and one at most has accepted.
OneBranch ==
  \A o \in Orders : \A b, c \in Branches :
    /\ offer[o][b].status = offer[o][c].status
    /\ offer[o][b].status \in {"PENDING", "ACCEPTED"}
    => b = c

\* The branch that accepted is the one that works, from the first cycle on.
WorkIsAccepted ==
  \A o \in Orders, b \in Branches :
    /\ <<o, b>> \in active => offer[o][b].status = "ACCEPTED"
    /\ offer[o][b].status = "ACCEPTED" => cycle[o] >= 1

\* A branch with a capacity version keeps having one and every PENDING offer of
\* it a reservation; no offer is newer than its branch.
Reserved ==
  /\ \A b \in Branches \ Unversioned : capacity[b] # 0
  /\ \A o \in Orders, b \in Branches :
       /\ offer[o][b].version <= version[b]
       /\ b \notin Unversioned /\ offer[o][b].status = "PENDING"
            => offer[o][b].hold = "HELD"

\* Without an administrator, only an order that matching gave up is refunded.
RefundIsLast ==
  \A o \in Orders \ AdminRefunds : refund[o] # "NONE" => matching[o] = "EXHAUSTED"

IInv ==
  /\ TypeOK
  /\ OffersFollowMatching
  /\ OneBranch
  /\ WorkIsAccepted
  /\ Reserved
  /\ RefundIsLast
  /\ HoldFollowsOffer
  /\ HoldsFit
  /\ WorkMatchesOrder

-----------------------------------------------------------------------------
(* The four steps that look for the next branch.                             *)

\* The order is in its tender, and table is its offers with the one that was
\* PENDING, if any, over and its reservation released.
Cleared(o, table) ==
  /\ table \in [Orders -> [Branches -> Offer]]
  /\ \A q \in Orders : q # o => table[q] = offer[q]
  /\ \A c \in Branches :
       /\ table[o][c].status \notin {"PENDING", "ACCEPTED"}
       /\ table[o][c].status = "NONE" <=> offer[o][c].status = "NONE"
       /\ table[o][c].hold \in {"NONE", "RELEASED"}
       /\ table[o][c].version = offer[o][c].version
  /\ \/ matching[o] = "NONE"
     \/ matching[o] = "ACTIVE" /\ \E c \in Branches : offer[o][c].status = "PENDING"

Advances(o, table) ==
  /\ Cleared(o, table)
  /\ \E s \in {"MATCHING", order[o]} : NextOffer(o, table, s)
  /\ UNCHANGED <<active, cycle, capacity, version, refund>>

LEMMA StartAdvances ==
  ASSUME IInv, NEW o \in Orders, StartOrder(o)
  PROVE  Advances(o, offer)
<1>1. ASSUME NEW c \in Branches
      PROVE  offer[o][c].status = "NONE" /\ offer[o][c].hold \in {"NONE", "RELEASED"}
  <2>1. offer[o][c] \in Offer
    BY DEF IInv, TypeOK
  <2> QED BY <2>1 DEF IInv, OffersFollowMatching, HoldFollowsOffer, StartOrder, Offer
<1> QED BY <1>1 DEF Advances, Cleared, StartOrder, IInv, TypeOK

LEMMA EndedEntries ==
  ASSUME TypeOK, NEW o \in Orders, NEW b \in Branches, NEW s \in {"REJECTED", "EXPIRED"}
  PROVE  LET t == Ended(o, b, s) IN
         /\ t \in [Orders -> [Branches -> Offer]]
         /\ \A q \in Orders : q # o => t[q] = offer[q]
         /\ \A c \in Branches : c # b => t[o][c] = offer[o][c]
         /\ t[o][b].status = s
         /\ t[o][b].hold = IF offer[o][b].hold = "HELD" THEN "RELEASED"
                                                        ELSE offer[o][b].hold
         /\ t[o][b].version = offer[o][b].version
<1> DEFINE mid == [offer EXCEPT ![o][b].status = s]
           hold == IF offer[o][b].hold = "HELD" THEN "RELEASED" ELSE offer[o][b].hold
<1>1. \A q \in Orders, c \in Branches : offer[q][c] \in Offer
  BY DEF TypeOK
<1>2. /\ mid \in [Orders -> [Branches -> Offer]]
      /\ \A q \in Orders : q # o => mid[q] = offer[q]
      /\ \A c \in Branches : c # b => mid[o][c] = offer[o][c]
      /\ mid[o][b] = [offer[o][b] EXCEPT !.status = s]
  BY <1>1 DEF TypeOK, Offer
<1>3. mid[o][b].hold = offer[o][b].hold
  BY <1>1, <1>2 DEF Offer
<1>4. Ended(o, b, s) = [mid EXCEPT ![o][b].hold = hold]
  BY <1>3 DEF Ended
<1>5. hold \in {"NONE", "HELD", "CONSUMED", "RELEASED"}
  BY <1>1 DEF Offer
<1> HIDE DEF mid, hold
<1>6. mid[o] \in [Branches -> Offer] /\ mid[o][b] \in Offer
  BY <1>2
<1>7. [mid[o][b] EXCEPT !.hold = hold] \in Offer
  BY <1>5, <1>6 DEF Offer
<1>8. Ended(o, b, s)
        = [mid EXCEPT ![o] = [mid[o] EXCEPT ![b] = [mid[o][b] EXCEPT !.hold = hold]]]
  BY <1>4
<1>9. [mid[o] EXCEPT ![b] = [mid[o][b] EXCEPT !.hold = hold]] \in [Branches -> Offer]
  BY <1>6, <1>7
<1>10. /\ Ended(o, b, s) \in [Orders -> [Branches -> Offer]]
       /\ \A q \in Orders : q # o => Ended(o, b, s)[q] = mid[q]
       /\ \A c \in Branches : c # b => Ended(o, b, s)[o][c] = mid[o][c]
       /\ Ended(o, b, s)[o][b] = [mid[o][b] EXCEPT !.hold = hold]
  BY <1>2, <1>6, <1>8, <1>9
<1>11. mid[o][b] = [offer[o][b] EXCEPT !.status = s] /\ offer[o][b] \in Offer
  BY <1>1, <1>2
<1>12. /\ Ended(o, b, s)[o][b].status = s
       /\ Ended(o, b, s)[o][b].hold = hold
       /\ Ended(o, b, s)[o][b].version = offer[o][b].version
  BY <1>10, <1>11 DEF Offer
<1> QED BY <1>2, <1>10, <1>12 DEF hold

LEMMA EndAdvances ==
  ASSUME IInv, NEW o \in Orders, NEW b \in Branches, NEW s \in {"REJECTED", "EXPIRED"},
         offer[o][b].status = "PENDING",
         NextOffer(o, Ended(o, b, s), order[o]),
         UNCHANGED <<active, cycle, capacity, version, refund>>
  PROVE  Advances(o, Ended(o, b, s))
<1> DEFINE t == Ended(o, b, s)
<1>1. \A c \in Branches : offer[o][c] \in Offer
  BY DEF IInv, TypeOK
<1>2. /\ t \in [Orders -> [Branches -> Offer]]
      /\ \A q \in Orders : q # o => t[q] = offer[q]
      /\ \A c \in Branches : c # b => t[o][c] = offer[o][c]
      /\ t[o][b].status = s
      /\ t[o][b].hold = IF offer[o][b].hold = "HELD" THEN "RELEASED" ELSE offer[o][b].hold
      /\ t[o][b].version = offer[o][b].version
  BY EndedEntries DEF IInv
<1>3. matching[o] = "ACTIVE"
  BY DEF IInv, OffersFollowMatching
<1>4. ASSUME NEW c \in Branches
      PROVE  /\ t[o][c].status \notin {"PENDING", "ACCEPTED"}
             /\ t[o][c].status = "NONE" <=> offer[o][c].status = "NONE"
             /\ t[o][c].hold \in {"NONE", "RELEASED"}
             /\ t[o][c].version = offer[o][c].version
  <2>1. CASE c = b
    BY <1>1, <1>2, <2>1 DEF IInv, HoldFollowsOffer, Offer
  <2>2. CASE c # b
    <3>1. offer[o][c].status \notin {"PENDING", "ACCEPTED"}
      BY <1>3, <2>2 DEF IInv, OneBranch, OffersFollowMatching
    <3>2. offer[o][c].hold \in {"NONE", "RELEASED"}
      BY <1>1, <3>1 DEF IInv, HoldFollowsOffer, Offer
    <3> QED BY <1>2, <2>2, <3>1, <3>2
  <2> QED BY <2>1, <2>2
<1>5. Cleared(o, t)
  <2> HIDE DEF t
  <2> QED BY <1>2, <1>3, <1>4 DEF Cleared
<1> QED BY <1>5 DEF Advances

LEMMA TenderSteps ==
  ASSUME IInv, NEW o \in Orders, NEW b \in Branches,
         OfferInvalidated(o, b) \/ OfferRejected(o, b) \/ OfferExpired(o, b)
  PROVE  \E table : Advances(o, table)
<1>1. CASE OfferInvalidated(o, b) \/ OfferExpired(o, b)
  BY <1>1, EndAdvances DEF OfferInvalidated, OfferExpired, Open
<1>2. CASE OfferRejected(o, b)
  BY <1>2, EndAdvances DEF OfferRejected, Open
<1> QED BY <1>1, <1>2

\* The next branch b is asked.
Offered(o, table, b) ==
  /\ table[o][b].status = "NONE" /\ HasRoom(table, b)
  /\ \A c \in Branches : c # b => offer'[o][c] = table[o][c]
  /\ offer'[o][b].status = "PENDING"
  /\ offer'[o][b].hold = IF capacity[b] = 0 THEN "NONE" ELSE "HELD"
  /\ ~offer'[o][b].lapsed
  /\ offer'[o][b].version = version[b]
  /\ order' = [order EXCEPT ![o] = "PARTNER_OFFERED"]
  /\ matching' = [matching EXCEPT ![o] = "ACTIVE"]

\* Nobody is left to be asked.
Closed(o, table) ==
  /\ offer'[o] = table[o]
  /\ order' \in {[order EXCEPT ![o] = s] : s \in {"MATCHING", order[o]}}
  /\ matching' = [matching EXCEPT ![o] = "EXHAUSTED"]

LEMMA AdvanceOutcome ==
  ASSUME IInv, NEW o \in Orders, NEW table, Advances(o, table)
  PROVE  /\ offer' \in [Orders -> [Branches -> Offer]]
         /\ \A q \in Orders : q # o => offer'[q] = offer[q]
         /\ Closed(o, table) \/ \E b \in Branches : Offered(o, table, b)
<1> USE DEF Advances, Cleared
<1>1. PICK s \in {"MATCHING", order[o]} : NextOffer(o, table, s)
  OBVIOUS
<1>2. CASE /\ offer' = table
           /\ order' = [order EXCEPT ![o] = s]
           /\ matching' = [matching EXCEPT ![o] = "EXHAUSTED"]
  BY <1>2 DEF Closed
<1>3. ASSUME NEW b \in Branches,
             table[o][b].status = "NONE",
             HasRoom(table, b),
             offer' = [table EXCEPT ![o][b] =
               [status |-> "PENDING",
                hold |-> IF capacity[b] = 0 THEN "NONE" ELSE "HELD",
                lapsed |-> FALSE, version |-> version[b]]],
             order' = [order EXCEPT ![o] = "PARTNER_OFFERED"],
             matching' = [matching EXCEPT ![o] = "ACTIVE"]
      PROVE  /\ offer' \in [Orders -> [Branches -> Offer]]
             /\ \A q \in Orders : q # o => offer'[q] = offer[q]
             /\ Offered(o, table, b)
  <2> DEFINE new == [status |-> "PENDING",
                     hold |-> IF capacity[b] = 0 THEN "NONE" ELSE "HELD",
                     lapsed |-> FALSE, version |-> version[b]]
  <2>1. version[b] \in Nat
    BY DEF IInv, TypeOK
  <2>2. /\ new \in Offer /\ new.status = "PENDING" /\ ~new.lapsed
        /\ new.hold = IF capacity[b] = 0 THEN "NONE" ELSE "HELD"
        /\ new.version = version[b]
    BY <2>1 DEF Offer
  <2>3. offer' = [table EXCEPT ![o][b] = new]
    BY <1>3
  <2> HIDE DEF new
  <2>4. /\ offer' \in [Orders -> [Branches -> Offer]]
        /\ \A q \in Orders : q # o => offer'[q] = offer[q]
        /\ \A c \in Branches : c # b => offer'[o][c] = table[o][c]
        /\ offer'[o][b] = new
    BY <2>2, <2>3
  <2> QED BY <1>3, <2>2, <2>4 DEF Offered
<1> QED BY <1>1, <1>2, <1>3 DEF NextOffer

LEMMA AcceptOutcome ==
  ASSUME TypeOK, NEW o \in Orders, NEW b \in Branches, OfferAccepted(o, b)
  PROVE  /\ offer' \in [Orders -> [Branches -> Offer]]
         /\ \A q \in Orders : q # o => offer'[q] = offer[q]
         /\ \A c \in Branches : c # b => offer'[o][c] = offer[o][c]
         /\ offer'[o][b].status = "ACCEPTED"
         /\ offer'[o][b].hold = IF offer[o][b].hold = "HELD" THEN "CONSUMED"
                                                             ELSE offer[o][b].hold
         /\ offer'[o][b].version = offer[o][b].version
<1> DEFINE hold == IF offer[o][b].hold = "HELD" THEN "CONSUMED" ELSE offer[o][b].hold
           new == [offer[o][b] EXCEPT !.status = "ACCEPTED", !.hold = hold]
<1>1. offer[o] \in [Branches -> Offer] /\ offer[o][b] \in Offer
  BY DEF TypeOK
<1>2. /\ new \in Offer /\ new.status = "ACCEPTED" /\ new.hold = hold
      /\ new.version = offer[o][b].version
  BY <1>1 DEF Offer
<1>3. offer' = [offer EXCEPT ![o] = [offer[o] EXCEPT ![b] = new]]
  BY <1>1 DEF OfferAccepted, TypeOK, Offer
<1> HIDE DEF new
<1>4. /\ offer' \in [Orders -> [Branches -> Offer]]
      /\ \A q \in Orders : q # o => offer'[q] = offer[q]
      /\ \A c \in Branches : c # b => offer'[o][c] = offer[o][c]
      /\ offer'[o][b] = new
  BY <1>1, <1>2, <1>3 DEF TypeOK
<1> QED BY <1>2, <1>4

LEMMA LapseOutcome ==
  ASSUME TypeOK, NEW o \in Orders, NEW b \in Branches, OfferLapses(o, b)
  PROVE  /\ offer' \in [Orders -> [Branches -> Offer]]
         /\ \A q \in Orders, c \in Branches :
              /\ offer'[q][c].status = offer[q][c].status
              /\ offer'[q][c].hold = offer[q][c].hold
              /\ offer'[q][c].version = offer[q][c].version
              /\ offer[q][c].lapsed => offer'[q][c].lapsed
<1> DEFINE new == [offer[o][b] EXCEPT !.lapsed = TRUE]
<1>1. offer[o] \in [Branches -> Offer] /\ offer[o][b] \in Offer
  BY DEF TypeOK
<1>2. /\ new \in Offer /\ new.status = offer[o][b].status /\ new.hold = offer[o][b].hold
      /\ new.version = offer[o][b].version /\ new.lapsed
  BY <1>1 DEF Offer
<1>3. offer' = [offer EXCEPT ![o] = [offer[o] EXCEPT ![b] = new]]
  BY <1>1 DEF OfferLapses, TypeOK, Offer
<1> HIDE DEF new
<1>4. /\ offer' \in [Orders -> [Branches -> Offer]]
      /\ \A q \in Orders : q # o => offer'[q] = offer[q]
      /\ \A c \in Branches : c # b => offer'[o][c] = offer[o][c]
      /\ offer'[o][b] = new
  BY <1>1, <1>2, <1>3 DEF TypeOK
<1> QED BY <1>2, <1>4

-----------------------------------------------------------------------------
(* The parts of the invariant that relate one order's rows to each other.    *)

\* All of the invariant but the capacity of the branches.
Rows ==
  /\ TypeOK
  /\ OffersFollowMatching
  /\ OneBranch
  /\ WorkIsAccepted
  /\ Reserved
  /\ RefundIsLast
  /\ HoldFollowsOffer
  /\ WorkMatchesOrder

LEMMA AdvanceKeepsRows ==
  ASSUME IInv, NEW o \in Orders, NEW table, Advances(o, table)
  PROVE  Rows'
<1>1. /\ offer' \in [Orders -> [Branches -> Offer]]
      /\ \A q \in Orders : q # o => offer'[q] = offer[q]
      /\ Closed(o, table) \/ \E b \in Branches : Offered(o, table, b)
  BY AdvanceOutcome
<1>2. UNCHANGED <<active, cycle, capacity, version, refund>>
  BY DEF Advances
<1>3. /\ table \in [Orders -> [Branches -> Offer]]
      /\ \A c \in Branches :
           /\ table[o][c].status \notin {"PENDING", "ACCEPTED"}
           /\ table[o][c].status = "NONE" <=> offer[o][c].status = "NONE"
           /\ table[o][c].hold \in {"NONE", "RELEASED"}
           /\ table[o][c].version = offer[o][c].version
      /\ matching[o] \in {"NONE", "ACTIVE"}
  BY DEF Advances, Cleared
<1>4. /\ TypeOK /\ OffersFollowMatching /\ OneBranch /\ WorkIsAccepted
      /\ Reserved /\ RefundIsLast /\ HoldFollowsOffer /\ WorkMatchesOrder
  BY DEF IInv
<1>5. \A b \in Branches : <<o, b>> \notin active
  BY <1>3, <1>4 DEF WorkIsAccepted, OffersFollowMatching
<1>6. /\ order' \in [Orders -> OrderStatus]
      /\ \A q \in Orders : q # o => order'[q] = order[q]
      /\ order'[o] \in {"MATCHING", "PARTNER_OFFERED", order[o]}
  BY <1>1, <1>4 DEF Closed, Offered, TypeOK, OrderStatus
<1>7. /\ matching' \in [Orders -> {"NONE", "ACTIVE", "ASSIGNED", "EXHAUSTED"}]
      /\ \A q \in Orders : q # o => matching'[q] = matching[q]
      /\ matching'[o] \in {"ACTIVE", "EXHAUSTED"}
  BY <1>1, <1>4 DEF Closed, Offered, TypeOK
<1>8. TypeOK'
  BY <1>1, <1>2, <1>4, <1>6, <1>7 DEF TypeOK
<1>9. CASE Closed(o, table)
  <2>1. offer'[o] = table[o] /\ matching'[o] = "EXHAUSTED"
    BY <1>4, <1>9 DEF Closed, TypeOK
  <2>2. OffersFollowMatching'
    BY <1>1, <1>3, <1>4, <1>7, <2>1 DEF OffersFollowMatching
  <2>3. OneBranch'
    BY <1>1, <1>3, <1>4, <2>1 DEF OneBranch
  <2>4. WorkIsAccepted'
    <3>1. ASSUME NEW q \in Orders, NEW c \in Branches
          PROVE  /\ <<q, c>> \in active => offer'[q][c].status = "ACCEPTED"
                 /\ offer'[q][c].status = "ACCEPTED" => offer[q][c].status = "ACCEPTED"
      BY <1>1, <1>3, <1>4, <1>5, <2>1 DEF WorkIsAccepted
    <3> QED BY <1>2, <1>4, <3>1 DEF WorkIsAccepted
  <2>5. Reserved'
    BY <1>1, <1>2, <1>3, <1>4, <2>1 DEF Reserved
  <2>6. RefundIsLast'
    BY <1>2, <1>4, <1>7, <2>1 DEF RefundIsLast
  <2>7. HoldFollowsOffer'
    BY <1>1, <1>3, <1>4, <2>1 DEF HoldFollowsOffer
  <2>8. WorkMatchesOrder'
    BY <1>1, <1>2, <1>3, <1>4, <1>5, <1>6, <2>1 DEF WorkMatchesOrder
  <2> QED BY <1>8, <2>2, <2>3, <2>4, <2>5, <2>6, <2>7, <2>8 DEF Rows
<1>10. ASSUME NEW b \in Branches, Offered(o, table, b)
       PROVE  Rows'
  <2>1. /\ \A c \in Branches : c # b => offer'[o][c] = table[o][c]
        /\ offer'[o][b].status = "PENDING"
        /\ offer'[o][b].hold = IF capacity[b] = 0 THEN "NONE" ELSE "HELD"
        /\ offer'[o][b].version = version[b]
        /\ matching'[o] = "ACTIVE"
    BY <1>4, <1>10 DEF Offered, TypeOK
  <2>2. OffersFollowMatching'
    BY <1>1, <1>3, <1>4, <1>7, <2>1 DEF OffersFollowMatching
  <2>3. OneBranch'
    BY <1>1, <1>3, <1>4, <2>1 DEF OneBranch
  <2>4. WorkIsAccepted'
    <3>1. ASSUME NEW q \in Orders, NEW c \in Branches
          PROVE  /\ <<q, c>> \in active => offer'[q][c].status = "ACCEPTED"
                 /\ offer'[q][c].status = "ACCEPTED" => offer[q][c].status = "ACCEPTED"
      BY <1>1, <1>3, <1>4, <1>5, <2>1 DEF WorkIsAccepted
    <3> QED BY <1>2, <1>4, <3>1 DEF WorkIsAccepted
  <2>5. Reserved'
    <3>1. version[b] \in Nat
      BY <1>4 DEF TypeOK
    <3> QED BY <1>1, <1>2, <1>3, <1>4, <2>1, <3>1 DEF Reserved
  <2>6. RefundIsLast'
    BY <1>2, <1>3, <1>4, <1>7 DEF RefundIsLast
  <2>7. HoldFollowsOffer'
    BY <1>1, <1>3, <1>4, <2>1 DEF HoldFollowsOffer
  <2>8. refund[o] # "NONE" => o \in AdminRefunds
    BY <1>3, <1>4 DEF RefundIsLast
  <2>9. WorkMatchesOrder'
    BY <1>1, <1>2, <1>4, <1>5, <1>6, <2>8 DEF WorkMatchesOrder
  <2> QED BY <1>8, <2>2, <2>3, <2>4, <2>5, <2>6, <2>7, <2>9 DEF Rows
<1> QED BY <1>1, <1>9, <1>10

LEMMA AcceptKeepsRows ==
  ASSUME IInv, NEW o \in Orders, NEW b \in Branches, OfferAccepted(o, b)
  PROVE  Rows'
<1>1. /\ TypeOK /\ OffersFollowMatching /\ OneBranch /\ WorkIsAccepted
      /\ Reserved /\ RefundIsLast /\ HoldFollowsOffer /\ WorkMatchesOrder
  BY DEF IInv
<1>2. /\ offer' \in [Orders -> [Branches -> Offer]]
      /\ \A q \in Orders : q # o => offer'[q] = offer[q]
      /\ \A c \in Branches : c # b => offer'[o][c] = offer[o][c]
      /\ offer'[o][b].status = "ACCEPTED"
      /\ offer'[o][b].hold = IF offer[o][b].hold = "HELD" THEN "CONSUMED"
                                                          ELSE offer[o][b].hold
      /\ offer'[o][b].version = offer[o][b].version
  BY <1>1, AcceptOutcome
<1>3. /\ offer[o][b].status = "PENDING" /\ matching[o] = "ACTIVE"
      /\ \A c \in Branches : c # b => offer[o][c].status \notin {"PENDING", "ACCEPTED"}
  BY <1>1 DEF OfferAccepted, Open, OffersFollowMatching, OneBranch
<1>4. /\ order' = [order EXCEPT ![o] = "PARTNER_ACCEPTED"]
      /\ matching' = [matching EXCEPT ![o] = "ASSIGNED"]
      /\ cycle' = [cycle EXCEPT ![o] = 1]
      /\ active' = active \cup {<<o, b>>}
      /\ UNCHANGED <<capacity, version, refund>>
  BY DEF OfferAccepted
<1>5. refund[o] # "NONE" => o \in AdminRefunds
  BY <1>1, <1>3 DEF RefundIsLast
<1>6. TypeOK'
  BY <1>1, <1>2, <1>4 DEF TypeOK, OrderStatus
<1>7. OffersFollowMatching'
  BY <1>1, <1>2, <1>3, <1>4 DEF OffersFollowMatching, TypeOK
<1>8. OneBranch'
  BY <1>1, <1>2, <1>3 DEF OneBranch
<1>9. WorkIsAccepted'
  <2>1. ASSUME NEW q \in Orders, NEW c \in Branches, q # o
        PROVE  offer'[q] = offer[q] /\ cycle'[q] = cycle[q]
               /\ (<<q, c>> \in active' <=> <<q, c>> \in active)
    BY <1>1, <1>2, <1>4, <2>1 DEF TypeOK
  <2>2. ASSUME NEW c \in Branches
        PROVE  /\ <<o, c>> \in active' => c = b
               /\ cycle'[o] = 1
    BY <1>1, <1>4 DEF OfferAccepted, TypeOK
  <2>3. ASSUME NEW q \in Orders, NEW c \in Branches
        PROVE  /\ <<q, c>> \in active' => offer'[q][c].status = "ACCEPTED"
               /\ offer'[q][c].status = "ACCEPTED" => cycle'[q] >= 1
    BY <1>1, <1>2, <1>3, <2>1, <2>2 DEF WorkIsAccepted
  <2> QED BY <2>3 DEF WorkIsAccepted
<1>10. Reserved'
  BY <1>1, <1>2, <1>4 DEF Reserved
<1>11. RefundIsLast'
  BY <1>1, <1>4, <1>5 DEF RefundIsLast, TypeOK
<1>12. HoldFollowsOffer'
  BY <1>1, <1>2, <1>3 DEF HoldFollowsOffer
<1>13. WorkMatchesOrder'
  BY <1>1, <1>2, <1>4, <1>5 DEF WorkMatchesOrder, TypeOK
<1> QED BY <1>6, <1>7, <1>8, <1>9, <1>10, <1>11, <1>12, <1>13 DEF Rows

LEMMA LapseKeepsRows ==
  ASSUME IInv, NEW o \in Orders, NEW b \in Branches, OfferLapses(o, b)
  PROVE  Rows'
<1>1. /\ TypeOK /\ OffersFollowMatching /\ OneBranch /\ WorkIsAccepted
      /\ Reserved /\ RefundIsLast /\ HoldFollowsOffer /\ WorkMatchesOrder
  BY DEF IInv
<1>2. /\ offer' \in [Orders -> [Branches -> Offer]]
      /\ \A q \in Orders, c \in Branches :
           /\ offer'[q][c].status = offer[q][c].status
           /\ offer'[q][c].hold = offer[q][c].hold
           /\ offer'[q][c].version = offer[q][c].version
  BY <1>1, LapseOutcome
<1>3. UNCHANGED <<order, matching, active, cycle, capacity, version, refund>>
  BY DEF OfferLapses
<1>4. TypeOK'
  BY <1>1, <1>2, <1>3 DEF TypeOK
<1>5. OffersFollowMatching'
  BY <1>1, <1>2, <1>3 DEF OffersFollowMatching
<1>6. OneBranch'
  BY <1>1, <1>2 DEF OneBranch
<1>7. WorkIsAccepted'
  BY <1>1, <1>2, <1>3 DEF WorkIsAccepted
<1>8. Reserved'
  BY <1>1, <1>2, <1>3 DEF Reserved
<1>9. RefundIsLast'
  BY <1>1, <1>3 DEF RefundIsLast
<1>10. HoldFollowsOffer'
  BY <1>1, <1>2 DEF HoldFollowsOffer
<1>11. WorkMatchesOrder'
  BY <1>1, <1>2, <1>3 DEF WorkMatchesOrder
<1> QED BY <1>4, <1>5, <1>6, <1>7, <1>8, <1>9, <1>10, <1>11 DEF Rows

LEMMA PublishKeepsRows ==
  ASSUME IInv, NEW b \in Branches, Published(b)
  PROVE  Rows'
<1>1. /\ TypeOK /\ OffersFollowMatching /\ OneBranch /\ WorkIsAccepted
      /\ Reserved /\ RefundIsLast /\ HoldFollowsOffer /\ WorkMatchesOrder
  BY DEF IInv
<1>2. /\ UNCHANGED <<order, matching, offer, active, cycle, refund>>
      /\ version' = [version EXCEPT ![b] = @ + 1]
      /\ \E limit \in {capacity[b]} \cup 1 .. MaxLimit :
           capacity' = [capacity EXCEPT ![b] = limit]
  BY DEF Published
<1>3. /\ version' \in [Branches -> Nat] /\ capacity' \in [Branches -> Nat]
      /\ \A c \in Branches : version[c] <= version'[c]
      /\ \A c \in Branches : capacity[c] # 0 => capacity'[c] # 0
  BY <1>1, <1>2, MatchingAssumption DEF TypeOK
<1>4. Reserved'
  <2>1. \A q \in Orders, c \in Branches :
          offer[q][c].version \in Nat /\ version[c] \in Nat /\ version'[c] \in Nat
    BY <1>1, <1>3 DEF TypeOK, Offer
  <2> QED BY <1>1, <1>2, <1>3, <2>1 DEF Reserved
<1>5. TypeOK'
  BY <1>1, <1>2, <1>3 DEF TypeOK
<1>6. OffersFollowMatching' /\ OneBranch' /\ WorkIsAccepted'
  BY <1>1, <1>2 DEF OffersFollowMatching, OneBranch, WorkIsAccepted
<1>7. RefundIsLast' /\ HoldFollowsOffer' /\ WorkMatchesOrder'
  BY <1>1, <1>2 DEF RefundIsLast, HoldFollowsOffer, WorkMatchesOrder
<1> QED BY <1>4, <1>5, <1>6, <1>7 DEF Rows

LEMMA ProductionKeepsRows ==
  ASSUME IInv, NEW o \in Orders, NEW b \in Branches,
         ProductionStarted(o, b) \/ ProductionReady(o, b) \/ Reprint(o, b)
  PROVE  Rows'
<1>1. /\ TypeOK /\ OffersFollowMatching /\ OneBranch /\ WorkIsAccepted
      /\ Reserved /\ RefundIsLast /\ HoldFollowsOffer /\ WorkMatchesOrder
  BY DEF IInv
<1>2. UNCHANGED <<matching, offer, capacity, version, refund>>
  BY DEF ProductionStarted, ProductionReady, Reprint
<1>3. /\ offer[o][b].status = "ACCEPTED"
      /\ \A c \in Branches : <<o, c>> \in active => c = b
  BY <1>1 DEF ProductionStarted, ProductionReady, Reprint, WorkIsAccepted, OneBranch
<1>4. /\ order' \in [Orders -> OrderStatus]
      /\ \A q \in Orders : q # o => order'[q] = order[q]
  BY <1>1 DEF ProductionStarted, ProductionReady, Reprint, TypeOK, OrderStatus
<1>5. /\ \A q \in Orders, c \in Branches :
           q # o => (<<q, c>> \in active' <=> <<q, c>> \in active)
      /\ \A c \in Branches : <<o, c>> \in active' => c = b
      /\ active' \subseteq Orders \X Branches
  BY <1>1, <1>3 DEF ProductionStarted, ProductionReady, Reprint, TypeOK
<1>6. <<o, b>> \in active'
        <=> order'[o] \in {"PARTNER_ACCEPTED", "IN_PRODUCTION", "REPRINT"}
  BY <1>1 DEF ProductionStarted, ProductionReady, Reprint, TypeOK
<1>7. /\ cycle' \in [Orders -> Nat]
      /\ \A q \in Orders : cycle[q] >= 1 => cycle'[q] >= 1
  <2>1. CASE cycle' = cycle
    BY <1>1, <2>1 DEF TypeOK
  <2>2. CASE cycle' = [cycle EXCEPT ![o] = @ + 1]
    BY <1>1, <2>2 DEF TypeOK
  <2> QED BY <2>1, <2>2 DEF ProductionStarted, ProductionReady, Reprint
<1>8. TypeOK'
  BY <1>1, <1>2, <1>4, <1>5, <1>7 DEF TypeOK
<1>9. WorkIsAccepted'
  <2>1. ASSUME NEW q \in Orders, NEW c \in Branches
        PROVE  /\ <<q, c>> \in active' => offer'[q][c].status = "ACCEPTED"
               /\ offer'[q][c].status = "ACCEPTED" => cycle'[q] >= 1
    BY <1>1, <1>2, <1>3, <1>5, <1>7 DEF WorkIsAccepted
  <2> QED BY <2>1 DEF WorkIsAccepted
<1>10. WorkMatchesOrder'
  BY <1>1, <1>2, <1>4, <1>5, <1>6 DEF WorkMatchesOrder
<1> QED BY <1>1, <1>2, <1>8, <1>9, <1>10 DEF Rows, OffersFollowMatching, OneBranch,
          Reserved, RefundIsLast, HoldFollowsOffer

LEMMA RefundKeepsRows ==
  ASSUME IInv, NEW o \in Orders,
         RefundAsked(o) \/ RefundRecorded(o) \/ RefundConfirmed(o)
  PROVE  Rows'
<1>1. /\ TypeOK /\ OffersFollowMatching /\ OneBranch /\ WorkIsAccepted
      /\ Reserved /\ RefundIsLast /\ HoldFollowsOffer /\ WorkMatchesOrder
  BY DEF IInv
<1>2. UNCHANGED <<matching, offer, active, cycle, capacity, version>>
  BY DEF RefundAsked, RefundRecorded, RefundConfirmed
<1>3. /\ refund' \in [Orders -> {"NONE", "ASKED", "REQUESTED", "CONFIRMED"}]
      /\ \A q \in Orders : q # o => refund'[q] = refund[q]
      /\ order' \in [Orders -> OrderStatus]
      /\ \A q \in Orders : q # o => order'[q] = order[q]
  BY <1>1 DEF RefundAsked, RefundRecorded, RefundConfirmed, TypeOK, OrderStatus
<1>4. o \notin AdminRefunds => matching[o] = "EXHAUSTED"
  BY <1>1 DEF RefundAsked, RefundRecorded, RefundConfirmed, RefundIsLast
<1>5. ASSUME o \notin AdminRefunds
      PROVE  /\ \A b \in Branches : <<o, b>> \notin active
             /\ \A b \in Branches : offer[o][b].status \notin {"PENDING", "ACCEPTED"}
  BY <1>1, <1>4, <1>5 DEF WorkIsAccepted, OffersFollowMatching
<1>6. order'[o] = order[o]
        \/ order'[o] \notin {"PARTNER_ACCEPTED", "IN_PRODUCTION", "REPRINT"}
  BY <1>1 DEF RefundAsked, RefundRecorded, RefundConfirmed, TypeOK
<1>7. TypeOK'
  BY <1>1, <1>2, <1>3 DEF TypeOK
<1>8. RefundIsLast'
  BY <1>1, <1>2, <1>3, <1>4 DEF RefundIsLast
<1>9. WorkMatchesOrder'
  BY <1>1, <1>2, <1>3, <1>5, <1>6 DEF WorkMatchesOrder
<1> QED BY <1>1, <1>2, <1>7, <1>8, <1>9 DEF Rows, OffersFollowMatching, OneBranch,
          WorkIsAccepted, Reserved, HoldFollowsOffer

LEMMA RowsKept ==
  ASSUME IInv, [Next]_vars
  PROVE  Rows'
<1>1. CASE UNCHANGED vars
  <2>1. UNCHANGED <<order, matching, offer, active, cycle, capacity, version, refund>>
    BY <1>1 DEF vars
  <2>2. TypeOK' /\ OffersFollowMatching' /\ OneBranch'
    BY <2>1 DEF IInv, TypeOK, OffersFollowMatching, OneBranch
  <2>3. WorkIsAccepted' /\ Reserved' /\ RefundIsLast'
    BY <2>1 DEF IInv, WorkIsAccepted, Reserved, RefundIsLast
  <2>4. HoldFollowsOffer' /\ WorkMatchesOrder'
    BY <2>1 DEF IInv, HoldFollowsOffer, WorkMatchesOrder
  <2> QED BY <2>2, <2>3, <2>4 DEF Rows
<1>2. ASSUME NEW o \in Orders, StartOrder(o)
      PROVE  Rows'
  BY <1>2, StartAdvances, AdvanceKeepsRows
<1>3. ASSUME NEW o \in Orders, NEW b \in Branches,
             OfferInvalidated(o, b) \/ OfferRejected(o, b) \/ OfferExpired(o, b)
      PROVE  Rows'
  BY <1>3, TenderSteps, AdvanceKeepsRows
<1> QED BY <1>1, <1>2, <1>3, AcceptKeepsRows, LapseKeepsRows, PublishKeepsRows,
          ProductionKeepsRows, RefundKeepsRows DEF Next

-----------------------------------------------------------------------------
(* The capacity of the branches.                                             *)

LEMMA AtMostOneMore ==
  ASSUME NEW S, IsFiniteSet(S), NEW x, NEW T \in SUBSET (S \cup {x})
  PROVE  Cardinality(T) <= Cardinality(S) + 1
<1>1. /\ IsFiniteSet(S \cup {x}) /\ IsFiniteSet(T)
      /\ Cardinality(T) <= Cardinality(S \cup {x})
  BY FS_AddElement, FS_Subset
<1>2. Cardinality(S) \in Nat /\ Cardinality(T) \in Nat
  BY <1>1, FS_CardinalityType
<1> QED BY <1>1, <1>2, FS_AddElement

LEMMA Finite ==
  ASSUME NEW S \in SUBSET Orders
  PROVE  IsFiniteSet(S) /\ Cardinality(S) \in Nat
<1>1. IsFiniteSet(S)
  BY FS_Subset, MatchingAssumption
<1> QED BY <1>1, FS_CardinalityType

LEMMA Subsets ==
  ASSUME NEW b \in Branches, NEW table
  PROVE  /\ Originals(b) \subseteq Orders /\ Originals(b) \subseteq Assigned(b)
         /\ Assigned(b) \subseteq Orders /\ Held(table, b) \subseteq Orders
BY DEF Originals, Assigned, Held

\* The originals of b, the places held at b, and the limit of b.
Fits(b) ==
  (\E o \in Held(offer, b) : offer[o][b].version = version[b])
    => Cardinality(Originals(b)) + Cardinality(Held(offer, b)) <= capacity[b]

\* A branch that loses work or offers, and whose versions stay, still fits.
LEMMA FitsFewer ==
  ASSUME TypeOK, NEW b \in Branches, Fits(b),
         version'[b] = version[b], capacity'[b] = capacity[b],
         Originals(b)' \subseteq Originals(b),
         Held(offer, b)' \subseteq Held(offer, b),
         \A o \in Held(offer, b)' : offer'[o][b].version = offer[o][b].version
  PROVE  Fits(b)'
<1>1. /\ Originals(b) \subseteq Orders /\ Held(offer, b) \subseteq Orders
      /\ capacity[b] \in Nat
  BY Subsets DEF TypeOK
<1>2. /\ Cardinality(Originals(b)') <= Cardinality(Originals(b))
      /\ Cardinality(Held(offer, b)') <= Cardinality(Held(offer, b))
  BY <1>1, Finite, FS_Subset
<1>3. /\ Cardinality(Originals(b)') \in Nat /\ Cardinality(Originals(b)) \in Nat
      /\ Cardinality(Held(offer, b)') \in Nat /\ Cardinality(Held(offer, b)) \in Nat
  BY <1>1, Finite
<1>4. ASSUME \E o \in Held(offer, b)' : offer'[o][b].version = version'[b]
      PROVE  Cardinality(Originals(b)) + Cardinality(Held(offer, b)) <= capacity[b]
  BY <1>4 DEF Fits
<1>5. ASSUME \E o \in Held(offer, b)' : offer'[o][b].version = version'[b]
      PROVE  Cardinality(Originals(b)') + Cardinality(Held(offer, b)') <= capacity'[b]
  BY <1>1, <1>2, <1>3, <1>4, <1>5
<1> QED BY <1>5 DEF Fits

LEMMA AdvanceFits ==
  ASSUME IInv, NEW o \in Orders, NEW table, Advances(o, table),
         NEW b \in Branches \ Unversioned
  PROVE  Fits(b)'
<1>1. /\ \A q \in Orders : q # o => offer'[q] = offer[q]
      /\ Closed(o, table) \/ \E c \in Branches : Offered(o, table, c)
  BY AdvanceOutcome
<1>2. UNCHANGED <<active, cycle, capacity, version>>
  BY DEF Advances
<1>3. /\ \A q \in Orders : q # o => table[q] = offer[q]
      /\ table[o][b].hold # "HELD"
  BY DEF Advances, Cleared
<1>4. TypeOK /\ Fits(b) /\ capacity[b] # 0
  BY DEF IInv, HoldsFit, Fits, Reserved
<1>5. Originals(b)' = Originals(b)
  BY <1>2 DEF Originals, Assigned
<1>6. CASE offer'[o][b] = table[o][b]
  <2>1. /\ Held(offer, b)' \subseteq Held(offer, b)
        /\ \A q \in Held(offer, b)' : offer'[q][b].version = offer[q][b].version
    BY <1>1, <1>3, <1>6 DEF Held
  <2> QED BY <1>2, <1>4, <1>5, <2>1, FitsFewer
<1>7. CASE Offered(o, table, b)
  <2>1. Held(offer, b)' = Held(table, b) \cup {o} /\ o \notin Held(table, b)
    BY <1>1, <1>3, <1>4, <1>7 DEF Held, Offered
  <2>2. Cardinality(Assigned(b)) + Cardinality(Held(table, b)) < capacity[b]
    BY <1>4, <1>7 DEF Offered, HasRoom
  <2>3. /\ Originals(b) \subseteq Assigned(b)
        /\ Assigned(b) \subseteq Orders /\ Held(table, b) \subseteq Orders
    BY Subsets
  <2>4. /\ IsFiniteSet(Assigned(b)) /\ IsFiniteSet(Held(table, b))
        /\ Cardinality(Assigned(b)) \in Nat /\ Cardinality(Held(table, b)) \in Nat
        /\ Cardinality(Originals(b)) \in Nat
    BY <2>3, Finite
  <2>5. Cardinality(Originals(b)) <= Cardinality(Assigned(b))
    BY <2>3, <2>4, FS_Subset
  <2>6. Cardinality(Held(offer, b)') = Cardinality(Held(table, b)) + 1
    BY <2>1, <2>4, FS_AddElement
  <2>7. capacity[b] \in Nat /\ capacity'[b] = capacity[b]
    BY <1>2, <1>4 DEF TypeOK
  <2>8. Cardinality(Originals(b)') + Cardinality(Held(offer, b)') <= capacity'[b]
    BY <1>5, <2>2, <2>4, <2>5, <2>6, <2>7
  <2> QED BY <2>8 DEF Fits
<1>8. offer'[o][b] = table[o][b] \/ Offered(o, table, b)
  BY <1>1 DEF Closed, Offered
<1> QED BY <1>6, <1>7, <1>8

\* Acceptance turns a held place into an original.
LEMMA AcceptPlaces ==
  ASSUME IInv, NEW o \in Orders, NEW b \in Branches \ Unversioned, OfferAccepted(o, b)
  PROVE  /\ Held(offer, b)' = Held(offer, b) \ {o}
         /\ o \in Held(offer, b) /\ offer[o][b].version = version[b]
         /\ Cardinality(Originals(b)') <= Cardinality(Originals(b)) + 1
         /\ \A q \in Held(offer, b)' : offer'[q][b].version = offer[q][b].version
         /\ UNCHANGED <<capacity, version>>
<1>1. /\ \A q \in Orders : q # o => offer'[q] = offer[q]
      /\ offer'[o][b].hold = IF offer[o][b].hold = "HELD" THEN "CONSUMED"
                                                          ELSE offer[o][b].hold
  BY AcceptOutcome DEF IInv
<1>2. /\ offer[o][b].hold = "HELD" /\ ~offer[o][b].lapsed
      /\ offer[o][b].version = version[b]
  BY DEF OfferAccepted, Open, Current, IInv, Reserved
<1>3. Originals(b)' \subseteq Originals(b) \cup {o}
  <2>1. \A q \in Orders : q # o => cycle'[q] = cycle[q]
    BY DEF OfferAccepted, IInv, TypeOK
  <2>2. \A q \in Orders : q # o => (<<q, b>> \in active' => <<q, b>> \in active)
    BY DEF OfferAccepted
  <2> QED BY <2>1, <2>2 DEF Originals, Assigned
<1>4. Cardinality(Originals(b)') <= Cardinality(Originals(b)) + 1
  BY <1>3, Subsets, Finite, AtMostOneMore
<1>5. Held(offer, b)' = Held(offer, b) \ {o} /\ o \in Held(offer, b)
  BY <1>1, <1>2 DEF Held
<1>6. \A q \in Held(offer, b)' : offer'[q][b].version = offer[q][b].version
  BY <1>1, <1>5 DEF Held
<1> QED BY <1>2, <1>4, <1>5, <1>6 DEF OfferAccepted

LEMMA AcceptKeepsFit ==
  ASSUME IInv, NEW o \in Orders, NEW b \in Branches \ Unversioned, OfferAccepted(o, b)
  PROVE  /\ Fits(b)'
         /\ Cardinality(Originals(b)') <= capacity'[b]
<1>1. /\ Held(offer, b)' = Held(offer, b) \ {o}
      /\ o \in Held(offer, b) /\ offer[o][b].version = version[b]
      /\ Cardinality(Originals(b)') <= Cardinality(Originals(b)) + 1
      /\ UNCHANGED capacity
  BY AcceptPlaces
<1>2. Cardinality(Originals(b)) + Cardinality(Held(offer, b)) <= capacity[b]
  BY <1>1 DEF IInv, HoldsFit
<1>3. /\ Originals(b) \subseteq Orders /\ Held(offer, b) \subseteq Orders
      /\ capacity[b] \in Nat
  BY Subsets DEF IInv, TypeOK
<1>4. Originals(b)' \subseteq Orders
  BY DEF Originals, Assigned
<1>5. /\ IsFiniteSet(Held(offer, b)) /\ Cardinality(Held(offer, b)) \in Nat
      /\ Cardinality(Originals(b)) \in Nat /\ Cardinality(Originals(b)') \in Nat
  BY <1>3, <1>4, Finite
<1>6. /\ Cardinality(Held(offer, b)') = Cardinality(Held(offer, b)) - 1
      /\ Cardinality(Held(offer, b)') \in Nat
  BY <1>1, <1>5, FS_RemoveElement, FS_CardinalityType
<1> QED BY <1>1, <1>2, <1>3, <1>5, <1>6 DEF Fits

\* A step that leaves offers and versions alone, and adds no original.
LEMMA FitsAside ==
  ASSUME IInv, NEW b \in Branches \ Unversioned,
         UNCHANGED <<offer, capacity, version>>,
         Originals(b)' \subseteq Originals(b)
  PROVE  Fits(b)'
<1>1. Held(offer, b)' = Held(offer, b)
  BY DEF Held
<1>2. TypeOK /\ Fits(b)
  BY DEF IInv, HoldsFit, Fits
<1> QED BY <1>1, <1>2, FitsFewer

LEMMA FitsKept ==
  ASSUME IInv, [Next]_vars, NEW b \in Branches \ Unversioned
  PROVE  Fits(b)'
<1>1. CASE UNCHANGED vars
  BY <1>1, FitsAside DEF vars, Originals, Assigned
<1>2. ASSUME NEW o \in Orders, StartOrder(o)
      PROVE  Fits(b)'
  BY <1>2, StartAdvances, AdvanceFits
<1>3. ASSUME NEW o \in Orders, NEW c \in Branches,
             OfferInvalidated(o, c) \/ OfferRejected(o, c) \/ OfferExpired(o, c)
      PROVE  Fits(b)'
  BY <1>3, TenderSteps, AdvanceFits
<1>4. ASSUME NEW o \in Orders, NEW c \in Branches, OfferAccepted(o, c)
      PROVE  Fits(b)'
  <2>1. CASE c = b
    BY <1>4, <2>1, AcceptKeepsFit
  <2>2. CASE c # b
    <3>1. /\ \A q \in Orders : q # o => offer'[q] = offer[q]
          /\ offer'[o][b] = offer[o][b]
      BY <1>4, <2>2, AcceptOutcome DEF IInv
    <3>2. /\ Held(offer, b)' = Held(offer, b)
          /\ \A q \in Held(offer, b)' : offer'[q][b].version = offer[q][b].version
      BY <3>1 DEF Held
    <3>3. Assigned(b)' = Assigned(b) /\ o \notin Assigned(b)
      BY <1>4, <2>2 DEF OfferAccepted, Assigned
    <3>4. \A q \in Orders : q # o => cycle'[q] = cycle[q]
      BY <1>4 DEF OfferAccepted, IInv, TypeOK
    <3>5. Originals(b)' \subseteq Originals(b)
      BY <3>3, <3>4 DEF Originals, Assigned
    <3>6. TypeOK /\ Fits(b) /\ UNCHANGED <<capacity, version>>
      BY <1>4 DEF OfferAccepted, IInv, HoldsFit, Fits
    <3> QED BY <3>2, <3>5, <3>6, FitsFewer
  <2> QED BY <2>1, <2>2
<1>5. ASSUME NEW o \in Orders, NEW c \in Branches, OfferLapses(o, c)
      PROVE  Fits(b)'
  <2>1. /\ Held(offer, b)' \subseteq Held(offer, b)
        /\ \A q \in Held(offer, b)' : offer'[q][b].version = offer[q][b].version
    BY <1>5, LapseOutcome DEF IInv, Held
  <2>2. Originals(b)' = Originals(b) /\ UNCHANGED <<capacity, version>>
    BY <1>5 DEF OfferLapses, Originals, Assigned
  <2>3. TypeOK /\ Fits(b)
    BY DEF IInv, HoldsFit, Fits
  <2> QED BY <2>1, <2>2, <2>3, FitsFewer
<1>6. ASSUME NEW c \in Branches, Published(c)
      PROVE  Fits(b)'
  <2>1. CASE c = b
    <3>1. version'[b] = version[b] + 1 /\ UNCHANGED offer
      BY <1>6, <2>1 DEF Published, IInv, TypeOK
    <3>2. \A q \in Orders : /\ offer[q][b].version <= version[b]
                            /\ offer[q][b].version \in Nat /\ version[b] \in Nat
      BY DEF IInv, Reserved, TypeOK, Offer
    <3>3. \A q \in Orders : offer'[q][b].version # version'[b]
      BY <3>1, <3>2
    <3> QED BY <3>3 DEF Fits, Held
  <2>2. CASE c # b
    <3>1. /\ Held(offer, b)' = Held(offer, b) /\ Originals(b)' = Originals(b)
          /\ UNCHANGED offer
      BY <1>6 DEF Published, Held, Originals, Assigned
    <3>2. version'[b] = version[b] /\ capacity'[b] = capacity[b]
      BY <1>6, <2>2 DEF Published, IInv, TypeOK
    <3>3. TypeOK /\ Fits(b)
      BY DEF IInv, HoldsFit, Fits
    <3> QED BY <3>1, <3>2, <3>3, FitsFewer
  <2> QED BY <2>1, <2>2
<1>7. ASSUME NEW o \in Orders, NEW c \in Branches,
             ProductionStarted(o, c) \/ ProductionReady(o, c)
      PROVE  Fits(b)'
  BY <1>7, FitsAside DEF ProductionStarted, ProductionReady, Originals, Assigned
<1>8. ASSUME NEW o \in Orders, NEW c \in Branches, Reprint(o, c)
      PROVE  Fits(b)'
  <2>1. cycle[o] >= 1 /\ cycle[o] \in Nat
    BY <1>8 DEF Reprint, IInv, WorkIsAccepted, TypeOK
  <2>2. cycle'[o] # 1
    BY <1>8, <2>1 DEF Reprint, IInv, TypeOK
  <2>3. \A q \in Orders : q # o => /\ cycle'[q] = cycle[q]
                                   /\ <<q, b>> \in active' => <<q, b>> \in active
    BY <1>8 DEF Reprint, IInv, TypeOK
  <2>4. Originals(b)' \subseteq Originals(b)
    BY <2>2, <2>3 DEF Originals, Assigned
  <2> QED BY <1>8, <2>4, FitsAside DEF Reprint
<1>9. ASSUME NEW o \in Orders,
             RefundAsked(o) \/ RefundRecorded(o) \/ RefundConfirmed(o)
      PROVE  Fits(b)'
  BY <1>9, FitsAside DEF RefundAsked, RefundRecorded, RefundConfirmed,
     Originals, Assigned
<1> QED BY <1>1, <1>2, <1>3, <1>4, <1>5, <1>6, <1>7, <1>8, <1>9 DEF Next

-----------------------------------------------------------------------------
LEMMA InitInv == Init => IInv
<1> SUFFICES ASSUME Init PROVE IInv
  OBVIOUS
<1>1. /\ NoOffer \in Offer /\ NoOffer.status = "NONE" /\ NoOffer.hold = "NONE"
      /\ NoOffer.version = 0
  BY DEF NoOffer, Offer
<1>2. \A o \in Orders, b \in Branches : offer[o][b] = NoOffer
  BY DEF Init
<1>3. TypeOK
  <2>1. capacity \in [Branches -> Nat]
    BY MatchingAssumption DEF Init
  <2>2. offer \in [Orders -> [Branches -> Offer]]
    BY <1>1 DEF Init
  <2> QED BY <2>1, <2>2 DEF Init, TypeOK, OrderStatus
<1>4. OffersFollowMatching /\ OneBranch /\ HoldFollowsOffer
  BY <1>1, <1>2 DEF OffersFollowMatching, OneBranch, HoldFollowsOffer
<1>5. WorkIsAccepted
  BY <1>1, <1>2 DEF Init, WorkIsAccepted
<1>6. Reserved
  BY <1>1, <1>2 DEF Init, Reserved
<1>7. RefundIsLast /\ WorkMatchesOrder
  BY DEF Init, RefundIsLast, WorkMatchesOrder
<1>8. HoldsFit
  BY <1>1, <1>2 DEF HoldsFit, Held
<1> QED BY <1>3, <1>4, <1>5, <1>6, <1>7, <1>8 DEF IInv

LEMMA NextInv == IInv /\ [Next]_vars => IInv'
<1> SUFFICES ASSUME IInv, [Next]_vars PROVE IInv'
  OBVIOUS
<1>1. Rows'
  BY RowsKept
<1>2. HoldsFit'
  BY FitsKept DEF HoldsFit, Fits
<1> QED BY <1>1, <1>2 DEF IInv, Rows

THEOREM Invariant == Spec => []IInv
<1> QED BY InitInv, NextInv, PTL DEF Spec

\* Whatever the interleaving, every row keeps its type: an order, its matching,
\* its offers and their reservations stay within their enumerations.
THEOREM TypeCorrect == Spec => []TypeOK
<1>1. IInv => TypeOK
  BY DEF IInv
<1> QED BY <1>1, Invariant, PTL

\* Every reservation is settled with its offer: HELD exactly while the offer is
\* PENDING, CONSUMED exactly by its acceptance.
THEOREM HoldsSettled == Spec => []HoldFollowsOffer
<1>1. IInv => HoldFollowsOffer
  BY DEF IInv
<1> QED BY <1>1, Invariant, PTL

\* No branch is offered more than it has room for, for any number of orders and
\* any capacity.
THEOREM CapacityKept == Spec => []HoldsFit
<1>1. IInv => HoldsFit
  BY DEF IInv
<1> QED BY <1>1, Invariant, PTL

\* A branch works on an order exactly while the order says so, and no order is
\* both refunded and offered or made, unless an administrator refunds it.
THEOREM WorkKept == Spec => []WorkMatchesOrder
<1>1. IInv => WorkMatchesOrder
  BY DEF IInv
<1> QED BY <1>1, Invariant, PTL

-----------------------------------------------------------------------------
(* Acceptance.                                                               *)

LEMMA AdvanceAcceptsNothing ==
  ASSUME IInv, NEW o \in Orders, NEW table, Advances(o, table),
         NEW q \in Orders, NEW b \in Branches, offer[q][b].status = "PENDING"
  PROVE  offer'[q][b].status # "ACCEPTED"
<1>1. /\ \A p \in Orders : p # o => offer'[p] = offer[p]
      /\ Closed(o, table) \/ \E c \in Branches : Offered(o, table, c)
  BY AdvanceOutcome
<1>2. table[o][b].status # "ACCEPTED"
  BY DEF Advances, Cleared
<1> QED BY <1>1, <1>2 DEF Closed, Offered

LEMMA OnlyAcceptAccepts ==
  ASSUME IInv, [Next]_vars, NEW o \in Orders, NEW b \in Branches,
         offer[o][b].status = "PENDING", offer'[o][b].status = "ACCEPTED"
  PROVE  OfferAccepted(o, b)
<1>1. CASE UNCHANGED offer
  BY <1>1
<1>2. ASSUME NEW q \in Orders, StartOrder(q)
      PROVE  FALSE
  BY <1>2, StartAdvances, AdvanceAcceptsNothing
<1>3. ASSUME NEW q \in Orders, NEW c \in Branches,
             OfferInvalidated(q, c) \/ OfferRejected(q, c) \/ OfferExpired(q, c)
      PROVE  FALSE
  BY <1>3, TenderSteps, AdvanceAcceptsNothing
<1>4. ASSUME NEW q \in Orders, NEW c \in Branches, OfferLapses(q, c)
      PROVE  FALSE
  BY <1>4, LapseOutcome DEF IInv
<1>5. ASSUME NEW q \in Orders, NEW c \in Branches, OfferAccepted(q, c)
      PROVE  q = o /\ c = b
  BY <1>5, AcceptOutcome DEF IInv
<1> QED BY <1>1, <1>2, <1>3, <1>4, <1>5
        DEF Next, vars, Published, ProductionStarted, ProductionReady, Reprint,
            RefundAsked, RefundRecorded, RefundConfirmed

\* No acceptance takes the originals of a branch beyond the capacity in force
\* when it is accepted, however many orders and versions there are.
THEOREM AcceptanceFits == Spec => AcceptFits
<1>1. IInv /\ [Next]_vars
        => [\A o \in Orders, b \in Branches \ Unversioned :
              offer[o][b].status = "PENDING" /\ offer'[o][b].status = "ACCEPTED"
                => Cardinality(Originals(b)') <= capacity'[b]]_vars
  BY OnlyAcceptAccepts, AcceptKeepsFit
<1> QED BY <1>1, Invariant, PTL DEF Spec, AcceptFits

-----------------------------------------------------------------------------
(* Matching implements Tender.                                               *)

phaseOf == [o \in Orders |-> Phase[matching[o]]]
askedOf == [o \in Orders |-> {b \in Branches : offer[o][b].status # "NONE"}]
askingOf == [o \in Orders |-> {b \in Branches : offer[o][b].status = "PENDING"}]

LEMMA PhaseValues ==
  /\ Phase["NONE"] = "NEW" /\ Phase["ACTIVE"] = "OPEN"
  /\ Phase["ASSIGNED"] = "TAKEN" /\ Phase["EXHAUSTED"] = "CLOSED"
BY DEF Phase

LEMMA TenderInit == Init => Tenders!Init
<1> SUFFICES ASSUME Init PROVE Tenders!Init
  OBVIOUS
<1>1. phaseOf = [o \in Orders |-> "NEW"]
  BY PhaseValues DEF Init, phaseOf
<1>2. askedOf = [o \in Orders |-> {}] /\ askingOf = [o \in Orders |-> {}]
  BY DEF Init, NoOffer, askedOf, askingOf
<1> QED BY <1>1, <1>2 DEF Tenders!Init, phaseOf, askedOf, askingOf

\* The rows of the other orders stay, so one order's entries are the whole step.
LEMMA OnePhaseMoves ==
  ASSUME IInv, NEW o \in Orders, NEW m, matching' = [matching EXCEPT ![o] = m]
  PROVE  phaseOf' = [phaseOf EXCEPT ![o] = Phase[m]]
BY DEF phaseOf, IInv, TypeOK

LEMMA OneAskedMoves ==
  ASSUME NEW o \in Orders, NEW S, \A q \in Orders : q # o => offer'[q] = offer[q],
         {b \in Branches : offer'[o][b].status # "NONE"} = S
  PROVE  askedOf' = [askedOf EXCEPT ![o] = S]
BY DEF askedOf

LEMMA OneAskingMoves ==
  ASSUME NEW o \in Orders, NEW S, \A q \in Orders : q # o => offer'[q] = offer[q],
         {b \in Branches : offer'[o][b].status = "PENDING"} = S
  PROVE  askingOf' = [askingOf EXCEPT ![o] = S]
BY DEF askingOf

LEMMA TenderAdvances ==
  ASSUME IInv, NEW o \in Orders, NEW table, Advances(o, table)
  PROVE  Tenders!Next
<1>1. /\ \A q \in Orders : q # o => offer'[q] = offer[q]
      /\ Closed(o, table) \/ \E b \in Branches : Offered(o, table, b)
  BY AdvanceOutcome
<1>2. /\ \A c \in Branches : table[o][c].status \notin {"PENDING", "ACCEPTED"}
      /\ \A c \in Branches :
           table[o][c].status = "NONE" <=> offer[o][c].status = "NONE"
      /\ \/ matching[o] = "NONE"
         \/ matching[o] = "ACTIVE" /\ \E c \in Branches : offer[o][c].status = "PENDING"
  BY DEF Advances, Cleared
<1>3. \/ phaseOf[o] = "NEW"
      \/ phaseOf[o] = "OPEN" /\ askingOf[o] # {}
  BY <1>2, PhaseValues DEF phaseOf, askingOf
<1>4. CASE Closed(o, table)
  <2>1. offer'[o] = table[o] /\ matching' = [matching EXCEPT ![o] = "EXHAUSTED"]
    BY <1>4 DEF Closed
  <2>2. /\ {b \in Branches : offer'[o][b].status # "NONE"} = askedOf[o]
        /\ {b \in Branches : offer'[o][b].status = "PENDING"} = {}
    BY <1>2, <2>1 DEF askedOf
  <2>3. /\ phaseOf' = [phaseOf EXCEPT ![o] = "CLOSED"]
        /\ askedOf' = [askedOf EXCEPT ![o] = askedOf[o]]
        /\ askingOf' = [askingOf EXCEPT ![o] = {}]
    <3>1. phaseOf' = [phaseOf EXCEPT ![o] = "CLOSED"]
      BY <2>1, PhaseValues, OnePhaseMoves
    <3>2. askedOf' = [askedOf EXCEPT ![o] = askedOf[o]]
      BY <1>1, <2>2, OneAskedMoves
    <3>3. askingOf' = [askingOf EXCEPT ![o] = {}]
      BY <1>1, <2>2, OneAskingMoves
    <3> QED BY <3>1, <3>2, <3>3
  <2>4. askedOf' = askedOf
    BY <2>3 DEF askedOf
  <2>5. Tenders!Close(o)
    BY <1>3, <2>3, <2>4 DEF Tenders!Close, phaseOf, askedOf, askingOf
  <2> QED BY <2>5 DEF Tenders!Next
<1>5. ASSUME NEW b \in Branches, Offered(o, table, b)
      PROVE  Tenders!Next
  <2>1. /\ table[o][b].status = "NONE"
        /\ \A c \in Branches : c # b => offer'[o][c] = table[o][c]
        /\ offer'[o][b].status = "PENDING"
        /\ matching' = [matching EXCEPT ![o] = "ACTIVE"]
    BY <1>5 DEF Offered
  <2>2. /\ {c \in Branches : offer'[o][c].status # "NONE"} = askedOf[o] \cup {b}
        /\ {c \in Branches : offer'[o][c].status = "PENDING"} = {b}
        /\ b \notin askedOf[o]
    BY <1>2, <2>1 DEF askedOf
  <2>3. /\ phaseOf' = [phaseOf EXCEPT ![o] = "OPEN"]
        /\ askedOf' = [askedOf EXCEPT ![o] = askedOf[o] \cup {b}]
        /\ askingOf' = [askingOf EXCEPT ![o] = {b}]
    <3>1. phaseOf' = [phaseOf EXCEPT ![o] = "OPEN"]
      <4>1. matching' = [matching EXCEPT ![o] = "ACTIVE"]
        BY <2>1
      <4> QED BY <4>1, PhaseValues, OnePhaseMoves
    <3>2. askedOf' = [askedOf EXCEPT ![o] = askedOf[o] \cup {b}]
      BY <1>1, <2>2, OneAskedMoves
    <3>3. askingOf' = [askingOf EXCEPT ![o] = {b}]
      BY <1>1, <2>2, OneAskingMoves
    <3> QED BY <3>1, <3>2, <3>3
  <2>4. Tenders!Ask(o, b)
    BY <1>3, <2>2, <2>3 DEF Tenders!Ask, phaseOf, askedOf, askingOf
  <2> QED BY <2>4 DEF Tenders!Next
<1> QED BY <1>1, <1>4, <1>5

LEMMA TenderTaken ==
  ASSUME IInv, NEW o \in Orders, NEW b \in Branches, OfferAccepted(o, b)
  PROVE  Tenders!Next
<1>1. /\ \A q \in Orders : q # o => offer'[q] = offer[q]
      /\ \A c \in Branches : c # b => offer'[o][c] = offer[o][c]
      /\ offer'[o][b].status = "ACCEPTED"
  BY AcceptOutcome DEF IInv
<1>2. /\ offer[o][b].status = "PENDING" /\ matching[o] = "ACTIVE"
      /\ \A c \in Branches : c # b => offer[o][c].status # "PENDING"
      /\ matching' = [matching EXCEPT ![o] = "ASSIGNED"]
  BY DEF OfferAccepted, Open, IInv, OffersFollowMatching, OneBranch
<1>3. /\ {c \in Branches : offer'[o][c].status # "NONE"} = askedOf[o]
      /\ {c \in Branches : offer'[o][c].status = "PENDING"} = {}
  BY <1>1, <1>2 DEF askedOf
<1>4. phaseOf[o] = "OPEN" /\ askingOf[o] = {b}
  BY <1>2, PhaseValues DEF phaseOf, askingOf
<1>5. /\ phaseOf' = [phaseOf EXCEPT ![o] = "TAKEN"]
      /\ askedOf' = [askedOf EXCEPT ![o] = askedOf[o]]
      /\ askingOf' = [askingOf EXCEPT ![o] = {}]
  <2>1. phaseOf' = [phaseOf EXCEPT ![o] = "TAKEN"]
    <3>1. matching' = [matching EXCEPT ![o] = "ASSIGNED"]
      BY <1>2
    <3> QED BY <3>1, PhaseValues, OnePhaseMoves
  <2>2. askedOf' = [askedOf EXCEPT ![o] = askedOf[o]]
    BY <1>1, <1>3, OneAskedMoves
  <2>3. askingOf' = [askingOf EXCEPT ![o] = {}]
    BY <1>1, <1>3, OneAskingMoves
  <2> QED BY <2>1, <2>2, <2>3
<1>6. askedOf' = askedOf
  BY <1>5 DEF askedOf
<1>7. Tenders!Take(o, b)
  BY <1>4, <1>5, <1>6 DEF Tenders!Take, phaseOf, askedOf, askingOf
<1> QED BY <1>7 DEF Tenders!Next

LEMMA TenderStutters ==
  ASSUME UNCHANGED matching,
         \A q \in Orders, c \in Branches : offer'[q][c].status = offer[q][c].status
  PROVE  UNCHANGED Tenders!vars
<1>1. phaseOf' = phaseOf
  BY DEF phaseOf
<1>2. askedOf' = askedOf /\ askingOf' = askingOf
  BY DEF askedOf, askingOf
<1> QED BY <1>1, <1>2 DEF Tenders!vars, phaseOf, askedOf, askingOf

LEMMA TenderNext ==
  ASSUME IInv, [Next]_vars
  PROVE  [Tenders!Next]_(Tenders!vars)
<1>1. CASE UNCHANGED <<matching, offer>>
  BY <1>1, TenderStutters
<1>2. ASSUME NEW o \in Orders, StartOrder(o)
      PROVE  Tenders!Next
  BY <1>2, StartAdvances, TenderAdvances
<1>3. ASSUME NEW o \in Orders, NEW b \in Branches,
             OfferInvalidated(o, b) \/ OfferRejected(o, b) \/ OfferExpired(o, b)
      PROVE  Tenders!Next
  BY <1>3, TenderSteps, TenderAdvances
<1>4. ASSUME NEW o \in Orders, NEW b \in Branches, OfferLapses(o, b)
      PROVE  UNCHANGED Tenders!vars
  BY <1>4, LapseOutcome, TenderStutters DEF OfferLapses, IInv
<1> QED BY <1>1, <1>2, <1>3, <1>4, TenderTaken
        DEF Next, vars, Published, ProductionStarted, ProductionReady, Reprint,
            RefundAsked, RefundRecorded, RefundConfirmed

\* Matching implements Tender: no branch is asked twice for one order, nobody
\* is asked after an acceptance or the end, and only who is asked can accept.
THEOREM TenderKept == Spec => TendersOrders
<1> QED BY TenderInit, TenderNext, Invariant, PTL
        DEF Spec, TendersOrders, Tenders!Spec
=============================================================================
