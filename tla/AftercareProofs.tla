--------------------------- MODULE AftercareProofs ---------------------------
(* What holds of Retention and of Ledger, the two that build on Aftercare, for*)
(* any orders, layouts, sweeps, runs, requests, attempts, prices, payouts and *)
(* number of disputes. First the cases and the files, then sums, then the     *)
(* ledger and its settlements.                                                *)
EXTENDS Retention, Ledger, SequenceTheorems, FiniteSetTheorems,
        WellFoundedInduction, TLAPS

-----------------------------------------------------------------------------
(* Disputes, reprints, refunds and holds.                                     *)

CycleStatus == {"RUNNING", "COMPLETED", "FAILED"}

CaseInv ==
  /\ CaseTypeOK
  /\ cycles \in [Orders -> Seq(CycleStatus)]
  /\ refunds \in [Orders -> Seq(Refund)]
  /\ \A o \in Orders : Len(cycles[o]) > 0
  /\ \A o \in Orders : order[o] = "DISPUTED" => dispute[o].from \in Over

\* A command about an order leaves the others alone; most ask for no files and
\* let go of what was held.
OthersRest(o) ==
  \A p \in Orders \ {o} : order'[p] = order[p] /\ hold'[p] = hold[p]

LetsGo(o) ==
  /\ OthersRest(o)
  /\ order'[o] = "REPRINT" => order[o] = "REPRINT"
  /\ hold'[o] \subseteq hold[o]

\* A command that writes one order, its dispute, its holds and its payment.
LEMMA RowsKeep ==
  ASSUME CaseInv, NEW o \in Orders,
         order' \in [Orders -> OrderStatus], dispute' \in [Orders -> Dispute],
         hold' \in [Orders -> SUBSET {"DISPUTE", "MANUAL"}],
         payment' \in [Orders -> PaymentStatus],
         cycles' \in [Orders -> Seq(CycleStatus)],
         refunds' \in [Orders -> Seq(Refund)],
         \A p \in Orders : Len(cycles'[p]) > 0,
         \A p \in Orders : order'[p] = "DISPUTED" => dispute'[p].from \in Over
  PROVE  CaseInv'
<1>1. \A p \in Orders : \A c \in DOMAIN cycles'[p] : cycles'[p][c] \in CycleStatus
  BY ElementOfSeq
<1>2. \A p \in Orders : \A i \in DOMAIN refunds'[p] : refunds'[p][i] \in Refund
  BY ElementOfSeq
<1> QED BY <1>1, <1>2 DEF CaseInv, CaseTypeOK, CycleStatus

LEMMA EndsKeeps ==
  ASSUME CaseInv, NEW o \in Orders, NEW status \in Over,
         NEW cycle \in CycleStatus, Ends(o, status, cycle)
  PROVE  CaseInv' /\ LetsGo(o)
<1>1. order' \in [Orders -> OrderStatus]
  BY DEF Ends, CaseInv, CaseTypeOK, OrderStatus
<1>2. /\ cycles' \in [Orders -> Seq(CycleStatus)]
      /\ \A p \in Orders : Len(cycles'[p]) > 0
  <2>1. cycles[o] \in Seq(CycleStatus) /\ Len(cycles[o]) \in 1 .. Len(cycles[o])
    BY DEF CaseInv
  <2> DEFINE ended == [cycles[o] EXCEPT ![Len(cycles[o])] = cycle]
  <2>2. ended \in Seq(CycleStatus) /\ Len(ended) = Len(cycles[o])
    BY <2>1, ExceptSeq
  <2>3. cycles' = [cycles EXCEPT ![o] = ended]
    BY DEF Ends
  <2> HIDE DEF ended
  <2> QED BY <2>1, <2>2, <2>3 DEF CaseInv
<1>3. CaseInv'
  BY <1>1, <1>2, RowsKeep DEF Ends, CaseInv, CaseTypeOK, Over
<1>4. LetsGo(o)
  BY DEF Ends, LetsGo, OthersRest, CaseInv, CaseTypeOK, Over
<1> QED BY <1>3, <1>4

LEMMA OpenDisputeKeeps ==
  ASSUME CaseInv, NEW o \in Orders, OpenDispute(o)
  PROVE  /\ CaseInv' /\ OthersRest(o)
         /\ order'[o] = "REPRINT" => order[o] = "REPRINT"
<1> DEFINE row == [status |-> "OPEN", from |-> OpenedFrom(o),
                   sequence |-> dispute[o].sequence + 1]
<1>1. row \in Dispute
  BY DEF OpenDispute, OpenedFrom, CaseInv, CaseTypeOK, Dispute
<1>2. dispute' = [dispute EXCEPT ![o] = row]
  BY DEF OpenDispute, CaseInv, CaseTypeOK
<1>3. row.from \in Over
  BY DEF OpenDispute, OpenedFrom
<1> HIDE DEF row
<1>4. /\ dispute' \in [Orders -> Dispute]
      /\ order' \in [Orders -> OrderStatus]
      /\ hold' \in [Orders -> SUBSET {"DISPUTE", "MANUAL"}]
  BY <1>1, <1>2 DEF OpenDispute, CaseInv, CaseTypeOK, OrderStatus
<1>5. CaseInv'
  <2>1. \A p \in Orders : order'[p] = "DISPUTED" => dispute'[p].from \in Over
    BY <1>1, <1>2, <1>3 DEF OpenDispute, CaseInv, CaseTypeOK
  <2> QED BY <1>4, <2>1, RowsKeep DEF OpenDispute, CaseInv, CaseTypeOK
<1>6. OthersRest(o) /\ order'[o] # "REPRINT"
  BY DEF OpenDispute, OthersRest, CaseInv, CaseTypeOK
<1> QED BY <1>5, <1>6

LEMMA PartnerRespondKeeps ==
  ASSUME CaseInv, NEW o \in Orders, PartnerRespond(o)
  PROVE  CaseInv' /\ LetsGo(o)
<1> DEFINE row == [dispute[o] EXCEPT !.status = "PARTNER_RESPONDED"]
<1>1. row \in Dispute /\ row.from = dispute[o].from
  <2>1. dispute[o] \in Dispute
    BY DEF CaseInv, CaseTypeOK
  <2> QED BY <2>1 DEF Dispute
<1>2. dispute' = [dispute EXCEPT ![o] = row]
  BY DEF PartnerRespond
<1> HIDE DEF row
<1>3. /\ dispute' \in [Orders -> Dispute]
      /\ \A p \in Orders : dispute'[p].from = dispute[p].from
  BY <1>1, <1>2 DEF CaseInv, CaseTypeOK
<1>4. CaseInv'
  BY <1>3, RowsKeep DEF PartnerRespond, CaseInv, CaseTypeOK
<1>5. LetsGo(o)
  BY DEF PartnerRespond, LetsGo, OthersRest, CaseInv
<1> QED BY <1>4, <1>5

\* The end of every decision about a dispute.
LEMMA DecidedKeeps ==
  ASSUME CaseInv, NEW o \in Orders,
         NEW status \in {"CANCELLED", "RESOLVED"}, NEW next \in OrderStatus,
         next # "DISPUTED", Decided(o, status, next)
  PROVE  /\ dispute' \in [Orders -> Dispute]
         /\ \A p \in Orders : order'[p] = "DISPUTED" => dispute'[p].from \in Over
         /\ order' \in [Orders -> OrderStatus]
         /\ order'[o] = next
         /\ hold' \in [Orders -> SUBSET {"DISPUTE", "MANUAL"}]
         /\ hold'[o] \subseteq hold[o]
         /\ \A p \in Orders \ {o} : order'[p] = order[p] /\ hold'[p] = hold[p]
BY DEF Decided, CaseInv, CaseTypeOK, Dispute

\* An order goes back to what it was when its dispute was opened.
LEMMA ClosedKeeps ==
  ASSUME CaseInv, NEW o \in Orders, CancelDispute(o) \/ ResolveNoAction(o)
  PROVE  CaseInv' /\ LetsGo(o)
<1>1. PICK status \in {"CANCELLED", "RESOLVED"} :
        /\ Decided(o, status, dispute[o].from)
        /\ UNCHANGED <<cycles, payment, refunds>>
  BY DEF CancelDispute, ResolveNoAction
<1>2. dispute[o].from \in OrderStatus \ {"DISPUTED", "REPRINT"}
  BY DEF CancelDispute, ResolveNoAction, CaseInv, OrderStatus, Over
<1>3. CaseInv'
  BY <1>1, <1>2, DecidedKeeps, RowsKeep DEF CaseInv, CaseTypeOK
<1>4. LetsGo(o)
  BY <1>1, <1>2, DecidedKeeps DEF LetsGo, OthersRest
<1> QED BY <1>3, <1>4

LEMMA ResolveReprintKeeps ==
  ASSUME CaseInv, NEW o \in Orders, ResolveReprint(o)
  PROVE  CaseInv' /\ OthersRest(o)
<1>1. /\ cycles[o] \in Seq(CycleStatus) /\ "RUNNING" \in CycleStatus
      /\ Append(cycles[o], "RUNNING") \in Seq(CycleStatus)
      /\ Len(Append(cycles[o], "RUNNING")) > 0
  <2>1. cycles[o] \in Seq(CycleStatus) /\ "RUNNING" \in CycleStatus
    BY DEF CaseInv, CycleStatus
  <2> QED BY <2>1, AppendProperties
<1>2. /\ cycles' \in [Orders -> Seq(CycleStatus)]
      /\ \A p \in Orders : Len(cycles'[p]) > 0
  BY <1>1 DEF ResolveReprint, CaseInv
<1>3. Decided(o, "RESOLVED", "REPRINT") /\ "REPRINT" \in OrderStatus
  BY DEF ResolveReprint, OrderStatus
<1>4. CaseInv'
  BY <1>2, <1>3, DecidedKeeps, RowsKeep DEF ResolveReprint, CaseInv, CaseTypeOK
<1>5. OthersRest(o)
  BY <1>3, DecidedKeeps DEF OthersRest
<1> QED BY <1>4, <1>5

LEMMA ResolveRefundKeeps ==
  ASSUME CaseInv, NEW o \in Orders, NEW amount \in 1 .. Price,
         ResolveRefund(o, amount)
  PROVE  CaseInv' /\ LetsGo(o)
<1> DEFINE refund == [amount |-> amount, status |-> "REQUESTED", sent |-> FALSE]
<1>1. refund \in Refund /\ refunds[o] \in Seq(Refund)
  BY DEF Refund, CaseInv
<1>2. refunds' = [refunds EXCEPT ![o] = Append(refunds[o], refund)]
  BY DEF ResolveRefund
<1> HIDE DEF refund
<1>3. Append(refunds[o], refund) \in Seq(Refund)
  BY <1>1, AppendProperties
<1>4. refunds' \in [Orders -> Seq(Refund)]
  BY <1>2, <1>3 DEF CaseInv
<1>5. /\ Decided(o, "RESOLVED", "REFUND_PENDING")
      /\ "REFUND_PENDING" \in OrderStatus
      /\ payment' = [payment EXCEPT ![o] = "REFUND_PENDING"]
      /\ UNCHANGED cycles
  BY DEF ResolveRefund, OrderStatus
<1>6. payment' \in [Orders -> PaymentStatus]
  BY <1>5 DEF CaseInv, CaseTypeOK, PaymentStatus
<1>7. CaseInv'
  BY <1>4, <1>5, <1>6, DecidedKeeps, RowsKeep DEF CaseInv
<1>8. LetsGo(o)
  BY <1>5, DecidedKeeps DEF LetsGo, OthersRest
<1> QED BY <1>7, <1>8

\* The administrator's holds.
LEMMA HoldsKeep ==
  ASSUME CaseInv, NEW o \in Orders, CreateHold(o) \/ ReleaseHold(o)
  PROVE  /\ CaseInv' /\ OthersRest(o)
         /\ order'[o] = order[o]
         /\ ReleaseHold(o) => hold'[o] \subseteq hold[o]
<1>1. hold' \in [Orders -> SUBSET {"DISPUTE", "MANUAL"}]
  <2>1. CASE CreateHold(o)
    BY <2>1 DEF CreateHold, CaseInv, CaseTypeOK
  <2>2. CASE ReleaseHold(o)
    BY <2>2 DEF ReleaseHold, CaseInv, CaseTypeOK
  <2> QED BY <2>1, <2>2
<1>2. UNCHANGED <<order, cycles, dispute, payment, refunds>>
  BY DEF CreateHold, ReleaseHold
<1>3. CaseInv'
  BY <1>1, <1>2, RowsKeep DEF CaseInv, CaseTypeOK
<1>4. OthersRest(o) /\ (ReleaseHold(o) => hold'[o] \subseteq hold[o])
  BY <1>2 DEF CreateHold, ReleaseHold, OthersRest, CaseInv, CaseTypeOK
<1> QED BY <1>2, <1>3, <1>4

\* The refund at the provider writes the row of one refund.
LEMMA RefundRow ==
  ASSUME CaseInv, NEW o \in Orders, NEW i \in DOMAIN refunds[o],
         NEW r \in Refund,
         refunds' = [refunds EXCEPT ![o] = [refunds[o] EXCEPT ![i] = r]]
  PROVE  refunds' \in [Orders -> Seq(Refund)]
<1> DEFINE written == [refunds[o] EXCEPT ![i] = r]
<1>1. refunds[o] \in Seq(Refund) /\ i \in 1 .. Len(refunds[o])
  BY DEF CaseInv
<1>2. written \in Seq(Refund)
  BY <1>1, ExceptSeq
<1> HIDE DEF written
<1>3. refunds' = [refunds EXCEPT ![o] = written]
  BY DEF written
<1> QED BY <1>2, <1>3 DEF CaseInv

LEMMA SendRefundKeeps ==
  ASSUME CaseInv, NEW o \in Orders, NEW i \in DOMAIN refunds[o], SendRefund(o, i)
  PROVE  CaseInv' /\ LetsGo(o)
<1> DEFINE row == [refunds[o][i] EXCEPT !.sent = TRUE]
<1>1. refunds[o][i] \in Refund
  BY DEF CaseInv, CaseTypeOK
<1>2. row \in Refund
  BY <1>1 DEF Refund
<1>3. refunds' = [refunds EXCEPT ![o] = [refunds[o] EXCEPT ![i] = row]]
  BY DEF SendRefund
<1> HIDE DEF row
<1>4. refunds' \in [Orders -> Seq(Refund)]
  BY <1>2, <1>3, RefundRow
<1>5. UNCHANGED <<order, cycles, dispute, hold, payment>>
  BY DEF SendRefund
<1>6. CaseInv'
  BY <1>4, <1>5, RowsKeep DEF CaseInv, CaseTypeOK
<1> QED BY <1>5, <1>6 DEF LetsGo, OthersRest

LEMMA ConfirmRefundKeeps ==
  ASSUME CaseInv, NEW o \in Orders, NEW i \in DOMAIN refunds[o], ConfirmRefund(o, i)
  PROVE  CaseInv' /\ LetsGo(o)
<1> DEFINE row == [refunds[o][i] EXCEPT !.status = "CONFIRMED"]
<1>1. refunds[o][i] \in Refund
  BY DEF CaseInv, CaseTypeOK
<1>2. row \in Refund
  BY <1>1 DEF Refund
<1>3. refunds' = [refunds EXCEPT ![o] = [refunds[o] EXCEPT ![i] = row]]
  BY DEF ConfirmRefund
<1> HIDE DEF row
<1>4. refunds' \in [Orders -> Seq(Refund)]
  BY <1>2, <1>3, RefundRow
<1>5. PICK status \in {"REFUNDED", "PARTIALLY_REFUNDED"} :
        /\ payment' = [payment EXCEPT ![o] = status]
        /\ order' = [order EXCEPT ![o] = status]
        /\ UNCHANGED <<cycles, dispute, hold>>
  BY DEF ConfirmRefund
<1>6. order' \in [Orders -> OrderStatus] /\ payment' \in [Orders -> PaymentStatus]
  BY <1>5 DEF CaseInv, CaseTypeOK, OrderStatus, PaymentStatus, Refundable
<1>7. CaseInv'
  BY <1>4, <1>5, <1>6, RowsKeep DEF CaseInv, CaseTypeOK
<1>8. LetsGo(o)
  BY <1>5 DEF LetsGo, OthersRest, CaseInv, CaseTypeOK
<1> QED BY <1>7, <1>8

\* Every command is protected, or settles; a reprint asks for its files.
LEMMA CaseStepKeeps ==
  ASSUME CaseInv, NEW o \in Orders, CaseStep(o)
  PROVE  /\ CaseInv' /\ OthersRest(o)
         /\ Protect(o) \/ (LetsGo(o) /\ UNCHANGED <<schedule, file>>)
<1>1. CASE (OpenDispute(o) \/ CreateHold(o)) /\ Protect(o)
  BY <1>1, OpenDisputeKeeps, HoldsKeep
<1>2. CASE ResolveReprint(o) /\ Protect(o)
  BY <1>2, ResolveReprintKeeps
<1>3. ASSUME \/ Complete(o) \/ FailDelivery(o)
             \/ PartnerRespond(o) \/ CancelDispute(o) \/ ResolveNoAction(o)
             \/ \E amount \in 1 .. Price : ResolveRefund(o, amount)
             \/ ReleaseHold(o)
             \/ \E i \in DOMAIN refunds[o] : SendRefund(o, i) \/ ConfirmRefund(o, i)
      PROVE  CaseInv' /\ LetsGo(o)
  <2>1. CASE Complete(o) \/ FailDelivery(o)
    BY <2>1, EndsKeeps DEF Complete, FailDelivery, Over, CycleStatus
  <2>2. CASE \E amount \in 1 .. Price : ResolveRefund(o, amount)
    BY <2>2, ResolveRefundKeeps
  <2>3. CASE \E i \in DOMAIN refunds[o] : SendRefund(o, i) \/ ConfirmRefund(o, i)
    BY <2>3, SendRefundKeeps, ConfirmRefundKeeps
  <2>4. CASE ReleaseHold(o)
    BY <2>4, HoldsKeep DEF LetsGo
  <2> QED BY <1>3, <2>1, <2>2, <2>3, <2>4, PartnerRespondKeeps, ClosedKeeps
<1> QED BY <1>1, <1>2, <1>3 DEF CaseStep, Reprints, LetsGo

-----------------------------------------------------------------------------
(* The files: the inductive invariant.                                        *)

\* What is on record about a layout is what became of its files.
DeletionTells(l) ==
  /\ tombstone[l].status = "APPLIED" => ~file[l].stored
  /\ ~file[l].stored => tombstone[l].status # "NONE"
  /\ tombstone[l].status # "NONE" => file[l].deleted

\* A sweep erases what has a tombstone, and says so once it is erased.
SweepTells(w) ==
  /\ sweep[w].step \in {"ERASE", "ERASED"} => tombstone[sweep[w].layout].status # "NONE"
  /\ sweep[w].step = "ERASED" => ~file[sweep[w].layout].stored

\* What is printed again is so until the order is over; no sweep has marked the
\* order's own layout, or one that no order is about.
ReprintTells(o) ==
  /\ reprint[o] # {} => order[o] = "REPRINT"
  /\ \A l \in reprint[o] :
       l = Primary[o] \/ Owners(l) = {} => tombstone[l].status = "NONE"

FileTypeOK ==
  /\ version \in [Orders -> Nat]
  /\ reprint \in [Orders -> SUBSET Layouts]
  /\ schedule \in [Orders -> Schedule]
  /\ file \in [Layouts -> File]
  /\ tombstone \in [Layouts -> Tombstone]
  /\ sweep \in [Workers -> Sweep]

IInv ==
  /\ CaseInv /\ FileTypeOK
  /\ \A l \in Layouts : DeletionTells(l)
  /\ \A w \in Workers : SweepTells(w)
  /\ \A o \in Orders : ReprintTells(o)
  /\ HeldIsNonexpired

-----------------------------------------------------------------------------
(* Its parts, step by step.                                                   *)

LEMMA RestingIsOver ==
  ASSUME NEW o \in Orders, order[o] = "REPRINT"
  PROVE  ~Rests(o)
BY DEF Rests, Terminal, Over

\* A new date of a file, NEVER or not, leaves it what it was otherwise.
LEMMA ExpiresKeeps ==
  ASSUME IInv, NEW l \in Layouts, NEW expiry \in {"NEVER", "LATER"},
         Expires(l, expiry)
  PROVE  /\ file' \in [Layouts -> File]
         /\ file'[l].deleted \/ file'[l].expiry = expiry
         /\ \A k \in Layouts : /\ file'[k].deleted = file[k].deleted
                               /\ file'[k].stored = file[k].stored
         /\ \A k \in Layouts \ {l} : file'[k] = file[k]
<1> DEFINE row == [file[l] EXCEPT !.expiry = expiry]
<1>1. file \in [Layouts -> File] /\ file[l] \in File
  BY DEF IInv, FileTypeOK
<1>2. /\ row \in File /\ row.expiry = expiry
      /\ row.deleted = file[l].deleted /\ row.stored = file[l].stored
  BY <1>1 DEF File
<1>3. file' = IF file[l].deleted THEN file ELSE [file EXCEPT ![l] = row]
  BY DEF Expires
<1> HIDE DEF row
<1> QED BY <1>1, <1>2, <1>3

\* The status of the schedule of an order.
LEMMA ScheduleStatus ==
  ASSUME IInv, NEW o \in Orders,
         NEW status \in {"NONE", "ACTIVE", "HELD", "SUPERSEDED", "COMPLETED"},
         schedule' = [schedule EXCEPT ![o].status = status]
  PROVE  /\ schedule' \in [Orders -> Schedule]
         /\ schedule'[o].status = status
         /\ \A p \in Orders \ {o} : schedule'[p] = schedule[p]
<1> DEFINE row == [schedule[o] EXCEPT !.status = status]
<1>1. schedule \in [Orders -> Schedule] /\ schedule[o] \in Schedule
  BY DEF IInv, FileTypeOK
<1>2. row \in Schedule /\ row.status = status
  BY <1>1 DEF Schedule
<1>3. schedule' = [schedule EXCEPT ![o] = row]
  OBVIOUS
<1> HIDE DEF row
<1> QED BY <1>1, <1>2, <1>3

\* Nothing that is on record about a layout is touched.
LEMMA RecordsRest ==
  ASSUME IInv, UNCHANGED <<tombstone, sweep>>,
         \A l \in Layouts : file'[l].deleted = file[l].deleted
                            /\ file'[l].stored = file[l].stored
  PROVE  /\ \A l \in Layouts : DeletionTells(l)'
         /\ \A w \in Workers : SweepTells(w)'
<1>1. \A l \in Layouts : DeletionTells(l)'
  BY DEF IInv, DeletionTells
<1>2. ASSUME NEW w \in Workers PROVE SweepTells(w)'
  <2>1. CASE sweep[w].step \in {"ERASE", "ERASED"}
    <3>1. sweep[w].layout \in Layouts
      BY <2>1 DEF IInv, FileTypeOK, Sweep, Idle
    <3> QED BY <3>1 DEF IInv, SweepTells
  <2>2. CASE sweep[w].step \notin {"ERASE", "ERASED"}
    BY <2>2 DEF SweepTells
  <2> QED BY <2>1, <2>2
<1> QED BY <1>1, <1>2

-----------------------------------------------------------------------------
(* Commands about orders, and their dates.                                    *)

\* A command that needs the files takes their date away.
LEMMA ProtectKeeps ==
  ASSUME IInv, NEW o \in Orders, Protect(o)
  PROVE  /\ file' \in [Layouts -> File] /\ schedule' \in [Orders -> Schedule]
         /\ file'[Primary[o]].deleted \/ file'[Primary[o]].expiry = "NEVER"
         /\ schedule'[o].status # "ACTIVE"
         /\ \A l \in Layouts : /\ file'[l].deleted = file[l].deleted
                               /\ file'[l].stored = file[l].stored
         /\ \A l \in Layouts \ {Primary[o]} : file'[l] = file[l]
         /\ \A p \in Orders \ {o} : schedule'[p] = schedule[p]
<1>1. Primary[o] \in Layouts
  BY RetentionAssumption
<1>2. /\ Expires(Primary[o], "NEVER")
      /\ schedule' = [schedule EXCEPT ![o].status =
                        IF @ \in {"ACTIVE", "HELD"} THEN "SUPERSEDED" ELSE @]
  BY DEF Protect
<1> DEFINE status == IF schedule[o].status \in {"ACTIVE", "HELD"} THEN "SUPERSEDED"
                     ELSE schedule[o].status
<1>3. schedule[o] \in Schedule
  BY DEF IInv, FileTypeOK
<1>4. /\ status \in {"NONE", "ACTIVE", "HELD", "SUPERSEDED", "COMPLETED"}
      /\ status # "ACTIVE"
  BY <1>3 DEF Schedule
<1>5. schedule' = [schedule EXCEPT ![o].status = status]
  BY <1>2
<1> HIDE DEF status
<1> QED BY <1>1, <1>2, <1>4, <1>5, ScheduleStatus, ExpiresKeeps

\* What an order prints again: the items whose files are there, until it is over.
LEMMA ReprintRow ==
  ASSUME IInv, NEW o \in Orders, CaseStep(o)
  PROVE  \E items \in SUBSET Layouts :
           /\ reprint' = [reprint EXCEPT ![o] = items]
           /\ items # {} => order'[o] = "REPRINT"
           /\ items \in {{}, reprint[o]} \/ \A l \in items : Available(l)
<1>1. reprint \in [Orders -> SUBSET Layouts] /\ order \in [Orders -> OrderStatus]
  BY DEF IInv, FileTypeOK, CaseInv, CaseTypeOK
<1>2. CASE \E scope \in SUBSET Items[o] : Reprints(o, scope)
  <2>1. PICK scope \in SUBSET Items[o] : Reprints(o, scope)
    BY <1>2
  <2>2. scope \in SUBSET Layouts
    BY RetentionAssumption
  <2>3. order'[o] = "REPRINT"
    BY <1>1, <2>1 DEF Reprints, ResolveReprint, Decided
  <2> QED BY <2>1, <2>2, <2>3 DEF Reprints
<1>3. CASE (OpenDispute(o) \/ CreateHold(o)) /\ UNCHANGED reprint
  <2>1. reprint[o] # {} => order'[o] = "REPRINT"
    BY <1>3 DEF IInv, ReprintTells, OpenDispute, CreateHold, Over
  <2>2. reprint' = [reprint EXCEPT ![o] = reprint[o]]
    BY <1>1, <1>3
  <2> QED BY <1>1, <2>1, <2>2
<1>4. CASE reprint' = [reprint EXCEPT ![o] = IF order'[o] = "REPRINT" THEN @ ELSE {}]
  <2> DEFINE items == IF order'[o] = "REPRINT" THEN reprint[o] ELSE {}
  <2>1. /\ items \in SUBSET Layouts /\ items \in {{}, reprint[o]}
        /\ items # {} => order'[o] = "REPRINT"
    BY <1>1
  <2>2. reprint' = [reprint EXCEPT ![o] = items]
    BY <1>4
  <2> HIDE DEF items
  <2> QED BY <2>1, <2>2
<1> QED BY <1>2, <1>3, <1>4 DEF CaseStep

LEMMA CaseKeeps == ASSUME IInv, NEW o \in Orders, CaseStep(o) PROVE IInv'
<1>1. /\ CaseInv' /\ OthersRest(o)
      /\ Protect(o) \/ (LetsGo(o) /\ UNCHANGED <<schedule, file>>)
  BY CaseStepKeeps DEF IInv
<1>2. UNCHANGED <<tombstone, sweep>>
  BY DEF CaseStep
<1>3. /\ file' \in [Layouts -> File] /\ schedule' \in [Orders -> Schedule]
      /\ \A l \in Layouts : /\ file'[l].deleted = file[l].deleted
                            /\ file'[l].stored = file[l].stored
  BY <1>1, ProtectKeeps DEF IInv, FileTypeOK
<1>4. version' \in [Orders -> Nat]
  <2>1. version[o] + 1 \in Nat
    BY DEF IInv, FileTypeOK
  <2> QED BY <2>1 DEF CaseStep, IInv, FileTypeOK
<1>5. FileTypeOK'
  BY <1>2, <1>3, <1>4, ReprintRow DEF IInv, FileTypeOK
<1>6. /\ \A l \in Layouts : DeletionTells(l)'
      /\ \A w \in Workers : SweepTells(w)'
  BY <1>2, <1>3, RecordsRest
<1>7. ASSUME NEW p \in Orders PROVE ReprintTells(p)'
  <2>1. PICK items \in SUBSET Layouts :
          /\ reprint' = [reprint EXCEPT ![o] = items]
          /\ items # {} => order'[o] = "REPRINT"
          /\ items \in {{}, reprint[o]} \/ \A l \in items : Available(l)
    BY ReprintRow
  <2>2. reprint \in [Orders -> SUBSET Layouts]
    BY DEF IInv, FileTypeOK
  <2>3. CASE p = o
    BY <1>2, <2>1, <2>2, <2>3 DEF IInv, ReprintTells, Available
  <2>4. CASE p # o
    BY <1>1, <1>2, <2>1, <2>2, <2>4 DEF IInv, ReprintTells, OthersRest
  <2> QED BY <2>3, <2>4
<1>8. HeldIsNonexpired'
  <2>1. CASE Protect(o)
    <3>1. ASSUME NEW p \in Orders, hold'[p] # {}
          PROVE  /\ file'[Primary[p]].deleted \/ file'[Primary[p]].expiry = "NEVER"
                 /\ schedule'[p].status # "ACTIVE"
      <4>1. p # o => hold[p] # {} /\ schedule'[p] = schedule[p]
        BY <1>1, <2>1, <3>1, ProtectKeeps DEF OthersRest
      <4>2. Primary[p] # Primary[o] => file'[Primary[p]] = file[Primary[p]]
        BY <2>1, ProtectKeeps, RetentionAssumption
      <4> QED BY <2>1, <4>1, <4>2, ProtectKeeps DEF IInv, HeldIsNonexpired
    <3> QED BY <3>1 DEF HeldIsNonexpired
  <2>2. CASE LetsGo(o) /\ UNCHANGED <<schedule, file>>
    BY <2>2 DEF LetsGo, OthersRest, IInv, HeldIsNonexpired
  <2> QED BY <1>1, <2>1, <2>2
<1> QED BY <1>1, <1>5, <1>6, <1>7, <1>8 DEF IInv

\* An order that is not at rest: its schedule is put off.
LEMMA HoldKeeps ==
  ASSUME IInv, NEW o \in Orders, Hold(o),
         UNCHANGED <<caseVars, version, reprint, tombstone, sweep>>
  PROVE  IInv'
<1> DEFINE status == IF schedule[o].status = "ACTIVE" THEN "HELD"
                     ELSE schedule[o].status
<1>1. Primary[o] \in Layouts /\ schedule[o] \in Schedule
  BY RetentionAssumption DEF IInv, FileTypeOK
<1>2. /\ status \in {"NONE", "ACTIVE", "HELD", "SUPERSEDED", "COMPLETED"}
      /\ status # "ACTIVE"
  BY <1>1 DEF Schedule
<1>3. /\ Expires(Primary[o], "NEVER")
      /\ schedule' = [schedule EXCEPT ![o].status = status]
  BY DEF Hold
<1> HIDE DEF status
<1>4. /\ file' \in [Layouts -> File] /\ schedule' \in [Orders -> Schedule]
      /\ file'[Primary[o]].deleted \/ file'[Primary[o]].expiry = "NEVER"
      /\ \A l \in Layouts : /\ file'[l].deleted = file[l].deleted
                            /\ file'[l].stored = file[l].stored
      /\ \A l \in Layouts \ {Primary[o]} : file'[l] = file[l]
      /\ schedule'[o].status # "ACTIVE"
      /\ \A p \in Orders \ {o} : schedule'[p] = schedule[p]
  BY <1>1, <1>2, <1>3, ScheduleStatus, ExpiresKeeps
<1>5. UNCHANGED <<order, cycles, dispute, hold, payment, refunds>>
  BY DEF caseVars
<1>6. CaseInv' /\ FileTypeOK'
  BY <1>4, <1>5 DEF IInv, CaseInv, CaseTypeOK, FileTypeOK
<1>7. /\ \A l \in Layouts : DeletionTells(l)'
      /\ \A w \in Workers : SweepTells(w)'
  BY <1>4, RecordsRest
<1>8. \A p \in Orders : ReprintTells(p)'
  BY <1>5 DEF IInv, ReprintTells
<1>9. HeldIsNonexpired'
  BY <1>4, <1>5, RetentionAssumption DEF IInv, HeldIsNonexpired
<1> QED BY <1>6, <1>7, <1>8, <1>9 DEF IInv

\* An order at rest is dated, unless another order of the layout is held.
LEMMA DateKeeps ==
  ASSUME IInv, NEW o \in Orders, Date(o),
         UNCHANGED <<caseVars, version, reprint, tombstone, sweep>>
  PROVE  IInv'
<1> DEFINE expiry == IF ProtectedElsewhere(o) THEN "NEVER" ELSE "LATER"
           row == [version |-> version[o], status |-> "ACTIVE"]
<1>1. Primary[o] \in Layouts /\ Rests(o) /\ expiry \in {"NEVER", "LATER"}
  BY RetentionAssumption DEF Date
<1>2. row \in Schedule
  BY DEF Schedule, IInv, FileTypeOK
<1>3. Expires(Primary[o], expiry) /\ schedule' = [schedule EXCEPT ![o] = row]
  BY DEF Date
<1>4. \A p \in Orders : hold[p] # {} /\ Primary[p] = Primary[o] => expiry = "NEVER"
  BY <1>1 DEF ProtectedElsewhere, Owners, Rests
<1> HIDE DEF expiry, row
<1>5. /\ file' \in [Layouts -> File] /\ schedule' \in [Orders -> Schedule]
      /\ file'[Primary[o]].deleted \/ file'[Primary[o]].expiry = expiry
      /\ \A l \in Layouts : /\ file'[l].deleted = file[l].deleted
                            /\ file'[l].stored = file[l].stored
      /\ \A l \in Layouts \ {Primary[o]} : file'[l] = file[l]
      /\ \A p \in Orders \ {o} : schedule'[p] = schedule[p]
  <2>1. schedule \in [Orders -> Schedule]
    BY DEF IInv, FileTypeOK
  <2> QED BY <1>1, <1>2, <1>3, <2>1, ExpiresKeeps
<1>6. UNCHANGED <<order, cycles, dispute, hold, payment, refunds>>
  BY DEF caseVars
<1>7. CaseInv' /\ FileTypeOK'
  BY <1>5, <1>6 DEF IInv, CaseInv, CaseTypeOK, FileTypeOK
<1>8. /\ \A l \in Layouts : DeletionTells(l)'
      /\ \A w \in Workers : SweepTells(w)'
  BY <1>5, RecordsRest
<1>9. \A p \in Orders : ReprintTells(p)'
  BY <1>6 DEF IInv, ReprintTells
<1>10. HeldIsNonexpired'
  <2>1. ASSUME NEW p \in Orders, hold'[p] # {}
        PROVE  /\ file'[Primary[p]].deleted \/ file'[Primary[p]].expiry = "NEVER"
               /\ schedule'[p].status # "ACTIVE"
    <3>1. hold[p] # {} /\ p # o
      BY <1>1, <1>6, <2>1 DEF Rests
    <3>2. CASE Primary[p] = Primary[o]
      BY <1>4, <1>5, <3>1, <3>2 DEF IInv, HeldIsNonexpired
    <3>3. CASE Primary[p] # Primary[o]
      BY <1>5, <3>1, <3>3, RetentionAssumption DEF IInv, HeldIsNonexpired
    <3> QED BY <3>2, <3>3
  <2> QED BY <2>1 DEF HeldIsNonexpired
<1> QED BY <1>7, <1>8, <1>9, <1>10 DEF IInv

LEMMA DaysPassKeeps == ASSUME IInv, NEW l \in Layouts, DaysPass(l) PROVE IInv'
<1> DEFINE row == [file[l] EXCEPT !.expiry = "DUE"]
<1>1. file \in [Layouts -> File] /\ file[l] \in File /\ file[l].expiry = "LATER"
  BY DEF IInv, FileTypeOK, DaysPass
<1>2. /\ row \in File
      /\ row.deleted = file[l].deleted /\ row.stored = file[l].stored
  BY <1>1 DEF File
<1>3. file' = [file EXCEPT ![l] = row]
  BY DEF DaysPass
<1> HIDE DEF row
<1>4. /\ file' \in [Layouts -> File]
      /\ \A k \in Layouts : /\ file'[k].deleted = file[k].deleted
                            /\ file'[k].stored = file[k].stored
      /\ \A k \in Layouts : file[k].expiry = "NEVER" => file'[k] = file[k]
  BY <1>1, <1>2, <1>3
<1>5. /\ UNCHANGED <<order, cycles, dispute, hold, payment, refunds>>
      /\ UNCHANGED <<version, reprint, schedule, tombstone, sweep>>
  BY DEF DaysPass, caseVars
<1>6. CaseInv' /\ FileTypeOK'
  BY <1>4, <1>5 DEF IInv, CaseInv, CaseTypeOK, FileTypeOK
<1>7. /\ \A k \in Layouts : DeletionTells(k)'
      /\ \A w \in Workers : SweepTells(w)'
  BY <1>4, <1>5, RecordsRest
<1>8. \A p \in Orders : ReprintTells(p)'
  BY <1>5 DEF IInv, ReprintTells
<1>9. HeldIsNonexpired'
  BY <1>4, <1>5, RetentionAssumption DEF IInv, HeldIsNonexpired
<1> QED BY <1>6, <1>7, <1>8, <1>9 DEF IInv

LEMMA CompleteScheduleKeeps ==
  ASSUME IInv, NEW o \in Orders, CompleteSchedule(o)
  PROVE  IInv'
<1>1. /\ schedule' = [schedule EXCEPT ![o].status = "COMPLETED"]
      /\ UNCHANGED <<order, cycles, dispute, hold, payment, refunds>>
      /\ UNCHANGED <<version, reprint, file, tombstone, sweep>>
  BY DEF CompleteSchedule, caseVars, fileVars
<1>2. /\ schedule' \in [Orders -> Schedule]
      /\ \A p \in Orders : schedule'[p].status = "ACTIVE" => schedule[p].status = "ACTIVE"
  BY <1>1, ScheduleStatus
<1>3. CaseInv' /\ FileTypeOK'
  BY <1>1, <1>2 DEF IInv, CaseInv, CaseTypeOK, FileTypeOK
<1>4. /\ \A k \in Layouts : DeletionTells(k)'
      /\ \A w \in Workers : SweepTells(w)'
  BY <1>1, RecordsRest
<1>5. (\A p \in Orders : ReprintTells(p)') /\ HeldIsNonexpired'
  BY <1>1, <1>2 DEF IInv, ReprintTells, HeldIsNonexpired
<1> QED BY <1>3, <1>4, <1>5 DEF IInv

-----------------------------------------------------------------------------
(* The sweeps.                                                                *)

\* Where a sweep is that has read what is due, or erases.
LEMMA SweepRow ==
  ASSUME IInv, NEW w \in Workers
  PROVE  /\ sweep[w] \in Sweep
         /\ sweep[w].step = "DUE" => sweep[w].due \subseteq Due
         /\ sweep[w].step \in {"ERASE", "ERASED"} =>
              /\ sweep[w].layout \in Layouts /\ sweep[w].lease \in 1 .. MaxAttempts
              /\ sweep[w] = [step |-> sweep[w].step, layout |-> sweep[w].layout,
                             lease |-> sweep[w].lease]
<1>1. sweep[w] \in Sweep
  BY DEF IInv, FileTypeOK
<1> QED BY <1>1 DEF Sweep, Idle

\* A sweep takes a step: records are kept, and no file gets another date.
LEMMA SweepKeeps ==
  ASSUME IInv, NEW w \in Workers, NEW s \in Sweep, sweep' = [sweep EXCEPT ![w] = s],
         UNCHANGED <<caseVars, version, reprint, schedule>>,
         file' \in [Layouts -> File], tombstone' \in [Layouts -> Tombstone],
         \A l \in Layouts : /\ DeletionTells(l)'
                            /\ file'[l].expiry = file[l].expiry
                            /\ file[l].deleted => file'[l].deleted
                            /\ ~file[l].stored => ~file'[l].stored
                            /\ tombstone[l].status # "NONE" =>
                                 tombstone'[l].status # "NONE",
         s.step \in {"ERASE", "ERASED"} => tombstone'[s.layout].status # "NONE",
         s.step = "ERASED" => ~file'[s.layout].stored,
         \A o \in Orders : ReprintTells(o)'
  PROVE  IInv'
<1>1. UNCHANGED <<order, cycles, dispute, hold, payment, refunds>>
  BY DEF caseVars
<1>2. CaseInv' /\ FileTypeOK'
  BY <1>1 DEF IInv, CaseInv, CaseTypeOK, FileTypeOK
<1>3. ASSUME NEW v \in Workers PROVE SweepTells(v)'
  <2>1. CASE v = w
    BY <2>1 DEF IInv, FileTypeOK, SweepTells
  <2>2. CASE v # w
    <3>1. sweep'[v] = sweep[v]
      BY <2>2 DEF IInv, FileTypeOK
    <3> QED BY <3>1, SweepRow DEF IInv, SweepTells
  <2> QED BY <2>1, <2>2
<1>4. HeldIsNonexpired'
  BY <1>1, RetentionAssumption DEF IInv, HeldIsNonexpired
<1> QED BY <1>2, <1>3, <1>4 DEF IInv

LEMMA ListDueKeeps == ASSUME IInv, NEW w \in Workers, ListDue(w) PROVE IInv'
<1> DEFINE due == {[order |-> o, version |-> schedule[o].version] :
                    o \in {p \in Orders : IsDue(p)}}
           s == [step |-> "DUE", due |-> due]
<1>1. due \subseteq Due
  BY DEF Due, IInv, FileTypeOK, Schedule
<1>2. s \in Sweep /\ s.step = "DUE"
  BY <1>1 DEF Sweep
<1>3. /\ sweep' = [sweep EXCEPT ![w] = s]
      /\ UNCHANGED <<caseVars, version, reprint, schedule, file, tombstone>>
  BY DEF ListDue
<1> HIDE DEF due, s
<1>4. \A o \in Orders : ReprintTells(o)'
  BY <1>3 DEF IInv, ReprintTells, caseVars
<1> QED BY <1>2, <1>3, <1>4, SweepKeeps DEF IInv, FileTypeOK, DeletionTells

\* A file that is still due, and whose orders are all at rest, is marked.
LEMMA DeleteKeeps ==
  ASSUME IInv, NEW w \in Workers, NEW d \in Due, Delete(w, d)
  PROVE  IInv'
<1> DEFINE l == Primary[d.order]
           s == IF sweep[w].due = {d} THEN Idle
                ELSE [sweep[w] EXCEPT !.due = sweep[w].due \ {d}]
<1>1. /\ d.order \in Orders /\ l \in Layouts
      /\ file \in [Layouts -> File] /\ file[l] \in File
      /\ tombstone \in [Layouts -> Tombstone] /\ tombstone[l] \in Tombstone
  BY RetentionAssumption DEF Due, IInv, FileTypeOK
<1>2. s \in Sweep /\ s.step \in {"IDLE", "DUE"}
  <2>1. sweep[w].step = "DUE" /\ sweep[w] \in Sweep
    BY SweepRow DEF Delete
  <2> QED BY <2>1 DEF Sweep, Idle
<1>3. /\ sweep' = [sweep EXCEPT ![w] = s]
      /\ UNCHANGED <<caseVars, version, reprint, schedule>>
  BY DEF Delete
<1>4. UNCHANGED order
  BY <1>3 DEF caseVars
<1>5. CASE StillDue(d)
  <2> DEFINE f == [file[l] EXCEPT !.deleted = TRUE]
             t == [tombstone[l] EXCEPT !.status = IF @ = "NONE" THEN "PENDING" ELSE @]
  <2>1. /\ f \in File /\ f.deleted
        /\ f.expiry = file[l].expiry /\ f.stored = file[l].stored
    BY <1>1 DEF File
  <2>2. /\ t \in Tombstone /\ t.status # "NONE"
        /\ t.status = "APPLIED" => tombstone[l].status = "APPLIED"
    BY <1>1 DEF Tombstone
  <2>3. file' = [file EXCEPT ![l] = f] /\ tombstone' = [tombstone EXCEPT ![l] = t]
    BY <1>5 DEF Delete
  <2>4. \A o \in Orders : Primary[o] = l => order[o] # "REPRINT"
    BY <1>5, RestingIsOver DEF StillDue, Owners
  <2>5. d.order \in Owners(l)
    BY <1>1 DEF Owners
  <2> HIDE DEF f, t, l
  <2>6. /\ file' \in [Layouts -> File] /\ tombstone' \in [Layouts -> Tombstone]
        /\ file'[l] = f /\ tombstone'[l] = t
        /\ \A k \in Layouts \ {l} : file'[k] = file[k] /\ tombstone'[k] = tombstone[k]
    BY <1>1, <2>1, <2>2, <2>3
  <2>7. ASSUME NEW k \in Layouts
        PROVE  /\ DeletionTells(k)'
               /\ file'[k].expiry = file[k].expiry
               /\ file[k].deleted => file'[k].deleted
               /\ ~file[k].stored => ~file'[k].stored
               /\ tombstone[k].status # "NONE" => tombstone'[k].status # "NONE"
    BY <2>1, <2>2, <2>6 DEF IInv, DeletionTells
  <2>8. ASSUME NEW o \in Orders PROVE ReprintTells(o)'
    <3>1. ReprintTells(o) /\ reprint'[o] = reprint[o] /\ order'[o] = order[o]
      BY <1>3, <1>4 DEF IInv
    <3>2. ASSUME NEW k \in reprint[o], k = Primary[o] \/ Owners(k) = {}
          PROVE  tombstone'[k].status = "NONE"
      <4>1. k # l
        BY <2>4, <2>5, <3>1, <3>2 DEF ReprintTells
      <4>2. k \in Layouts
        BY DEF IInv, FileTypeOK
      <4> QED BY <2>6, <3>1, <3>2, <4>1, <4>2 DEF ReprintTells
    <3> QED BY <3>1, <3>2 DEF ReprintTells
  <2> HIDE DEF s
  <2> QED BY <1>2, <1>3, <2>6, <2>7, <2>8, SweepKeeps
<1>6. CASE ~StillDue(d)
  <2>1. UNCHANGED <<file, tombstone>>
    BY <1>6 DEF Delete
  <2>2. \A o \in Orders : ReprintTells(o)'
    BY <1>3, <1>4, <2>1 DEF IInv, ReprintTells
  <2> HIDE DEF s
  <2> QED BY <1>2, <1>3, <2>1, <2>2, SweepKeeps DEF IInv, FileTypeOK, DeletionTells
<1> QED BY <1>5, <1>6

\* A tombstone is written again, if it is there.
LEMMA TombstoneKeeps ==
  ASSUME IInv, NEW l \in Layouts, NEW t \in Tombstone,
         tombstone' = [tombstone EXCEPT ![l] = t],
         t.status # "NONE" <=> tombstone[l].status # "NONE",
         t.status = "APPLIED" => ~file[l].stored,
         UNCHANGED <<caseVars, reprint, file>>
  PROVE  /\ tombstone' \in [Layouts -> Tombstone] /\ tombstone'[l] = t
         /\ \A k \in Layouts : DeletionTells(k)'
         /\ \A k \in Layouts : tombstone[k].status # "NONE" =>
                                 tombstone'[k].status # "NONE"
         /\ \A o \in Orders : ReprintTells(o)'
<1>1. /\ tombstone' \in [Layouts -> Tombstone] /\ tombstone'[l] = t
      /\ \A k \in Layouts \ {l} : tombstone'[k] = tombstone[k]
  BY DEF IInv, FileTypeOK
<1>2. \A k \in Layouts : DeletionTells(k)'
  BY <1>1 DEF IInv, DeletionTells
<1>3. \A k \in Layouts : tombstone[k].status # "NONE" <=> tombstone'[k].status # "NONE"
  BY <1>1 DEF IInv, DeletionTells
<1>4. \A o \in Orders : ReprintTells(o)'
  BY <1>3, RetentionAssumption DEF IInv, ReprintTells, caseVars
<1> QED BY <1>1, <1>2, <1>3, <1>4

LEMMA ClaimKeeps ==
  ASSUME IInv, NEW w \in Workers, NEW l \in Layouts, Claim(w, l)
  PROVE  IInv'
<1> DEFINE old == tombstone[l]
           lease == old.attempts + 1
           t == [old EXCEPT !.attempts = lease, !.lease = lease, !.expired = FALSE]
           s == [step |-> "ERASE", layout |-> l, lease |-> lease]
<1>1. old \in Tombstone /\ old.status = "PENDING" /\ old.attempts < MaxAttempts
  BY DEF Claim, IInv, FileTypeOK
<1>2. old.attempts \in 0 .. MaxAttempts
  BY <1>1 DEF Tombstone
<1>3. lease \in 0 .. MaxAttempts /\ lease \in 1 .. MaxAttempts
  BY <1>1, <1>2, RetentionAssumption
<1>4. /\ tombstone' = [tombstone EXCEPT ![l] = t] /\ sweep' = [sweep EXCEPT ![w] = s]
      /\ UNCHANGED <<caseVars, version, reprint, schedule, file>>
  BY DEF Claim
<1> HIDE DEF lease
<1>5. t \in Tombstone /\ t.status = old.status
  BY <1>1, <1>3 DEF Tombstone
<1>6. /\ s \in Sweep /\ s.step = "ERASE" /\ s.layout = l
  BY <1>3 DEF Sweep
<1> HIDE DEF old, t, s
<1>7. old = tombstone[l]
  BY DEF old
<1> QED
  BY <1>1, <1>4, <1>5, <1>6, <1>7, TombstoneKeeps, SweepKeeps
     DEF IInv, FileTypeOK

\* What is erased has been marked.
LEMMA EraseKeeps == ASSUME IInv, NEW w \in Workers, Erase(w) PROVE IInv'
<1> DEFINE l == sweep[w].layout
           f == [file[l] EXCEPT !.stored = FALSE]
           s == [sweep[w] EXCEPT !.step = "ERASED"]
<1>1. /\ sweep[w].step = "ERASE" /\ l \in Layouts /\ sweep[w].lease \in 1 .. MaxAttempts
      /\ sweep[w] = [step |-> sweep[w].step, layout |-> l, lease |-> sweep[w].lease]
      /\ file \in [Layouts -> File] /\ file[l] \in File
      /\ tombstone[l].status # "NONE"
  BY SweepRow DEF Erase, IInv, FileTypeOK, SweepTells
<1>2. /\ f \in File /\ ~f.stored
      /\ f.expiry = file[l].expiry /\ f.deleted = file[l].deleted
  BY <1>1 DEF File
<1>3. /\ s = [step |-> "ERASED", layout |-> l, lease |-> sweep[w].lease]
  BY <1>1
<1>4. s \in Sweep /\ s.step = "ERASED" /\ s.layout = l
  BY <1>1, <1>3 DEF Sweep
<1>5. /\ file' = [file EXCEPT ![l] = f] /\ sweep' = [sweep EXCEPT ![w] = s]
      /\ UNCHANGED <<caseVars, version, reprint, schedule, tombstone>>
  BY DEF Erase
<1> HIDE DEF l, f, s
<1>6. /\ file' \in [Layouts -> File] /\ file'[l] = f
      /\ \A k \in Layouts \ {l} : file'[k] = file[k]
  BY <1>1, <1>2, <1>5
<1>7. ASSUME NEW k \in Layouts
      PROVE  /\ DeletionTells(k)'
             /\ file'[k].expiry = file[k].expiry
             /\ file[k].deleted => file'[k].deleted
             /\ ~file[k].stored => ~file'[k].stored
  BY <1>1, <1>2, <1>5, <1>6 DEF IInv, DeletionTells
<1>8. \A o \in Orders : ReprintTells(o)'
  BY <1>5 DEF IInv, ReprintTells, caseVars
<1> QED
  BY <1>1, <1>2, <1>4, <1>5, <1>6, <1>7, <1>8, SweepKeeps DEF IInv, FileTypeOK

\* An attempt ends: its lease, if it still is the latest, is given back.
LEMMA SettleKeeps ==
  ASSUME IInv, NEW w \in Workers, NEW status \in {"PENDING", "APPLIED"},
         sweep[w].step \in {"ERASE", "ERASED"},
         status = "APPLIED" => sweep[w].step = "ERASED",
         Settle(w, status)
  PROVE  IInv'
<1> DEFINE l == sweep[w].layout
           t == [tombstone[l] EXCEPT !.status = status, !.lease = 0, !.expired = FALSE]
<1>1. /\ l \in Layouts /\ tombstone[l] \in Tombstone
      /\ tombstone[l].status # "NONE"
      /\ status = "APPLIED" => ~file[l].stored
  BY SweepRow DEF IInv, FileTypeOK, SweepTells
<1>2. t \in Tombstone /\ t.status = status
  <2>1. 0 \in 0 .. MaxAttempts
    BY RetentionAssumption
  <2> QED BY <1>1, <2>1 DEF Tombstone
<1>3. /\ tombstone' = [tombstone EXCEPT ![l] = t] \/ tombstone' = tombstone
      /\ sweep' = [sweep EXCEPT ![w] = Idle]
      /\ UNCHANGED <<caseVars, version, reprint, schedule, file>>
  BY DEF Settle
<1>4. Idle \in Sweep /\ Idle.step = "IDLE"
  BY DEF Sweep, Idle
<1> HIDE DEF l, t
<1>5. CASE tombstone' = [tombstone EXCEPT ![l] = t]
  <2>1. /\ tombstone' \in [Layouts -> Tombstone]
        /\ \A k \in Layouts : DeletionTells(k)'
        /\ \A k \in Layouts : tombstone[k].status # "NONE" =>
                                tombstone'[k].status # "NONE"
        /\ \A o \in Orders : ReprintTells(o)'
    <3>1. t.status # "NONE"
      BY <1>2
    <3>2. UNCHANGED <<caseVars, reprint, file>> /\ t \in Tombstone /\ l \in Layouts
      BY <1>1, <1>2, <1>3
    <3> QED BY <1>1, <1>2, <1>5, <3>1, <3>2, TombstoneKeeps
  <2> QED BY <1>3, <1>4, <2>1, SweepKeeps DEF IInv, FileTypeOK
<1>6. CASE tombstone' = tombstone
  <2>1. \A o \in Orders : ReprintTells(o)'
    BY <1>3, <1>6 DEF IInv, ReprintTells, caseVars
  <2> QED BY <1>3, <1>4, <1>6, <2>1, SweepKeeps DEF IInv, FileTypeOK, DeletionTells
<1> QED BY <1>3, <1>5, <1>6

LEMMA DiesKeeps == ASSUME IInv, NEW w \in Workers, Dies(w) PROVE IInv'
<1>1. /\ sweep' = [sweep EXCEPT ![w] = Idle]
      /\ UNCHANGED <<caseVars, version, reprint, schedule, file, tombstone>>
  BY DEF Dies
<1>2. Idle \in Sweep /\ Idle.step = "IDLE"
  BY DEF Sweep, Idle
<1>3. \A o \in Orders : ReprintTells(o)'
  BY <1>1 DEF IInv, ReprintTells, caseVars
<1> QED BY <1>1, <1>2, <1>3, SweepKeeps DEF IInv, FileTypeOK, DeletionTells

LEMMA LeaseEndsKeeps == ASSUME IInv, NEW l \in Layouts, LeaseEnds(l) PROVE IInv'
<1> DEFINE t == [tombstone[l] EXCEPT !.expired = TRUE]
<1>1. tombstone[l] \in Tombstone
  BY DEF IInv, FileTypeOK
<1>2. /\ t \in Tombstone /\ t.status = tombstone[l].status
      /\ t.status = "APPLIED" => ~file[l].stored
  BY <1>1 DEF Tombstone, IInv, DeletionTells
<1>3. /\ tombstone' = [tombstone EXCEPT ![l] = t]
      /\ UNCHANGED <<caseVars, version, reprint, schedule, file, sweep>>
  BY DEF LeaseEnds
<1> HIDE DEF t
<1>4. /\ tombstone' \in [Layouts -> Tombstone]
      /\ \A k \in Layouts : DeletionTells(k)'
      /\ \A k \in Layouts : tombstone[k].status # "NONE" =>
                              tombstone'[k].status # "NONE"
      /\ \A o \in Orders : ReprintTells(o)'
  BY <1>2, <1>3, TombstoneKeeps
<1>5. UNCHANGED <<order, cycles, dispute, hold, payment, refunds>>
  BY <1>3 DEF caseVars
<1>6. CaseInv' /\ FileTypeOK'
  BY <1>3, <1>4, <1>5 DEF IInv, CaseInv, CaseTypeOK, FileTypeOK
<1>7. \A w \in Workers : SweepTells(w)'
  BY <1>3, <1>4, SweepRow DEF IInv, SweepTells
<1>8. HeldIsNonexpired'
  BY <1>3, <1>5 DEF IInv, HeldIsNonexpired
<1> QED BY <1>4, <1>6, <1>7, <1>8 DEF IInv

-----------------------------------------------------------------------------
(* The theorems.                                                              *)

LEMMA Start == ASSUME Init PROVE IInv
<1>1. CaseInv
  <2>1. <<"RUNNING">> \in Seq(CycleStatus) /\ Len(<<"RUNNING">>) = 1
    BY DEF CycleStatus
  <2>2. <<>> \in Seq(Refund) /\ NoDispute \in Dispute
    BY DEF NoDispute, Dispute
  <2>3. /\ order = [o \in Orders |-> "PRODUCING"]
        /\ cycles = [o \in Orders |-> <<"RUNNING">>]
        /\ dispute = [o \in Orders |-> NoDispute]
        /\ hold = [o \in Orders |-> {}]
        /\ payment = [o \in Orders |-> "SUCCEEDED"]
        /\ refunds = [o \in Orders |-> <<>>]
    BY DEF Init, CaseInit
  <2>4. /\ order \in [Orders -> OrderStatus]
        /\ cycles \in [Orders -> Seq(CycleStatus)]
        /\ dispute \in [Orders -> Dispute]
        /\ hold \in [Orders -> SUBSET {"DISPUTE", "MANUAL"}]
        /\ payment \in [Orders -> PaymentStatus]
        /\ refunds \in [Orders -> Seq(Refund)]
    BY <2>1, <2>2, <2>3 DEF OrderStatus, PaymentStatus, Refundable
  <2>5. \A o \in Orders : \A c \in DOMAIN cycles[o] : cycles[o][c] \in CycleStatus
    BY <2>4, ElementOfSeq
  <2>6. \A o \in Orders : DOMAIN refunds[o] = {}
    BY <2>3
  <2>7. \A o \in Orders : Len(cycles[o]) > 0 /\ order[o] # "DISPUTED"
    BY <2>1, <2>3
  <2> QED BY <2>4, <2>5, <2>6, <2>7 DEF CaseInv, CaseTypeOK, CycleStatus
<1>2. FileTypeOK
  <2>1. /\ NoSchedule \in Schedule /\ Idle \in Sweep
        /\ [expiry |-> "LATER", deleted |-> FALSE, stored |-> TRUE] \in File
    BY DEF NoSchedule, Schedule, Sweep, File
  <2>2. NoTombstone \in Tombstone
    <3>1. 0 \in 0 .. MaxAttempts
      BY RetentionAssumption
    <3> QED BY <3>1 DEF NoTombstone, Tombstone
  <2> QED BY <2>1, <2>2 DEF Init, FileTypeOK
<1>3. \A l \in Layouts : DeletionTells(l)
  BY DEF Init, DeletionTells, NoTombstone
<1>4. \A w \in Workers : SweepTells(w)
  BY DEF Init, SweepTells, Idle
<1>5. (\A o \in Orders : ReprintTells(o)) /\ HeldIsNonexpired
  BY DEF Init, CaseInit, ReprintTells, HeldIsNonexpired
<1> QED BY <1>1, <1>2, <1>3, <1>4, <1>5 DEF IInv

LEMMA StepKeeps == ASSUME IInv, [Next]_vars PROVE IInv'
<1>1. ASSUME NEW o \in Orders, CaseStep(o) \/ Reconcile(o) \/ CompleteSchedule(o)
      PROVE  IInv'
  BY <1>1, CaseKeeps, HoldKeeps, DateKeeps, CompleteScheduleKeeps DEF Reconcile
<1>2. ASSUME NEW l \in Layouts, DaysPass(l) \/ LeaseEnds(l) PROVE IInv'
  BY <1>2, DaysPassKeeps, LeaseEndsKeeps
<1>3. ASSUME NEW w \in Workers, SweepStep(w) \/ EraseFails(w) \/ Dies(w) PROVE IInv'
  <2>1. CASE sweep[w].step = "DUE" /\ \E d \in sweep[w].due : Delete(w, d)
    BY <2>1, SweepRow, DeleteKeeps
  <2>2. CASE Applied(w) \/ EraseFails(w)
    BY <2>2, SettleKeeps DEF Applied, Marks, EraseFails
  <2> QED BY <1>3, <2>1, <2>2, ListDueKeeps, ClaimKeeps, EraseKeeps, DiesKeeps
          DEF SweepStep
<1>4. CASE UNCHANGED vars
  BY <1>4 DEF vars, caseVars, IInv, CaseInv, CaseTypeOK, FileTypeOK, DeletionTells,
              SweepTells, ReprintTells, HeldIsNonexpired
<1> QED BY <1>1, <1>2, <1>3, <1>4 DEF Next

\* The inductive invariant: what the tombstones, the sweeps, the reprints and the
\* holds say of the files, whatever the customers, the partners, the
\* administrators and the overlapping sweeps of the retention worker do.
THEOREM Invariant == Spec => []IInv
<1> QED BY Start, StepKeeps, PTL DEF Spec

\* Every row has its type (disputes.service.ts, retention-worker.service.ts).
THEOREM TypeCorrect == Spec => []TypeOK
<1>1. IInv => TypeOK
  BY DEF IInv, CaseInv, FileTypeOK, TypeOK
<1> QED BY <1>1, Invariant, PTL

\* A layout of an order that is held or disputed has no date, and no sweep has the
\* order scheduled, unless the deletion was decided before: whatever the other
\* orders of the layout do (protectObjects and reconcileOrder).
THEOREM HeldIsAlwaysNonexpired == Spec => []HeldIsNonexpired
<1>1. IInv => HeldIsNonexpired
  BY DEF IInv
<1> QED BY <1>1, Invariant, PTL

\* What applyDue and retryTombstones put on record about the files of a layout is
\* what became of them: they are gone only after a decision, and are said to be
\* gone only when they are, for whatever items the orders have.
THEOREM RecordsAlwaysTell == Spec => [](\A l \in Layouts : DeletionTells(l))
<1>1. IInv => \A l \in Layouts : DeletionTells(l)
  BY DEF IInv
<1> QED BY <1>1, Invariant, PTL

\* A reprint has the file of its order's own layout, and those that no order is
\* about, although they may have been due, listed, marked or half erased when it was
\* decided (resolve, applyDue and retryTombstones).
THEOREM FilesAlwaysAgree == Spec => []FilesAgree
<1>1. IInv => FilesAgree
  <2>1. ASSUME IInv PROVE TypeOK
    BY <2>1 DEF IInv, CaseInv, FileTypeOK, TypeOK
  <2>2. ASSUME IInv, NEW o \in Orders, NEW l \in reprint[o],
               l = Primary[o] \/ Owners(l) = {}
        PROVE  file[l].stored /\ tombstone[l].status = "NONE"
    <3>1. l \in Layouts
      BY <2>2 DEF IInv, FileTypeOK
    <3> QED BY <2>2, <3>1 DEF IInv, ReprintTells, DeletionTells
  <2>3. ASSUME IInv, NEW l \in Layouts
        PROVE  /\ tombstone[l].status = "APPLIED" => ~file[l].stored
               /\ ~file[l].stored => file[l].deleted /\ tombstone[l].status # "NONE"
    BY <2>3 DEF IInv, DeletionTells
  <2> QED BY <2>1, <2>2, <2>3 DEF FilesAgree
<1> QED BY <1>1, Invariant, PTL

-----------------------------------------------------------------------------
(* Sums of numbers. SumFunction is a fold; that its value is a number is shown*)
(* of the least set of indices for which it would not be.                     *)

\* Any set of natural numbers has a least element.
LEMMA LeastNatural ==
  ASSUME NEW T \in SUBSET Nat, T # {}
  PROVE  \E n \in T : \A m \in T : n <= m
<1> DEFINE R == OpToRel(<, Nat)
<1>1. IsWellFoundedOn(R, Nat)
  BY NatLessThanWellFounded
<1>2. \A m, n \in Nat : m < n => <<m, n>> \in R
  BY DEF OpToRel
<1> HIDE DEF R
<1>3. PICK n \in T : \A m \in T : ~ (<<m, n>> \in R)
  BY <1>1, WFMin
<1>4. \A m \in T : ~ (m < n)
  BY <1>2, <1>3
<1> QED BY <1>4

One(s) == CHOOSE x \in s : TRUE
\* g is what SumFunction computes on the way, for every set of indices in D.
SumsOn(g, f, D) ==
  g = [s \in D |-> IF s = {} THEN 0 ELSE f[One(s)] + g[s \ {One(s)}]]

LEMMA OneIn == ASSUME NEW s, s # {} PROVE One(s) \in s
BY DEF One

LEMMA SumUnfolds ==
  ASSUME NEW f, NEW D, D = DOMAIN f, \E g : SumsOn(g, f, SUBSET D)
  PROVE  \E g : SumsOn(g, f, SUBSET D) /\ SumFunction(f) = g[D]
<1> DEFINE g == CHOOSE h : h = [s \in SUBSET D |->
                  IF s = {} THEN 0
                  ELSE f[CHOOSE x \in s : TRUE] + h[s \ {CHOOSE x \in s : TRUE}]]
<1>1. SumFunction(f) = g[D]
  BY DEF SumFunction, SumFunctionOnSet, FoldFunctionOnSet, MapThenFoldSet
<1>2. SumsOn(g, f, SUBSET D)
  BY DEF SumsOn, One
<1> QED BY <1>1, <1>2

Small(S, n) == {s \in SUBSET S : Cardinality(s) <= n}

LEMMA SumExists ==
  ASSUME NEW S, IsFiniteSet(S), NEW f
  PROVE  \E g : SumsOn(g, f, SUBSET S)
<1> DEFINE Lacking == {n \in Nat : ~ \E g : SumsOn(g, f, Small(S, n))}
<1>1. \A s \in SUBSET S : IsFiniteSet(s) /\ Cardinality(s) \in Nat
  BY FS_Subset, FS_CardinalityType
<1>2. Lacking = {}
  <2> SUFFICES ASSUME Lacking # {} PROVE FALSE
    OBVIOUS
  <2>1. PICK n \in Lacking : \A m \in Lacking : n <= m
    BY LeastNatural
  <2>2. CASE n = 0
    <3>1. \A s \in Small(S, 0) : s = {}
      BY <1>1, FS_EmptySet DEF Small
    <3>2. SumsOn([s \in Small(S, 0) |-> 0], f, Small(S, 0))
      BY <3>1 DEF SumsOn
    <3> QED BY <2>1, <2>2, <3>2
  <2>3. CASE n # 0
    <3>1. n - 1 \in Nat /\ n - 1 \notin Lacking /\ n \in Nat
      BY <2>1, <2>3
    <3>2. PICK g : SumsOn(g, f, Small(S, n - 1))
      BY <3>1
    <3> DEFINE h == [s \in Small(S, n) |->
                       IF s = {} THEN 0 ELSE f[One(s)] + g[s \ {One(s)}]]
    <3>3. ASSUME NEW s \in Small(S, n), s # {}
          PROVE  s \ {One(s)} \in Small(S, n - 1) /\ s \ {One(s)} \in Small(S, n)
      BY <1>1, <3>1, <3>3, OneIn, FS_RemoveElement DEF Small
    <3>4. ASSUME NEW s \in Small(S, n - 1) PROVE s \in Small(S, n) /\ h[s] = g[s]
      <4>1. s \in Small(S, n)
        BY <1>1, <3>1 DEF Small
      <4>2. g[s] = IF s = {} THEN 0 ELSE f[One(s)] + g[s \ {One(s)}]
        BY <3>2 DEF SumsOn
      <4> QED BY <4>1, <4>2
    <3>5. SumsOn(h, f, Small(S, n))
      <4>1. \A s \in Small(S, n) : s # {} => h[s \ {One(s)}] = g[s \ {One(s)}]
        BY <3>3, <3>4
      <4> QED BY <4>1 DEF SumsOn
    <3> QED BY <2>1, <3>5
  <2> QED BY <2>2, <2>3
<1>3. Small(S, Cardinality(S)) = SUBSET S
  BY <1>1, FS_Subset DEF Small
<1>4. Cardinality(S) \in Nat
  BY FS_CardinalityType
<1>5. \E g : SumsOn(g, f, Small(S, Cardinality(S)))
  BY <1>2, <1>4
<1> QED BY <1>3, <1>5

LEMMA SumOfNone == ASSUME NEW f, DOMAIN f = {} PROVE SumFunction(f) = 0
<1>1. \E g : SumsOn(g, f, SUBSET {}) /\ SumFunction(f) = g[{}]
  BY SumExists, SumUnfolds, FS_EmptySet
<1>2. {} \in SUBSET {}
  OBVIOUS
<1> QED BY <1>1, <1>2 DEF SumsOn

LEMMA SumOfOne ==
  ASSUME NEW x, NEW f, DOMAIN f = {x}, f[x] \in Nat
  PROVE  SumFunction(f) = f[x]
<1>1. PICK g : SumsOn(g, f, SUBSET {x}) /\ SumFunction(f) = g[{x}]
  BY SumExists, SumUnfolds, FS_Singleton
<1>2. One({x}) = x /\ {x} \ {x} = {}
  BY OneIn
<1>3. g[{}] = 0 /\ g[{x}] = f[x] + g[{}]
  BY <1>1, <1>2 DEF SumsOn
<1> QED BY <1>1, <1>3

LEMMA SumIsNat ==
  ASSUME NEW S, IsFiniteSet(S), NEW f \in [S -> Nat]
  PROVE  SumFunction(f) \in Nat
<1>1. PICK g : SumsOn(g, f, SUBSET S) /\ SumFunction(f) = g[S]
  BY SumExists, SumUnfolds
<1> DEFINE Odd == {n \in Nat : \E s \in SUBSET S : Cardinality(s) = n /\ g[s] \notin Nat}
<1>2. \A s \in SUBSET S : IsFiniteSet(s) /\ Cardinality(s) \in Nat
  BY FS_Subset, FS_CardinalityType
<1>3. Odd = {}
  <2> SUFFICES ASSUME Odd # {} PROVE FALSE
    OBVIOUS
  <2>1. PICK n \in Odd : \A m \in Odd : n <= m
    BY LeastNatural
  <2>2. PICK s \in SUBSET S : Cardinality(s) = n /\ g[s] \notin Nat
    BY <2>1
  <2>3. g[s] = IF s = {} THEN 0 ELSE f[One(s)] + g[s \ {One(s)}]
    BY <1>1 DEF SumsOn
  <2>4. s # {} /\ One(s) \in s
    BY <2>2, <2>3, OneIn
  <2>5. /\ s \ {One(s)} \in SUBSET S
        /\ Cardinality(s \ {One(s)}) = n - 1 /\ n - 1 \in Nat
    <3>1. IsFiniteSet(s) /\ Cardinality(s) \in Nat /\ Cardinality(s) # 0
      BY <1>2, <2>4, FS_EmptySet
    <3>2. Cardinality(s \ {One(s)}) = Cardinality(s) - 1
      BY <2>4, <3>1, FS_RemoveElement
    <3> QED BY <2>2, <3>1, <3>2
  <2>6. g[s \ {One(s)}] \in Nat
    BY <2>1, <2>5
  <2> QED BY <2>2, <2>3, <2>4, <2>6
<1> QED BY <1>1, <1>2, <1>3

-----------------------------------------------------------------------------
(* The ledger: the inductive invariant.                                       *)

Repaid == {"REFUND_PENDING", "PARTIALLY_REFUNDED", "REFUNDED"}

\* What CasesAgree says, and that an order is refunded once: no dispute is opened
\* about what was refunded in part.
StoryTells(o) ==
  /\ order[o] = "DISPUTED" <=> Active(o)
  /\ "DISPUTE" \in hold[o] <=> Active(o)
  /\ \A s \in Repaid : order[o] = s <=> payment[o] = s
  /\ order[o] \in Repaid <=> refunds[o] # <<>>
  /\ Len(refunds[o]) <= 1
  /\ refunds[o] # <<>> =>
       /\ refunds[o][1].status = "REQUESTED" <=> order[o] = "REFUND_PENDING"
       /\ order[o] = "REFUNDED" <=>
            refunds[o][1].status = "CONFIRMED" /\ refunds[o][1].amount = Price

IsRefunded(o) == refunds[o] # <<>> /\ refunds[o][1].status = "CONFIRMED"

BookTypeOK ==
  /\ events \subseteq Event
  /\ run \in [Runners -> Run]
  /\ ledger \in Seq(Entry)
  /\ batch \in Seq(Batch)
  /\ paid \subseteq DOMAIN batch
  /\ request \in [Requests -> {NoRequest} \cup
       [batch : DOMAIN batch, status : Submittable, attempts : Nat]]
  /\ review \in [Reviewers -> {NoReview} \cup [batch : DOMAIN batch, status : BatchStatus]]

\* What a run has read is still so: REFUNDED and CONFIRMED are for good.
RunTells(w) ==
  /\ run[w] # NoRun /\ run[w].payment = "REFUNDED" => payment[Order(w)] = "REFUNDED"
  /\ At(w, "EACH") /\ run[w].left # {} =>
       run[w].left = {1} /\ run[w].last = 1 /\ IsRefunded(Order(w))

\* The share of the payout that the refund of an order takes back.
Share(o) == (Payout * refunds[o][1].amount) \div Price

EntryTells(n) ==
  LET o == ledger[n].order
  IN /\ ledger[n].refund = 0 => ledger[n] = Earning(o)
     /\ ledger[n].refund # 0 => /\ ledger[n].refund = 1 /\ HasEarning(o)
                                /\ IsRefunded(o) /\ ledger[n].amount = Share(o)

OneEach ==
  \A m, n \in DOMAIN ledger :
    ledger[m].order = ledger[n].order /\ ledger[m].refund = ledger[n].refund => m = n

SubmittedIsPaid ==
  \A b \in DOMAIN batch : batch[b].status \in {"SUBMITTED", "SETTLED"} => b \in paid

LedgerInv ==
  /\ CaseInv /\ BookTypeOK
  /\ \A o \in Orders : StoryTells(o)
  /\ \A w \in Runners : RunTells(w)
  /\ \A n \in DOMAIN ledger : EntryTells(n)
  /\ OneEach
  /\ NoDoublePayout
  /\ SubmittedIsPaid

-----------------------------------------------------------------------------
(* Disputes and refunds.                                                      *)

\* What was refunded stays so.
ForGood(o) ==
  /\ IsRefunded(o) => /\ IsRefunded(o)'
                      /\ refunds'[o][1].amount = refunds[o][1].amount
  /\ payment[o] = "REFUNDED" => payment'[o] = "REFUNDED"

\* The rows of an order a command is not about.
SameRows(o) ==
  /\ order'[o] = order[o] /\ dispute'[o] = dispute[o] /\ hold'[o] = hold[o]
  /\ payment'[o] = payment[o] /\ refunds'[o] = refunds[o]

LEMMA SameRowsTell ==
  ASSUME NEW o, StoryTells(o), SameRows(o)
  PROVE  StoryTells(o)' /\ ForGood(o)
BY DEF StoryTells, SameRows, ForGood, IsRefunded, Active

LEMMA AtMostOne ==
  ASSUME NEW S, NEW s \in Seq(S), Len(s) <= 1, s # <<>>
  PROVE  Len(s) = 1 /\ DOMAIN s = {1} /\ s[1] \in S
<1> DEFINE n == Len(s)
<1>1. n \in Nat /\ n # 0 /\ DOMAIN s = 1 .. n /\ n <= 1
  BY LenProperties, EmptySeq
<1> HIDE DEF n
<1>2. n = 1
  BY <1>1
<1>3. Len(s) = 1
  BY <1>2 DEF n
<1>4. DOMAIN s = {1}
  BY <1>1, <1>2
<1> QED BY <1>3, <1>4, ElementOfSeq

LEMMA RefundFacts ==
  ASSUME CaseInv, NEW o \in Orders, StoryTells(o), NEW i \in DOMAIN refunds[o]
  PROVE  /\ i = 1 /\ Len(refunds[o]) = 1 /\ refunds[o] # <<>>
         /\ refunds[o][1] \in Refund
<1>1. refunds[o] \in Seq(Refund) /\ Len(refunds[o]) <= 1
  BY DEF CaseInv, StoryTells
<1>2. refunds[o] # <<>>
  OBVIOUS
<1> QED BY <1>1, <1>2, AtMostOne

LEMMA EndsTells ==
  ASSUME CaseInv, NEW o \in Orders, StoryTells(o), NEW status \in Over, NEW cycle,
         Ends(o, status, cycle)
  PROVE  StoryTells(o)' /\ ForGood(o)
<1>1. order'[o] = status
  BY DEF Ends, CaseInv, CaseTypeOK
<1> QED BY <1>1 DEF Ends, StoryTells, ForGood, IsRefunded, Active, Over, Repaid

LEMMA OpenDisputeTells ==
  ASSUME CaseInv, NEW o \in Orders, StoryTells(o), OpenDispute(o)
  PROVE  StoryTells(o)' /\ ForGood(o)
<1>1. /\ order'[o] = "DISPUTED" /\ dispute'[o].status = "OPEN"
      /\ hold'[o] = hold[o] \cup {"DISPUTE"}
  BY DEF OpenDispute, CaseInv, CaseTypeOK
<1> QED BY <1>1 DEF OpenDispute, StoryTells, ForGood, IsRefunded, Active, Over, Repaid

LEMMA PartnerRespondTells ==
  ASSUME CaseInv, NEW o \in Orders, StoryTells(o), PartnerRespond(o)
  PROVE  StoryTells(o)' /\ ForGood(o)
<1>1. dispute'[o].status = "PARTNER_RESPONDED"
  BY DEF PartnerRespond, CaseInv, CaseTypeOK, Dispute
<1> QED BY <1>1 DEF PartnerRespond, StoryTells, ForGood, IsRefunded, Active

LEMMA DecidedTells ==
  ASSUME CaseInv, NEW o \in Orders, NEW status \in {"CANCELLED", "RESOLVED"},
         NEW next, Decided(o, status, next)
  PROVE  /\ ~Active(o)' /\ order'[o] = next /\ hold'[o] = hold[o] \ {"DISPUTE"}
BY DEF Decided, CaseInv, CaseTypeOK, Dispute, Active

LEMMA ClosedTells ==
  ASSUME CaseInv, NEW o \in Orders, StoryTells(o), NEW status \in {"CANCELLED", "RESOLVED"},
         NEW next \in Over \cup {"REPRINT"}, Decided(o, status, next),
         order[o] = "DISPUTED", UNCHANGED <<payment, refunds>>
  PROVE  StoryTells(o)' /\ ForGood(o)
BY DecidedTells DEF StoryTells, ForGood, IsRefunded, Over, Repaid

LEMMA ResolveRefundTells ==
  ASSUME CaseInv, NEW o \in Orders, StoryTells(o), NEW amount \in 1 .. Price,
         ResolveRefund(o, amount)
  PROVE  StoryTells(o)' /\ ForGood(o)
<1> DEFINE refund == [amount |-> amount, status |-> "REQUESTED", sent |-> FALSE]
<1>1. refunds[o] = <<>> /\ payment[o] # "REFUNDED"
  BY DEF ResolveRefund, StoryTells, Repaid
<1>2. refunds'[o] = Append(refunds[o], refund) /\ payment'[o] = "REFUND_PENDING"
  BY DEF ResolveRefund, CaseInv, CaseTypeOK
<1>3. refunds'[o] = <<refund>>
  BY <1>1, <1>2
<1>4. Len(refunds'[o]) = 1 /\ refunds'[o] # <<>> /\ refunds'[o][1].status = "REQUESTED"
  BY <1>3
<1>5. ~Active(o)' /\ order'[o] = "REFUND_PENDING" /\ hold'[o] = hold[o] \ {"DISPUTE"}
  BY DecidedTells DEF ResolveRefund
<1> QED BY <1>1, <1>2, <1>4, <1>5 DEF StoryTells, ForGood, IsRefunded, Repaid

LEMMA HoldsTell ==
  ASSUME CaseInv, NEW o \in Orders, StoryTells(o), CreateHold(o) \/ ReleaseHold(o)
  PROVE  StoryTells(o)' /\ ForGood(o)
<1>1. "DISPUTE" \in hold'[o] <=> "DISPUTE" \in hold[o]
  BY DEF CreateHold, ReleaseHold, CaseInv, CaseTypeOK
<1> QED BY <1>1 DEF CreateHold, ReleaseHold, StoryTells, ForGood, IsRefunded, Active

LEMMA SendRefundTells ==
  ASSUME CaseInv, NEW o \in Orders, StoryTells(o), NEW i \in DOMAIN refunds[o],
         SendRefund(o, i)
  PROVE  StoryTells(o)' /\ ForGood(o)
<1>1. i = 1 /\ Len(refunds[o]) = 1 /\ refunds[o][1] \in Refund /\ refunds[o] \in Seq(Refund)
  BY RefundFacts DEF CaseInv
<1>2. refunds'[o] = [refunds[o] EXCEPT ![1] = [@ EXCEPT !.sent = TRUE]]
  BY <1>1 DEF SendRefund, CaseInv
<1>3. /\ Len(refunds'[o]) = 1 /\ refunds'[o] # <<>>
      /\ refunds'[o][1].status = refunds[o][1].status
      /\ refunds'[o][1].amount = refunds[o][1].amount
  BY <1>1, <1>2 DEF Refund
<1> QED BY <1>1, <1>3, RefundFacts DEF SendRefund, StoryTells, ForGood, IsRefunded, Active

\* What the refund of an order comes to.
LEMMA RefundSums ==
  ASSUME CaseInv, NEW o \in Orders, StoryTells(o)
  PROVE  /\ refunds[o] = <<>> => Spent(o) = 0 /\ Refunded(o) = 0
         /\ refunds[o] # <<>> =>
              /\ Spent(o) = refunds[o][1].amount
              /\ Refunded(o) = IF IsRefunded(o) THEN refunds[o][1].amount ELSE 0
<1> DEFINE amounts(S) == [i \in S |-> refunds[o][i].amount]
<1>1. SumFunction(amounts({})) = 0
  BY SumOfNone
<1>2. refunds[o] \in Seq(Refund) /\ Len(refunds[o]) <= 1
  BY DEF CaseInv, StoryTells
<1>3. CASE refunds[o] = <<>>
  BY <1>1, <1>3 DEF Spent, Refunded, Amounts, Confirmed
<1>4. CASE refunds[o] # <<>>
  <2>1. DOMAIN refunds[o] = {1} /\ refunds[o][1] \in Refund
    BY <1>2, <1>4, RefundFacts
  <2>2. refunds[o][1].amount \in Nat
    BY <2>1, AftercareAssumption DEF Refund
  <2>3. SumFunction(amounts({1})) = refunds[o][1].amount
    BY <2>2, SumOfOne
  <2>4. Confirmed(o) = IF IsRefunded(o) THEN {1} ELSE {}
    BY <1>4, <2>1 DEF Confirmed, IsRefunded
  <2> QED BY <1>1, <1>4, <2>1, <2>3, <2>4 DEF Spent, Refunded, Amounts
<1> QED BY <1>3, <1>4

LEMMA ConfirmRefundTells ==
  ASSUME CaseInv, NEW o \in Orders, StoryTells(o), NEW i \in DOMAIN refunds[o],
         ConfirmRefund(o, i)
  PROVE  StoryTells(o)' /\ ForGood(o)
<1>1. /\ i = 1 /\ Len(refunds[o]) = 1 /\ refunds[o] # <<>>
      /\ refunds[o][1] \in Refund /\ refunds[o] \in Seq(Refund)
  BY RefundFacts DEF CaseInv
<1>2. refunds'[o] = [refunds[o] EXCEPT ![1] = [@ EXCEPT !.status = "CONFIRMED"]]
  BY <1>1 DEF ConfirmRefund, CaseInv
<1>3. /\ Len(refunds'[o]) = 1 /\ refunds'[o] # <<>>
      /\ refunds'[o][1].status = "CONFIRMED"
      /\ refunds'[o][1].amount = refunds[o][1].amount
  BY <1>1, <1>2 DEF Refund
<1>4. ~IsRefunded(o) /\ Refunded(o) = 0
  BY <1>1, RefundSums DEF ConfirmRefund, IsRefunded
<1>5. FullyRefunded(o, i) <=> refunds[o][1].amount = Price
  BY <1>1, <1>4, AftercareAssumption DEF FullyRefunded, Refund
<1>6. LET status == IF refunds[o][1].amount = Price THEN "REFUNDED" ELSE "PARTIALLY_REFUNDED"
      IN payment'[o] = status /\ order'[o] = status
  BY <1>5 DEF ConfirmRefund, CaseInv, CaseTypeOK
<1>7. ~Active(o)' /\ hold' = hold /\ ~Active(o) /\ order[o] = "REFUND_PENDING"
      /\ payment[o] = "REFUND_PENDING"
  BY DEF ConfirmRefund, StoryTells, Active
<1> QED BY <1>3, <1>4, <1>6, <1>7 DEF StoryTells, ForGood, Repaid

LEMMA CaseAgrees ==
  ASSUME CaseInv, \A o \in Orders : StoryTells(o)
  PROVE  CasesAgree
<1> SUFFICES ASSUME NEW o \in Orders
             PROVE  /\ order[o] = "DISPUTED" <=> Active(o)
                    /\ "DISPUTE" \in hold[o] <=> Active(o)
                    /\ order[o] = "REFUND_PENDING" <=> payment[o] = "REFUND_PENDING"
                    /\ order[o] = "REFUND_PENDING" <=>
                         \E i \in DOMAIN refunds[o] : refunds[o][i].status # "CONFIRMED"
                    /\ order[o] = "REFUNDED" <=> Refunded(o) = Price
                    /\ Spent(o) <= Price
  BY DEF CasesAgree
<1>1. StoryTells(o)
  OBVIOUS
<1>2. CASE refunds[o] = <<>>
  BY <1>1, <1>2, RefundSums, AftercareAssumption DEF StoryTells, Repaid
<1>3. CASE refunds[o] # <<>>
  <2>1. DOMAIN refunds[o] = {1} /\ refunds[o][1] \in Refund
    <3>1. refunds[o] \in Seq(Refund) /\ Len(refunds[o]) <= 1
      BY <1>1 DEF CaseInv, StoryTells
    <3> QED BY <1>3, <3>1, AtMostOne
  <2>2. /\ refunds[o][1].amount \in 1 .. Price /\ Price \in Nat
        /\ refunds[o][1].status # "CONFIRMED" <=> refunds[o][1].status = "REQUESTED"
    BY <2>1, AftercareAssumption DEF Refund
  <2>3. /\ Spent(o) = refunds[o][1].amount
        /\ Refunded(o) = IF IsRefunded(o) THEN refunds[o][1].amount ELSE 0
    BY <1>1, <1>3, RefundSums
  <2> QED BY <1>1, <1>3, <2>1, <2>2, <2>3 DEF StoryTells, Repaid, IsRefunded
<1> QED BY <1>2, <1>3

\* Every step of an order's life.
LEMMA OrderStepTells ==
  ASSUME CaseInv, \A p \in Orders : StoryTells(p), events \subseteq Event,
         NEW o \in Orders, OrderStep(o)
  PROVE  /\ CaseInv' /\ events' \subseteq Event
         /\ \A p \in Orders : StoryTells(p)' /\ ForGood(p)
<1>1. StoryTells(o)
  OBVIOUS
<1>2. events' \subseteq Event
  BY DEF OrderStep, Emit, Event
<1>3. \A p \in Orders \ {o} : SameRows(p)
  BY DEF OrderStep, SameRows, Complete, FailDelivery, Ends, OpenDispute,
         PartnerRespond, CancelDispute, ResolveNoAction, ResolveReprint,
         ResolveRefund, Decided, CreateHold, ReleaseHold, SendRefund, ConfirmRefund,
         CaseInv, CaseTypeOK
<1>4. CaseInv' /\ StoryTells(o)' /\ ForGood(o)
  <2>1. CASE Complete(o) \/ FailDelivery(o)
    BY <1>1, <2>1, EndsKeeps, EndsTells DEF Complete, FailDelivery, Over, CycleStatus
  <2>2. CASE OpenDispute(o)
    BY <1>1, <2>2, OpenDisputeKeeps, OpenDisputeTells
  <2>3. CASE PartnerRespond(o)
    BY <1>1, <2>3, PartnerRespondKeeps, PartnerRespondTells
  <2>4. CASE CancelDispute(o) \/ ResolveNoAction(o)
    <3>1. /\ order[o] = "DISPUTED" /\ dispute[o].from \in Over
          /\ \/ Decided(o, "CANCELLED", dispute[o].from)
             \/ Decided(o, "RESOLVED", dispute[o].from)
          /\ UNCHANGED <<payment, refunds>>
      BY <2>4 DEF CancelDispute, ResolveNoAction, CaseInv
    <3> QED BY <1>1, <2>4, <3>1, ClosedKeeps, ClosedTells
  <2>5. CASE ResolveReprint(o)
    BY <1>1, <2>5, ResolveReprintKeeps, ClosedTells DEF ResolveReprint
  <2>6. CASE \E amount \in 1 .. Price : ResolveRefund(o, amount)
    BY <1>1, <2>6, ResolveRefundKeeps, ResolveRefundTells
  <2>7. CASE CreateHold(o) \/ ReleaseHold(o)
    BY <1>1, <2>7, HoldsKeep, HoldsTell
  <2>8. CASE \E i \in DOMAIN refunds[o] : SendRefund(o, i)
    BY <1>1, <2>8, SendRefundKeeps, SendRefundTells
  <2>9. CASE \E i \in DOMAIN refunds[o] : ConfirmRefund(o, i)
    BY <1>1, <2>9, ConfirmRefundKeeps, ConfirmRefundTells
  <2> QED BY <2>1, <2>2, <2>3, <2>4, <2>5, <2>6, <2>7, <2>8, <2>9 DEF OrderStep
<1> QED BY <1>2, <1>3, <1>4, SameRowsTell

-----------------------------------------------------------------------------
(* The share of a refund: rounded down, within the payout, and all of it when *)
(* the whole price goes back.                                                 *)

LEMMA ShareOf ==
  ASSUME NEW payout \in Nat, NEW price \in Nat \ {0}, NEW amount \in 1 .. price
  PROVE  LET share == (payout * amount) \div price
         IN /\ share \in Nat /\ share <= payout
            /\ share * price <= payout * amount
            /\ payout * amount < (share + 1) * price
            /\ amount = price => share = payout
<1> DEFINE share == (payout * amount) \div price
<1>1. /\ share \in Nat /\ share * price <= payout * amount
      /\ payout * amount < share * price + price
  OBVIOUS
<1>2. payout * amount <= payout * price
  OBVIOUS
<1>3. amount = price => share = payout
  OBVIOUS
<1> HIDE DEF share
<1>4. share * price <= payout * price
  BY <1>1, <1>2
<1>5. share <= payout
  BY <1>1, <1>4
<1>6. (share + 1) * price = share * price + price
  BY <1>1
<1> QED BY <1>1, <1>3, <1>5, <1>6 DEF share

LEMMA ShareFacts ==
  ASSUME CaseInv, NEW o \in Orders, StoryTells(o), IsRefunded(o)
  PROVE  /\ Share(o) \in 0 .. Payout
         /\ Share(o) * Price <= Payout * refunds[o][1].amount
         /\ Payout * refunds[o][1].amount < (Share(o) + 1) * Price
         /\ refunds[o][1].amount = Price => Share(o) = Payout
<1>1. refunds[o] \in Seq(Refund) /\ refunds[o] # <<>> /\ Len(refunds[o]) <= 1
  BY DEF CaseInv, StoryTells, IsRefunded
<1>2. refunds[o][1].amount \in 1 .. Price
  <2>1. refunds[o][1] \in Refund
    BY <1>1, AtMostOne
  <2> QED BY <2>1 DEF Refund
<1>3. Payout \in Nat /\ Price \in Nat \ {0}
  BY AftercareAssumption, LedgerAssumption
<1> DEFINE amount == refunds[o][1].amount
<1>4. amount \in 1 .. Price
  BY <1>2
<1> HIDE DEF amount
<1>5. LET share == (Payout * amount) \div Price
      IN /\ share \in Nat /\ share <= Payout
         /\ share * Price <= Payout * amount
         /\ Payout * amount < (share + 1) * Price
         /\ amount = Price => share = Payout
  BY <1>3, <1>4, ShareOf
<1> QED BY <1>3, <1>5 DEF amount, Share

LEMMA ShareStays ==
  ASSUME NEW o, IsRefunded(o), ForGood(o)
  PROVE  Share(o)' = Share(o)
BY DEF ForGood, Share

-----------------------------------------------------------------------------
(* The runs of the jobs.                                                      *)

LEMMA LedgerStarts == ASSUME LedgerInit PROVE LedgerInv
<1>1. CaseInv
  BY DEF LedgerInit, CaseInit, CaseInv, CaseTypeOK, OrderStatus, Dispute, NoDispute,
         PaymentStatus, Refundable, CycleStatus
<1>2. BookTypeOK
  BY DEF LedgerInit, BookTypeOK, Run, NoRun
<1>3. \A o \in Orders : StoryTells(o)
  BY DEF LedgerInit, CaseInit, StoryTells, Active, NoDispute, Repaid
<1>4. \A w \in Runners : RunTells(w)
  BY DEF LedgerInit, RunTells, NoRun, At
<1> QED BY <1>1, <1>2, <1>3, <1>4
        DEF LedgerInit, LedgerInv, OneEach, NoDoublePayout, SubmittedIsPaid

\* The life of an order leaves the books alone, and what they say of it is so.
LEMMA OrderStepBooks ==
  ASSUME LedgerInv, NEW o \in Orders, OrderStep(o), UNCHANGED bookVars
  PROVE  LedgerInv'
<1>1. /\ CaseInv' /\ events' \subseteq Event
      /\ \A p \in Orders : StoryTells(p)' /\ ForGood(p)
  BY OrderStepTells DEF LedgerInv, BookTypeOK
<1>2. BookTypeOK'
  BY <1>1 DEF LedgerInv, BookTypeOK, bookVars, Batch
<1>3. ASSUME NEW w \in Runners PROVE RunTells(w)'
  <2>1. CASE run[w] = NoRun
    BY <2>1 DEF bookVars, RunTells, NoRun, At
  <2>2. CASE run[w] # NoRun
    <3>1. Order(w) \in Orders
      BY <2>2 DEF LedgerInv, BookTypeOK, Run, Order, Event
    <3>2. RunTells(w) /\ ForGood(Order(w)) /\ Order(w)' = Order(w)
      BY <1>1, <3>1 DEF LedgerInv, Order, bookVars
    <3> QED BY <3>2 DEF RunTells, bookVars, ForGood, At
  <2> QED BY <2>1, <2>2
<1>4. ASSUME NEW n \in DOMAIN ledger PROVE EntryTells(n)'
  <2>1. ledger[n].order \in Orders
    <3>1. ledger[n] \in Entry
      BY ElementOfSeq DEF LedgerInv, BookTypeOK
    <3> QED BY <3>1 DEF Entry
  <2>2. EntryTells(n) /\ ForGood(ledger[n].order)
    BY <1>1, <2>1 DEF LedgerInv
  <2> QED BY <2>2, ShareStays DEF EntryTells, bookVars, ForGood, HasEarning, Earning
<1>5. ledger' = ledger /\ batch' = batch /\ paid' = paid
  BY DEF bookVars
<1>6. OneEach' /\ SubmittedIsPaid'
  BY <1>5 DEF LedgerInv, OneEach, SubmittedIsPaid
<1>7. NoDoublePayout'
  <2>1. \A ns : Net(ns)' = Net(ns)
    BY <1>5 DEF Net, Amounts
  <2> QED BY <1>5, <2>1 DEF LedgerInv, NoDoublePayout
<1> QED BY <1>1, <1>2, <1>3, <1>4, <1>5, <1>6, <1>7 DEF LedgerInv

\* One run moves on, and what it has read is so.
LEMMA RunMoves ==
  ASSUME LedgerInv, NEW w \in Runners, NEW r \in Run, run' = [run EXCEPT ![w] = r],
         RunTells(w)', UNCHANGED <<caseVars, ledger, batch, paid, request, review>>,
         events' \subseteq Event
  PROVE  LedgerInv'
<1>1. /\ order' = order /\ cycles' = cycles /\ dispute' = dispute /\ hold' = hold
      /\ payment' = payment /\ refunds' = refunds
      /\ ledger' = ledger /\ batch' = batch /\ paid' = paid /\ request' = request /\ review' = review
  BY DEF caseVars
<1>2. BookTypeOK'
  BY <1>1 DEF LedgerInv, BookTypeOK, Batch
<1>3. ASSUME NEW v \in Runners PROVE RunTells(v)'
  <2>1. CASE v = w
    BY <2>1
  <2>2. CASE v # w
    <3>1. run'[v] = run[v] /\ RunTells(v)
      BY <2>2 DEF LedgerInv, BookTypeOK
    <3> QED BY <1>1, <3>1 DEF RunTells, At, Order, IsRefunded
  <2> QED BY <2>1, <2>2
<1>4. CaseInv' /\ \A o \in Orders : StoryTells(o)'
  BY <1>1 DEF LedgerInv, CaseInv, CaseTypeOK, StoryTells, Active
<1>5. \A n \in DOMAIN ledger : EntryTells(n)'
  BY <1>1 DEF LedgerInv, EntryTells, Earning, HasEarning, IsRefunded, Share
<1>6. OneEach' /\ SubmittedIsPaid'
  BY <1>1 DEF LedgerInv, OneEach, SubmittedIsPaid
<1>7. NoDoublePayout'
  <2>1. \A ns : Net(ns)' = Net(ns)
    BY <1>1 DEF Net, Amounts
  <2> QED BY <1>1, <2>1 DEF LedgerInv, NoDoublePayout
<1> QED BY <1>1, <1>2, <1>3, <1>4, <1>5, <1>6, <1>7 DEF LedgerInv

LEMMA RunFacts ==
  ASSUME LedgerInv, NEW w \in Runners, run[w] # NoRun
  PROVE  /\ run[w] \in [step : {"COMPLETED", "EARNED", "REFUNDS", "EACH"},
                        event : Event, payment : PaymentStatus, left : SUBSET Nat,
                        last : Nat]
         /\ Order(w) \in Orders
<1>1. run[w] \in Run
  BY DEF LedgerInv, BookTypeOK
<1> QED BY <1>1 DEF Run, Order, Event

LEMMA ConfirmedIsOne ==
  ASSUME LedgerInv, NEW o \in Orders
  PROVE  Confirmed(o) = IF IsRefunded(o) THEN {1} ELSE {}
<1>1. refunds[o] \in Seq(Refund) /\ Len(refunds[o]) <= 1
  BY DEF LedgerInv, CaseInv, StoryTells
<1>2. refunds[o] = <<>> => DOMAIN refunds[o] = {}
  OBVIOUS
<1> QED BY <1>1, <1>2, AtMostOne DEF Confirmed, IsRefunded

LEMMA StartsTells ==
  ASSUME LedgerInv, NEW w \in Runners, NEW o \in Orders,
         StartEarning(w, o) \/ StartRefunds(w, o)
  PROVE  LedgerInv'
<1> DEFINE started(step, kind) ==
      [step |-> step, event |-> [kind |-> kind, order |-> o], payment |-> "SUCCEEDED",
       left |-> {}, last |-> 0]
<1>1. CASE run' = run
  <2>1. /\ UNCHANGED <<caseVars, ledger, batch, paid, request, review>>
        /\ events' \subseteq Event /\ run[w] = NoRun
        /\ run' = [run EXCEPT ![w] = NoRun]
    BY <1>1 DEF StartEarning, StartRefunds, LedgerInv, BookTypeOK, Starts
  <2>2. run'[w] = NoRun /\ NoRun \in Run
    BY <1>1, <2>1 DEF Run
  <2>3. RunTells(w)'
    BY <2>2 DEF RunTells, At, NoRun
  <2> QED BY <2>1, <2>2, <2>3, RunMoves
<1>2. CASE run' # run
  <2>1. PICK kind \in {"COMPLETED", "REFUNDED"}, step \in {"COMPLETED", "EARNED"} :
          run' = [run EXCEPT ![w] = started(step, kind)]
    BY <1>2 DEF StartEarning, StartRefunds, Starts
  <2>2. started(step, kind) \in Run /\ run'[w] = started(step, kind)
    BY <2>1 DEF Run, Event, PaymentStatus, Refundable, LedgerInv, BookTypeOK
  <2>3. /\ UNCHANGED <<caseVars, ledger, batch, paid, request, review>>
        /\ events' \subseteq Event
    BY <1>2 DEF StartEarning, StartRefunds, LedgerInv, BookTypeOK
  <2>4. RunTells(w)'
    BY <2>2 DEF RunTells, At
  <2> QED BY <2>1, <2>2, <2>3, <2>4, RunMoves
<1> QED BY <1>1, <1>2

LEMMA ReadsTell ==
  ASSUME LedgerInv, NEW w \in Runners, ReadPayment(w) \/ ReadRefunds(w)
  PROVE  LedgerInv'
<1>1. run[w] # NoRun /\ UNCHANGED <<caseVars, events, ledger, batch, paid, request, review>>
  BY DEF ReadPayment, ReadRefunds, At, NoRun
<1>2. /\ run[w] \in [step : {"COMPLETED", "EARNED", "REFUNDS", "EACH"},
                     event : Event, payment : PaymentStatus, left : SUBSET Nat,
                     last : Nat]
      /\ Order(w) \in Orders /\ w \in DOMAIN run
  BY <1>1, RunFacts DEF LedgerInv, BookTypeOK
<1>3. CASE ReadPayment(w)
  <2> DEFINE r == [run[w] EXCEPT !.step = "REFUNDS", !.payment = payment[Order(w)]]
  <2>1. payment[Order(w)] \in PaymentStatus
    BY <1>2 DEF LedgerInv, CaseInv, CaseTypeOK
  <2>2. run' = [run EXCEPT ![w] = r] /\ r \in Run
    BY <1>2, <1>3, <2>1 DEF ReadPayment, Run
  <2>3. run'[w] = r /\ run'[w].step = "REFUNDS" /\ run'[w].event = run[w].event
        /\ run'[w].payment = payment[Order(w)]
    BY <1>2, <2>2
  <2>4. RunTells(w)'
    BY <1>1, <2>3 DEF RunTells, At, Order, caseVars
  <2> QED BY <1>1, <2>2, <2>4, RunMoves DEF LedgerInv, BookTypeOK
<1>4. CASE ReadRefunds(w)
  <2> DEFINE done == Confirmed(Order(w))
             last == IF done = {} THEN 0 ELSE Max(done)
             r == [run[w] EXCEPT !.step = "EACH", !.left = done, !.last = last]
  <2>1. done = IF IsRefunded(Order(w)) THEN {1} ELSE {}
    BY <1>2, ConfirmedIsOne
  <2>2. Max({1}) = 1
    BY DEF Max
  <2>3. last = IF IsRefunded(Order(w)) THEN 1 ELSE 0
    BY <2>1, <2>2
  <2>4. run' = [run EXCEPT ![w] = r]
    BY <1>2, <1>4 DEF ReadRefunds
  <2> HIDE DEF done, last
  <2>5. r \in Run
    <3>1. done \in SUBSET Nat /\ last \in Nat
      BY <2>1, <2>3
    <3>2. r \in [step : {"COMPLETED", "EARNED", "REFUNDS", "EACH"}, event : Event,
                payment : PaymentStatus, left : SUBSET Nat, last : Nat]
      BY <1>2, <3>1
    <3> QED BY <3>2 DEF Run
  <2>6. run'[w] = r /\ run'[w].event = run[w].event /\ run'[w].left = done
        /\ run'[w].last = last /\ run'[w].payment = run[w].payment
    BY <1>2, <2>4
  <2>7. RunTells(w)
    BY DEF LedgerInv
  <2>8. RunTells(w)'
    BY <1>1, <2>1, <2>3, <2>6, <2>7 DEF RunTells, At, Order, IsRefunded, caseVars
  <2> QED BY <1>1, <2>4, <2>5, <2>8, RunMoves DEF LedgerInv, BookTypeOK
<1> QED BY <1>3, <1>4

LEMMA EndsRun ==
  ASSUME LedgerInv, NEW w \in Runners, Finish(w) \/ RunDies(w)
  PROVE  LedgerInv'
<1>1. /\ UNCHANGED <<caseVars, ledger, batch, paid, request, review>>
      /\ events' \subseteq Event /\ run' = [run EXCEPT ![w] = NoRun]
  BY DEF Finish, Ended, RunDies, LedgerInv, BookTypeOK
<1>2. run'[w] = NoRun /\ NoRun \in Run
  BY <1>1 DEF LedgerInv, BookTypeOK, Run
<1>3. RunTells(w)'
  BY <1>2 DEF RunTells, At, NoRun
<1> QED BY <1>1, <1>2, <1>3, RunMoves

-----------------------------------------------------------------------------
(* The ledger grows.                                                          *)

LEMMA Appended ==
  ASSUME NEW S, NEW s \in Seq(S), NEW e \in S
  PROVE  /\ Append(s, e) \in Seq(S)
         /\ DOMAIN Append(s, e) = DOMAIN s \cup {Len(s) + 1}
         /\ Len(s) + 1 \notin DOMAIN s /\ Len(s) + 1 \in Nat
         /\ \A n \in DOMAIN s : Append(s, e)[n] = s[n]
         /\ Append(s, e)[Len(s) + 1] = e
OBVIOUS

\* A sum over entries that are there does not change.
LEMMA NetStays ==
  ASSUME NEW ns \in SUBSET DOMAIN ledger, \A n \in DOMAIN ledger : ledger'[n] = ledger[n]
  PROVE  Net(ns)' = Net(ns)
<1> DEFINE credits == {n \in ns : ledger[n].refund = 0}
<1>1. {n \in ns : ledger'[n].refund = 0} = credits
  OBVIOUS
<1>2. \A S \in SUBSET ns : [i \in S |-> ledger'[i].amount] = [i \in S |-> ledger[i].amount]
  OBVIOUS
<1>3. \A S \in SUBSET ns : Amounts(ledger', S) = Amounts(ledger, S)
  BY <1>2 DEF Amounts
<1>4. Net(ns) = Amounts(ledger, credits) - Amounts(ledger, ns \ credits)
  BY DEF Net
<1>5. Net(ns)' = Amounts(ledger', credits) - Amounts(ledger', ns \ credits)
  BY <1>1 DEF Net
<1> QED BY <1>3, <1>4, <1>5

\* One entry is new, and no other is of the same event.
LEMMA LedgerGrows ==
  ASSUME LedgerInv, NEW e \in Entry, ledger' = Append(ledger, e),
         \A n \in DOMAIN ledger : ~(ledger[n].order = e.order /\ ledger[n].refund = e.refund),
         e.refund = 0 => e = Earning(e.order),
         e.refund # 0 => /\ e.refund = 1 /\ HasEarning(e.order)
                         /\ IsRefunded(e.order) /\ e.amount = Share(e.order),
         UNCHANGED <<caseVars, events, batch, paid, request, review>>,
         run' \in [Runners -> Run], \A w \in Runners : RunTells(w)'
  PROVE  LedgerInv'
<1> DEFINE new == Len(ledger) + 1
<1>1. /\ order' = order /\ cycles' = cycles /\ dispute' = dispute /\ hold' = hold
      /\ payment' = payment /\ refunds' = refunds /\ events' = events
      /\ batch' = batch /\ paid' = paid /\ request' = request /\ review' = review
  BY DEF caseVars
<1>2. ledger \in Seq(Entry)
  BY DEF LedgerInv, BookTypeOK
<1>3. /\ ledger' \in Seq(Entry) /\ DOMAIN ledger' = DOMAIN ledger \cup {new}
      /\ new \notin DOMAIN ledger /\ ledger'[new] = e
      /\ \A n \in DOMAIN ledger : ledger'[n] = ledger[n]
  BY <1>2, Appended
<1> HIDE DEF new
<1>4. batch \in Seq(Batch) /\ Seq(Batch) \subseteq Seq(Batch')
  <2>1. Batch \subseteq Batch'
    BY <1>3 DEF Batch
  <2> QED BY <2>1, SeqMonotonic DEF LedgerInv, BookTypeOK
<1>5. BookTypeOK'
  BY <1>1, <1>3, <1>4 DEF LedgerInv, BookTypeOK
<1>6. \A o : HasEarning(o) => HasEarning(o)'
  BY <1>3 DEF HasEarning, Range
<1>7. ASSUME NEW n \in DOMAIN ledger' PROVE EntryTells(n)'
  <2>1. CASE n = new
    BY <1>1, <1>3, <1>6, <2>1 DEF EntryTells, Earning, IsRefunded, Share
  <2>2. CASE n # new
    <3>1. n \in DOMAIN ledger /\ EntryTells(n) /\ ledger'[n] = ledger[n]
      BY <1>3, <2>2 DEF LedgerInv
    <3> QED BY <1>1, <1>6, <3>1 DEF EntryTells, Earning, IsRefunded, Share
  <2> QED BY <2>1, <2>2
<1>8. OneEach'
  <2>1. \A n \in DOMAIN ledger' : n = new \/ (n \in DOMAIN ledger /\ n # new)
    BY <1>3
  <2> QED BY <1>3, <2>1 DEF LedgerInv, OneEach
<1>9. NoDoublePayout'
  <2>1. \A b \in DOMAIN batch : batch[b].entries \in SUBSET DOMAIN ledger
    <3>1. \A b \in DOMAIN batch : batch[b] \in Batch
      BY <1>4, ElementOfSeq
    <3> QED BY <3>1 DEF Batch
  <2>2. \A ns \in SUBSET DOMAIN ledger : Net(ns)' = Net(ns)
    BY <1>3, NetStays
  <2>3. ASSUME NEW b \in DOMAIN batch
        PROVE  Net(batch[b].entries)' = Net(batch[b].entries)
    <3>1. PICK ns \in SUBSET DOMAIN ledger : ns = batch[b].entries
      BY <2>1
    <3>2. ns = batch'[b].entries
      BY <1>1, <3>1
    <3>3. Net(batch[b].entries)' = Net(ns)'
      BY <3>2
    <3> QED BY <2>2, <3>1, <3>3
  <2> QED BY <1>1, <2>3 DEF LedgerInv, NoDoublePayout
<1>10. CaseInv' /\ \A o \in Orders : StoryTells(o)'
  BY <1>1 DEF LedgerInv, CaseInv, CaseTypeOK, StoryTells, Active
<1>11. SubmittedIsPaid'
  BY <1>1 DEF LedgerInv, SubmittedIsPaid
<1> QED BY <1>5, <1>7, <1>8, <1>9, <1>10, <1>11 DEF LedgerInv

LEMMA EarnTells == ASSUME LedgerInv, NEW w \in Runners, Earn(w) PROVE LedgerInv'
<1> DEFINE o == Order(w)
           r == [run[w] EXCEPT !.step = "EARNED"]
<1>1. /\ run[w] # NoRun /\ At(w, "COMPLETED") /\ run' = [run EXCEPT ![w] = r]
      /\ UNCHANGED <<caseVars, events, batch, paid, request, review>>
  BY DEF Earn, At, NoRun, Goes
<1>2. /\ run[w] \in [step : {"COMPLETED", "EARNED", "REFUNDS", "EACH"},
                     event : Event, payment : PaymentStatus, left : SUBSET Nat,
                     last : Nat]
      /\ o \in Orders /\ run \in [Runners -> Run]
  BY <1>1, RunFacts DEF LedgerInv, BookTypeOK
<1>3. r \in Run
  BY <1>2 DEF Run
<1>4. /\ run'[w] = r /\ r.step = "EARNED" /\ r.event = run[w].event
      /\ r.payment = run[w].payment
  BY <1>1, <1>2
<1>5. RunTells(w)
  BY DEF LedgerInv
<1>6. RunTells(w)'
  BY <1>1, <1>4, <1>5 DEF RunTells, At, Order, caseVars
<1>7. CASE HasEarning(o)
  BY <1>1, <1>3, <1>6, <1>7, RunMoves DEF Earn, LedgerInv, BookTypeOK
<1>8. CASE ~HasEarning(o)
  <2>1. Earning(o) \in Entry
    BY <1>2, AftercareAssumption, LedgerAssumption DEF Earning, Entry
  <2>2. ledger' = Append(ledger, Earning(o))
    BY <1>8 DEF Earn
  <2>3. \A n \in DOMAIN ledger :
          ~(ledger[n].order = Earning(o).order /\ ledger[n].refund = Earning(o).refund)
    BY <1>8 DEF HasEarning, Range, Earning
  <2>4. Earning(o).refund = 0 /\ Earning(o) = Earning(Earning(o).order)
    BY DEF Earning
  <2>5. run' \in [Runners -> Run] /\ \A v \in Runners : RunTells(v)'
    <3>1. ASSUME NEW v \in Runners, v # w PROVE RunTells(v)'
      <4>1. run'[v] = run[v] /\ RunTells(v)
        BY <1>1, <1>2, <3>1 DEF LedgerInv
      <4> QED BY <1>1, <4>1 DEF RunTells, At, Order, IsRefunded, caseVars
    <3> QED BY <1>1, <1>2, <1>3, <1>6, <3>1
  <2> QED BY <1>1, <2>1, <2>2, <2>3, <2>4, <2>5, LedgerGrows
<1> QED BY <1>7, <1>8

\* The entries of an order's refund: none, or the one of its only refund.
LEMMA DebitsAre ==
  ASSUME LedgerInv, NEW o \in Orders
  PROVE  \/ Debits(o) = {} /\ Debited(o) = 0
         \/ /\ \E n \in DOMAIN ledger : Debits(o) = {n}
            /\ HasDebit(o, 1) /\ HasEarning(o) /\ IsRefunded(o)
            /\ Debited(o) = Share(o)
<1>1. \A n \in DOMAIN ledger : EntryTells(n)
  BY DEF LedgerInv
<1>2. CASE Debits(o) = {}
  <2>1. SumFunction([i \in {} |-> ledger[i].amount]) = 0
    BY SumOfNone
  <2> QED BY <1>2, <2>1 DEF Debited, Amounts
<1>3. CASE Debits(o) # {}
  <2>1. PICK n \in DOMAIN ledger : ledger[n].order = o /\ ledger[n].refund # 0
    BY <1>3 DEF Debits
  <2>2. /\ ledger[n].refund = 1 /\ HasEarning(o) /\ IsRefunded(o)
        /\ ledger[n].amount = Share(o)
    BY <1>1, <2>1 DEF EntryTells
  <2>3. Debits(o) = {n}
    BY <1>1, <2>1, <2>2 DEF Debits, EntryTells, LedgerInv, OneEach
  <2>4. Share(o) \in Nat
    <3>1. Share(o) \in 0 .. Payout
      BY <2>2, ShareFacts DEF LedgerInv
    <3> QED BY <3>1
  <2>5. SumFunction([i \in {n} |-> ledger[i].amount]) = ledger[n].amount
    BY <2>2, <2>4, SumOfOne
  <2>6. Debited(o) = Share(o)
    BY <2>2, <2>3, <2>5 DEF Debited, Amounts
  <2> QED BY <2>1, <2>2, <2>3, <2>6 DEF HasDebit, Range
<1> QED BY <1>2, <1>3

LEMMA DebitTells == ASSUME LedgerInv, NEW w \in Runners, Debit(w) PROVE LedgerInv'
<1> DEFINE o == Order(w)
           r == [run[w] EXCEPT !.left = @ \ {Min(@)}]
           e == [order |-> o, refund |-> 1, amount |-> Adjustment(w, 1)]
<1>1. /\ run[w] # NoRun /\ At(w, "EACH") /\ run[w].left # {}
      /\ run' = [run EXCEPT ![w] = r]
      /\ UNCHANGED <<caseVars, events, batch, paid, request, review>>
  BY DEF Debit, At, NoRun
<1>2. /\ run[w] \in [step : {"COMPLETED", "EARNED", "REFUNDS", "EACH"},
                     event : Event, payment : PaymentStatus, left : SUBSET Nat,
                     last : Nat]
      /\ o \in Orders /\ run \in [Runners -> Run]
  BY <1>1, RunFacts DEF LedgerInv, BookTypeOK
<1>3. /\ RunTells(w) /\ StoryTells(o) /\ CaseInv
      /\ run[w].left = {1} /\ run[w].last = 1 /\ IsRefunded(o)
  BY <1>1, <1>2 DEF LedgerInv, RunTells
<1>4. Min({1}) = 1
  BY DEF Min
<1>5. r = [run[w] EXCEPT !.left = {}]
  BY <1>2, <1>3, <1>4
<1>6. /\ run'[w].step = "EACH" /\ run'[w].event = run[w].event
      /\ run'[w].payment = run[w].payment /\ run'[w].left = {}
      /\ run'[w] \in Run
  BY <1>1, <1>2, <1>5 DEF At, Run
<1>7. RunTells(w)'
  BY <1>1, <1>3, <1>6 DEF RunTells, At, Order, caseVars
<1>8. run' \in [Runners -> Run] /\ \A v \in Runners : RunTells(v)'
  <2>1. ASSUME NEW v \in Runners, v # w PROVE RunTells(v)' /\ run'[v] \in Run
    <3>1. run'[v] = run[v] /\ RunTells(v)
      BY <1>1, <1>2, <2>1 DEF LedgerInv
    <3> QED BY <1>1, <1>2, <3>1 DEF RunTells, At, Order, IsRefunded, caseVars
  <2> QED BY <1>1, <1>2, <1>6, <1>7, <2>1
<1>9. CASE ledger' = ledger
  BY <1>1, <1>2, <1>5, <1>6, <1>7, <1>9, RunMoves DEF LedgerInv, BookTypeOK
<1>10. CASE ledger' # ledger
  <2>1. /\ HasEarning(o) /\ Adjustment(w, 1) > 0 /\ ~HasDebit(o, 1)
        /\ ledger' = Append(ledger, e)
    BY <1>3, <1>4, <1>10 DEF Debit
  <2>2. Debited(o) = 0
    BY <1>2, <2>1, DebitsAre
  <2>3. /\ Share(o) \in 0 .. Payout
        /\ refunds[o][1].amount = Price => Share(o) = Payout
    BY <1>2, <1>3, ShareFacts
  <2>4. run[w].payment = "REFUNDED" => refunds[o][1].amount = Price
    BY <1>1, <1>2, <1>3 DEF RunTells, StoryTells, IsRefunded, Repaid
  <2>5. Payout \in Nat /\ Payout <= Price /\ Price \in Nat
    BY AftercareAssumption, LedgerAssumption
  <2>6. Adjustment(w, 1) = Share(o)
    BY <1>3, <2>2, <2>3, <2>4, <2>5 DEF Adjustment, Smaller, Share
  <2>7. Adjustment(w, 1) \in 1 .. Price
    BY <2>1, <2>3, <2>5, <2>6
  <2>8. /\ e \in Entry /\ e.order = o /\ e.refund = 1 /\ e.amount = Share(o)
    BY <1>2, <2>6, <2>7 DEF Entry
  <2>9. \A n \in DOMAIN ledger : ~(ledger[n].order = o /\ ledger[n].refund = 1)
    BY <2>1 DEF HasDebit, Range
  <2>10. PICK new \in Entry : new = e
    BY <2>8
  <2>11. /\ new.order = o /\ new.refund = 1 /\ new.amount = Share(o)
         /\ ledger' = Append(ledger, new)
    BY <2>1, <2>8, <2>10
  <2> HIDE DEF e
  <2>12. /\ \A n \in DOMAIN ledger :
               ~(ledger[n].order = new.order /\ ledger[n].refund = new.refund)
         /\ new.refund # 0 /\ HasEarning(new.order) /\ IsRefunded(new.order)
         /\ new.amount = Share(new.order)
    BY <1>3, <2>1, <2>9, <2>11
  <2> QED BY <1>1, <1>8, <2>11, <2>12, LedgerGrows
<1> QED BY <1>9, <1>10

-----------------------------------------------------------------------------
(* Settlements.                                                               *)

\* The settlements alone change.
LEMMA SettlementKeeps ==
  ASSUME LedgerInv, UNCHANGED <<caseVars, events, run, ledger>>,
         batch' \in Seq(Batch), paid' \subseteq DOMAIN batch',
         request' \in [Requests -> {NoRequest} \cup
           [batch : DOMAIN batch', status : Submittable, attempts : Nat]],
         review' \in [Reviewers -> {NoReview} \cup
           [batch : DOMAIN batch', status : BatchStatus]],
         \A b, c \in DOMAIN batch' :
           b # c => batch'[b].entries \cap batch'[c].entries = {},
         \A b \in DOMAIN batch' :
           batch'[b].total = Net(batch'[b].entries) /\ batch'[b].total > 0,
         \A b \in DOMAIN batch' : batch'[b].status \in {"SUBMITTED", "SETTLED"} => b \in paid'
  PROVE  LedgerInv'
<1>1. /\ order' = order /\ cycles' = cycles /\ dispute' = dispute /\ hold' = hold
      /\ payment' = payment /\ refunds' = refunds
      /\ events' = events /\ run' = run /\ ledger' = ledger
  BY DEF caseVars
<1>2. BookTypeOK'
  BY <1>1 DEF LedgerInv, BookTypeOK, Batch
<1>3. CaseInv' /\ \A o \in Orders : StoryTells(o)'
  BY <1>1 DEF LedgerInv, CaseInv, CaseTypeOK, StoryTells, Active
<1>4. \A w \in Runners : RunTells(w)'
  BY <1>1 DEF LedgerInv, RunTells, At, Order, IsRefunded
<1>5. OneEach' /\ \A n \in DOMAIN ledger : EntryTells(n)'
  BY <1>1 DEF LedgerInv, OneEach, EntryTells, Earning, HasEarning, IsRefunded, Share
<1>6. NoDoublePayout'
  <2>1. ASSUME NEW b \in DOMAIN batch' PROVE Net(batch[b].entries)' = Net(batch'[b].entries)
    BY <1>1 DEF Net, Amounts
  <2> QED BY <2>1 DEF NoDoublePayout
<1> QED BY <1>1, <1>2, <1>3, <1>4, <1>5, <1>6 DEF LedgerInv, SubmittedIsPaid

\* One row of a settlement is written; what it pays stays.
LEMMA RowKeeps ==
  ASSUME LedgerInv, UNCHANGED <<caseVars, events, run, ledger>>,
         NEW b \in DOMAIN batch, NEW row \in Batch, batch' = [batch EXCEPT ![b] = row],
         row.entries = batch[b].entries, row.total = batch[b].total,
         row.status \in {"SUBMITTED", "SETTLED"} => b \in paid',
         paid \subseteq paid', paid' \subseteq DOMAIN batch,
         request' = request \/ \E r \in Requests :
                                 request' = [request EXCEPT ![r] = NoRequest],
         review' = review \/ \E v \in Reviewers :
                               review' = [review EXCEPT ![v] = NoReview]
  PROVE  LedgerInv'
<1>1. batch \in Seq(Batch) /\ BookTypeOK
  BY DEF LedgerInv, BookTypeOK
<1>2. /\ batch' \in Seq(Batch) /\ DOMAIN batch' = DOMAIN batch
      /\ batch'[b] = row /\ \A c \in DOMAIN batch : c # b => batch'[c] = batch[c]
  BY <1>1
<1>3. \A c \in DOMAIN batch :
        batch'[c].entries = batch[c].entries /\ batch'[c].total = batch[c].total
  BY <1>2
<1>4. /\ request' \in [Requests -> {NoRequest} \cup
           [batch : DOMAIN batch', status : Submittable, attempts : Nat]]
      /\ review' \in [Reviewers -> {NoReview} \cup
           [batch : DOMAIN batch', status : BatchStatus]]
  BY <1>1, <1>2 DEF BookTypeOK
<1>5. \A c \in DOMAIN batch' : batch'[c].status \in {"SUBMITTED", "SETTLED"} => c \in paid'
  BY <1>2 DEF LedgerInv, SubmittedIsPaid
<1>6. /\ \A c, d \in DOMAIN batch' :
           c # d => batch'[c].entries \cap batch'[d].entries = {}
      /\ \A c \in DOMAIN batch' :
           batch'[c].total = Net(batch'[c].entries) /\ batch'[c].total > 0
  BY <1>2, <1>3 DEF LedgerInv, NoDoublePayout
<1> QED BY <1>2, <1>4, <1>5, <1>6, SettlementKeeps

LEMMA BatchFacts ==
  ASSUME LedgerInv, NEW b \in DOMAIN batch
  PROVE  /\ batch[b] \in [entries : SUBSET DOMAIN ledger, total : Nat,
                         status : BatchStatus, attempts : Nat, reference : BOOLEAN]
         /\ batch[b] \in Batch
<1>1. batch[b] \in Batch
  BY ElementOfSeq DEF LedgerInv, BookTypeOK
<1> QED BY <1>1 DEF Batch

LEMMA NetIsInt ==
  ASSUME LedgerInv, NEW ns \in SUBSET DOMAIN ledger
  PROVE  Net(ns) \in Int
<1>1. ledger \in Seq(Entry) /\ IsFiniteSet(DOMAIN ledger)
  <2>1. ledger \in Seq(Entry) /\ Len(ledger) \in Nat /\ DOMAIN ledger = 1 .. Len(ledger)
    BY LenProperties DEF LedgerInv, BookTypeOK
  <2> QED BY <2>1, FS_Interval
<1>2. \A n \in DOMAIN ledger : ledger[n].amount \in Nat
  <2>1. \A n \in DOMAIN ledger : ledger[n] \in Entry
    BY <1>1, ElementOfSeq
  <2>2. Price \in Nat
    BY AftercareAssumption
  <2> QED BY <2>1, <2>2 DEF Entry
<1>3. ASSUME NEW S \in SUBSET ns PROVE Amounts(ledger, S) \in Nat
  <2>1. IsFiniteSet(S)
    BY <1>1, FS_Subset
  <2>2. [i \in S |-> ledger[i].amount] \in [S -> Nat]
    BY <1>2
  <2> QED BY <2>1, <2>2, SumIsNat DEF Amounts
<1> QED BY <1>3 DEF Net

LEMMA CreateSettlementKeeps ==
  ASSUME LedgerInv, NEW cutoff \in DOMAIN ledger, CreateSettlement(cutoff)
  PROVE  LedgerInv'
<1> DEFINE ns == {n \in 1 .. cutoff : ~Settled(n) /\ Eligible(ledger[n].order)}
           new == [entries |-> ns, total |-> Net(ns), status |-> "CREATED", attempts |-> 0,
                  reference |-> FALSE]
           last == Len(batch) + 1
<1>1. /\ Net(ns) > 0 /\ batch' = Append(batch, new)
      /\ UNCHANGED <<caseVars, events, run, ledger>> /\ paid' = paid /\ request' = request
      /\ review' = review
  BY DEF CreateSettlement
<1>2. ns \subseteq DOMAIN ledger
  <2>1. Len(ledger) \in Nat /\ DOMAIN ledger = 1 .. Len(ledger)
    BY LenProperties DEF LedgerInv, BookTypeOK
  <2> QED BY <2>1
<1>3. \A n \in ns : \A b \in DOMAIN batch : n \notin batch[b].entries
  BY DEF Settled, Range
<1> HIDE DEF ns
<1>4. Net(ns) \in Nat
  BY <1>1, <1>2, NetIsInt
<1>5. new \in Batch
  BY <1>2, <1>4 DEF Batch, BatchStatus
<1>6. batch \in Seq(Batch) /\ BookTypeOK
  BY DEF LedgerInv, BookTypeOK
<1>7. /\ new.entries = ns /\ new.total = Net(ns) /\ new.status = "CREATED"
  OBVIOUS
<1> HIDE DEF new
<1>8. /\ batch' \in Seq(Batch) /\ DOMAIN batch' = DOMAIN batch \cup {last}
      /\ last \notin DOMAIN batch /\ batch'[last] = new
      /\ \A b \in DOMAIN batch : batch'[b] = batch[b]
  BY <1>1, <1>5, <1>6, Appended
<1> HIDE DEF last
<1>9. /\ paid' \subseteq DOMAIN batch' /\ request' \in [Requests -> {NoRequest} \cup
           [batch : DOMAIN batch', status : Submittable, attempts : Nat]]
      /\ review' \in [Reviewers -> {NoReview} \cup
           [batch : DOMAIN batch', status : BatchStatus]]
  BY <1>1, <1>6, <1>8 DEF BookTypeOK
<1>10. \A b \in DOMAIN batch' : b = last \/ (b \in DOMAIN batch /\ b # last)
  BY <1>8
<1>11. \A b, c \in DOMAIN batch' :
           b # c => batch'[b].entries \cap batch'[c].entries = {}
  <2>1. ASSUME NEW b \in DOMAIN batch PROVE batch[b].entries \cap ns = {}
    BY <1>3
  <2>2. \A b, c \in DOMAIN batch : b # c => batch[b].entries \cap batch[c].entries = {}
    BY DEF LedgerInv, NoDoublePayout
  <2> QED BY <1>7, <1>8, <1>10, <2>1, <2>2
<1>12. \A b \in DOMAIN batch' :
           batch'[b].total = Net(batch'[b].entries) /\ batch'[b].total > 0
  BY <1>1, <1>7, <1>8, <1>10 DEF LedgerInv, NoDoublePayout
<1>13. \A b \in DOMAIN batch' : batch'[b].status \in {"SUBMITTED", "SETTLED"} => b \in paid'
  BY <1>1, <1>7, <1>8, <1>10 DEF LedgerInv, SubmittedIsPaid
<1> QED BY <1>1, <1>8, <1>9, <1>11, <1>12, <1>13, SettlementKeeps

LEMMA RequestFacts ==
  ASSUME LedgerInv, NEW r \in Requests, request[r] # NoRequest
  PROVE  request[r] \in [batch : DOMAIN batch, status : Submittable, attempts : Nat]
BY DEF LedgerInv, BookTypeOK

LEMMA SubmitAskedKeeps ==
  ASSUME LedgerInv, NEW r \in Requests, NEW b \in DOMAIN batch, SubmitAsked(r, b)
  PROVE  LedgerInv'
<1> DEFINE asked == [batch |-> b, status |-> batch[b].status, attempts |-> batch[b].attempts]
<1>1. /\ UNCHANGED <<caseVars, events, run, ledger>> /\ batch' = batch /\ paid' = paid
      /\ batch[b].status \in Submittable /\ request' = [request EXCEPT ![r] = asked]
      /\ review' = review
  BY DEF SubmitAsked
<1>2. asked \in [batch : DOMAIN batch, status : Submittable, attempts : Nat]
  BY <1>1, BatchFacts
<1>3. BookTypeOK
  BY DEF LedgerInv
<1> HIDE DEF asked
<1>4. /\ batch' \in Seq(Batch) /\ paid' \subseteq DOMAIN batch'
      /\ request' \in [Requests -> {NoRequest} \cup
           [batch : DOMAIN batch', status : Submittable, attempts : Nat]]
      /\ review' \in [Reviewers -> {NoReview} \cup
           [batch : DOMAIN batch', status : BatchStatus]]
  BY <1>1, <1>2, <1>3 DEF BookTypeOK
<1>5. /\ \A c, d \in DOMAIN batch' :
           c # d => batch'[c].entries \cap batch'[d].entries = {}
      /\ \A c \in DOMAIN batch' :
           batch'[c].total = Net(batch'[c].entries) /\ batch'[c].total > 0
      /\ \A c \in DOMAIN batch' : batch'[c].status \in {"SUBMITTED", "SETTLED"} => c \in paid'
  BY <1>1 DEF LedgerInv, NoDoublePayout, SubmittedIsPaid
<1> QED BY <1>1, <1>4, <1>5, SettlementKeeps

\* The row after an answer.
LEMMA WritesRow ==
  ASSUME LedgerInv, NEW b \in DOMAIN batch, NEW status \in {"SUBMITTED", "RETRY_PENDING",
           "RECONCILIATION_REQUIRED"}, Writes(b, status)
  PROVE  \E row \in Batch : /\ batch' = [batch EXCEPT ![b] = row]
                            /\ row.entries = batch[b].entries /\ row.total = batch[b].total
                            /\ row.status = status
<1> DEFINE reference == batch[b].reference \/ status = "SUBMITTED"
           row == [batch[b] EXCEPT !.status = status, !.attempts = @ + 1,
                                   !.reference = reference]
<1>1. batch \in Seq(Batch)
  BY DEF LedgerInv, BookTypeOK
<1>2. batch' = [batch EXCEPT ![b] = row]
  BY <1>1 DEF Writes
<1>3. row \in Batch /\ row.entries = batch[b].entries /\ row.total = batch[b].total
      /\ row.status = status
  <2>1. /\ row \in [entries : SUBSET DOMAIN ledger, total : Nat,
                    status : BatchStatus, attempts : Nat, reference : BOOLEAN]
        /\ row.entries = batch[b].entries /\ row.total = batch[b].total
        /\ row.status = status
    <3>1. batch[b].attempts \in Nat /\ batch[b].attempts + 1 \in Nat
      BY BatchFacts
    <3>2. reference \in BOOLEAN /\ status \in BatchStatus
      BY DEF BatchStatus
    <3> HIDE DEF reference
    <3> QED BY <3>1, <3>2, BatchFacts
  <2> QED BY <2>1 DEF Batch
<1> QED BY <1>2, <1>3

LEMMA AnswerKeeps ==
  ASSUME LedgerInv, NEW r \in Requests,
         Submitted(r) \/ \E accepted \in BOOLEAN : SubmitFails(r, accepted)
  PROVE  LedgerInv'
<1>1. /\ request[r] # NoRequest /\ UNCHANGED <<caseVars, events, run, ledger>>
      /\ request' = [request EXCEPT ![r] = NoRequest] /\ review' = review
  BY DEF Submitted, SubmitFails
<1>2. PICK b \in DOMAIN batch : b = request[r].batch
  BY <1>1, RequestFacts
<1>3. paid \subseteq paid' /\ paid' \subseteq DOMAIN batch
  BY <1>2 DEF Submitted, SubmitFails, LedgerInv, BookTypeOK
<1>4. \/ batch' = batch
      \/ \E status \in {"RETRY_PENDING", "RECONCILIATION_REQUIRED"} : Writes(b, status)
      \/ Writes(b, "SUBMITTED") /\ b \in paid'
  BY <1>2 DEF Submitted, SubmitFails
<1>5. CASE batch' = batch
  <2>1. /\ batch[b] \in Batch /\ batch' = [batch EXCEPT ![b] = batch[b]]
        /\ batch[b].status \in {"SUBMITTED", "SETTLED"} => b \in paid'
    BY <1>3, <1>5, BatchFacts DEF LedgerInv, BookTypeOK, SubmittedIsPaid
  <2>2. PICK row \in Batch : row = batch[b]
    BY <2>1
  <2>3. /\ batch' = [batch EXCEPT ![b] = row] /\ row.entries = batch[b].entries
        /\ row.total = batch[b].total
        /\ row.status \in {"SUBMITTED", "SETTLED"} => b \in paid'
    BY <2>1, <2>2
  <2> QED BY <1>1, <1>3, <2>3, RowKeeps
<1>6. ASSUME NEW status \in {"SUBMITTED", "RETRY_PENDING", "RECONCILIATION_REQUIRED"},
             Writes(b, status), status = "SUBMITTED" => b \in paid'
      PROVE  LedgerInv'
  <2>1. PICK row \in Batch : /\ batch' = [batch EXCEPT ![b] = row]
                             /\ row.entries = batch[b].entries
                             /\ row.total = batch[b].total /\ row.status = status
    BY <1>6, WritesRow
  <2>2. row.status \in {"SUBMITTED", "SETTLED"} => b \in paid'
    BY <1>6, <2>1
  <2> QED BY <1>1, <1>3, <2>1, <2>2, RowKeeps
<1> QED BY <1>4, <1>5, <1>6

LEMMA ReviewReadsKeeps ==
  ASSUME LedgerInv, NEW v \in Reviewers, NEW b \in DOMAIN batch, ReviewReads(v, b)
  PROVE  LedgerInv'
<1> DEFINE read == [batch |-> b, status |-> batch[b].status]
<1>1. /\ UNCHANGED <<caseVars, events, run, ledger>> /\ batch' = batch /\ paid' = paid
      /\ request' = request /\ review' = [review EXCEPT ![v] = read]
  BY DEF ReviewReads
<1>2. read \in [batch : DOMAIN batch, status : BatchStatus]
  BY BatchFacts
<1>3. BookTypeOK
  BY DEF LedgerInv
<1> HIDE DEF read
<1>4. /\ batch' \in Seq(Batch) /\ paid' \subseteq DOMAIN batch'
      /\ request' \in [Requests -> {NoRequest} \cup
           [batch : DOMAIN batch', status : Submittable, attempts : Nat]]
      /\ review' \in [Reviewers -> {NoReview} \cup
           [batch : DOMAIN batch', status : BatchStatus]]
  BY <1>1, <1>2, <1>3 DEF BookTypeOK
<1>5. /\ \A c, d \in DOMAIN batch' :
           c # d => batch'[c].entries \cap batch'[d].entries = {}
      /\ \A c \in DOMAIN batch' :
           batch'[c].total = Net(batch'[c].entries) /\ batch'[c].total > 0
      /\ \A c \in DOMAIN batch' : batch'[c].status \in {"SUBMITTED", "SETTLED"} => c \in paid'
  BY <1>1 DEF LedgerInv, NoDoublePayout, SubmittedIsPaid
<1> QED BY <1>1, <1>4, <1>5, SettlementKeeps

\* What a reconciliation may write of the batch it has read.
LEMMA ReviewWrote ==
  ASSUME LedgerInv, NEW v \in Reviewers, NEW observed, ReviewWrites(v, observed)
  PROVE  \E b \in DOMAIN batch, status \in BatchStatus :
           /\ batch' = [batch EXCEPT ![b].status = status]
           /\ \/ status = "RECONCILIATION_REQUIRED" \/ status = batch[b].status
              \/ status = "SETTLED" /\ batch[b].status = "SUBMITTED"
<1>1. review[v] # NoReview /\ batch \in Seq(Batch)
  BY DEF ReviewWrites, LedgerInv, BookTypeOK
<1>2. PICK b \in DOMAIN batch : b = review[v].batch
  BY <1>1 DEF LedgerInv, BookTypeOK
<1>3. CASE batch' = batch
  <2>1. batch[b].status \in BatchStatus /\ [batch[b] EXCEPT !.status = batch[b].status] = batch[b]
    BY BatchFacts
  <2>2. batch' = [batch EXCEPT ![b].status = batch[b].status]
    BY <1>1, <1>3, <2>1
  <2> QED BY <2>1, <2>2
<1>4. CASE batch' = [batch EXCEPT ![b].status = "RECONCILIATION_REQUIRED"]
  BY <1>4 DEF BatchStatus
<1>5. CASE batch' = [batch EXCEPT ![b].status = "SETTLED"] /\ batch[b].status = "SUBMITTED"
  BY <1>5 DEF BatchStatus
<1> QED BY <1>2, <1>3, <1>4, <1>5 DEF ReviewWrites, StillSubmitted

LEMMA ReviewWritesKeeps ==
  ASSUME LedgerInv, NEW v \in Reviewers, NEW observed, ReviewWrites(v, observed)
  PROVE  LedgerInv'
<1>1. PICK b \in DOMAIN batch, status \in BatchStatus :
        /\ batch' = [batch EXCEPT ![b].status = status]
        /\ \/ status = "RECONCILIATION_REQUIRED" \/ status = batch[b].status
           \/ status = "SETTLED" /\ batch[b].status = "SUBMITTED"
  BY ReviewWrote
<1> DEFINE row == [batch[b] EXCEPT !.status = status]
<1>2. /\ UNCHANGED <<caseVars, events, run, ledger>> /\ paid' = paid /\ request' = request
      /\ review' = [review EXCEPT ![v] = NoReview] /\ batch' = [batch EXCEPT ![b] = row]
  BY <1>1 DEF ReviewWrites, LedgerInv, BookTypeOK
<1>3. /\ row \in Batch /\ row.entries = batch[b].entries /\ row.total = batch[b].total
      /\ row.status = status
  <2>1. /\ row \in [entries : SUBSET DOMAIN ledger, total : Nat,
                     status : BatchStatus, attempts : Nat, reference : BOOLEAN]
        /\ row.entries = batch[b].entries /\ row.total = batch[b].total
        /\ row.status = status
    BY BatchFacts
  <2> QED BY <2>1 DEF Batch
<1>4. status \in {"SUBMITTED", "SETTLED"} => b \in paid
  BY <1>1 DEF LedgerInv, SubmittedIsPaid
<1>5. paid' = paid /\ paid \subseteq DOMAIN batch
  BY <1>2 DEF LedgerInv, BookTypeOK
<1>6. PICK new \in Batch : new = row
  BY <1>3
<1>7. /\ batch' = [batch EXCEPT ![b] = new] /\ new.entries = batch[b].entries
      /\ new.total = batch[b].total /\ new.status = status
  BY <1>2, <1>3, <1>6
<1> HIDE DEF row
<1> QED BY <1>2, <1>4, <1>5, <1>7, RowKeeps

LEMMA LedgerKeeps == ASSUME LedgerInv, [LedgerNext]_ledgerVars PROVE LedgerInv'
<1>1. ASSUME NEW o \in Orders, OrderStep(o), UNCHANGED bookVars PROVE LedgerInv'
  BY <1>1, OrderStepBooks
<1>2. ASSUME NEW w \in Runners, RunStep(w) \/ RunDies(w) PROVE LedgerInv'
  BY <1>2, StartsTells, EarnTells, ReadsTell, DebitTells, EndsRun DEF RunStep
<1>3. ASSUME NEW v \in Reviewers, NEW b \in DOMAIN batch, ReviewReads(v, b) PROVE LedgerInv'
  BY <1>3, ReviewReadsKeeps
<1>4. CASE UNCHANGED ledgerVars
  <2>1. /\ UNCHANGED <<caseVars, events, run, ledger>>
        /\ batch' = batch /\ paid' = paid /\ request' = request /\ review' = review
    BY <1>4 DEF ledgerVars
  <2>2. BookTypeOK /\ NoDoublePayout /\ SubmittedIsPaid
    BY DEF LedgerInv
  <2>3. /\ batch' \in Seq(Batch) /\ paid' \subseteq DOMAIN batch'
        /\ request' \in [Requests -> {NoRequest} \cup
             [batch : DOMAIN batch', status : Submittable, attempts : Nat]]
        /\ review' \in [Reviewers -> {NoReview} \cup
             [batch : DOMAIN batch', status : BatchStatus]]
    BY <2>1, <2>2 DEF BookTypeOK
  <2>4. /\ \A c, d \in DOMAIN batch' :
             c # d => batch'[c].entries \cap batch'[d].entries = {}
        /\ \A c \in DOMAIN batch' :
             batch'[c].total = Net(batch'[c].entries) /\ batch'[c].total > 0
        /\ \A c \in DOMAIN batch' : batch'[c].status \in {"SUBMITTED", "SETTLED"} => c \in paid'
    BY <2>1, <2>2 DEF NoDoublePayout, SubmittedIsPaid
  <2> QED BY <2>1, <2>3, <2>4, SettlementKeeps
<1> QED BY <1>1, <1>2, <1>3, <1>4, CreateSettlementKeeps, SubmitAskedKeeps, AnswerKeeps,
           ReviewWritesKeeps
        DEF LedgerNext

\* The inductive invariant: what the rows of an order say of its one refund, what
\* the runs have read of it, what every entry of the ledger stands for, and what
\* was paid, whatever the customers and administrators do while the events are
\* handled late, twice and by several runs.
THEOREM LedgerInvariant == LedgerSpec => []LedgerInv
<1> QED BY LedgerStarts, LedgerKeeps, PTL DEF LedgerSpec

\* Order, dispute, hold, payment and refund tell one story after every step of
\* disputes.service.ts, of the refund's dispatch and of its callback.
THEOREM CasesAlwaysAgree == LedgerSpec => []CasesAgree
<1>1. LedgerInv => CasesAgree
  BY CaseAgrees DEF LedgerInv
<1> QED BY <1>1, LedgerInvariant, PTL

\* A batch pays what its entries come to, and no entry is paid out twice, however
\* settlements are created while entries are booked and batches fail.
THEOREM NeverDoublePayout == LedgerSpec => []NoDoublePayout
<1>1. LedgerInv => NoDoublePayout
  BY DEF LedgerInv
<1> QED BY <1>1, LedgerInvariant, PTL

LEMMA FitsOnce ==
  ASSUME LedgerInv, NEW o \in Orders
  PROVE  Cardinality({n \in DOMAIN ledger : ledger[n] = Earning(o)}) <= 1
<1> DEFINE S == {n \in DOMAIN ledger : ledger[n] = Earning(o)}
<1>1. \A m, n \in S : m = n
  BY DEF LedgerInv, OneEach, Earning
<1>2. S = {} \/ \E n : S = {n}
  BY <1>1
<1> HIDE DEF S
<1>3. Cardinality(S) \in {0, 1}
  <2>1. S = {} => Cardinality(S) = 0
    BY FS_EmptySet
  <2>2. (\E n : S = {n}) => Cardinality(S) = 1
    BY FS_Singleton
  <2> QED BY <1>2, <2>1, <2>2
<1> QED BY <1>3 DEF S

\* Every order is earned once, and debited once for its refund: its share of the
\* payout, rounded down, and never more than was earned.
THEOREM LedgerAlwaysFits == LedgerSpec => []LedgerFits
<1>1. ASSUME LedgerInv PROVE LedgerTypeOK
  <2>1. \A n \in DOMAIN ledger : ledger[n] \in Entry
    BY <1>1, ElementOfSeq DEF LedgerInv, BookTypeOK
  <2>2. \A b \in DOMAIN batch : batch[b] \in Batch
    BY <1>1, BatchFacts
  <2>3. \A r \in Requests : request[r].batch \in {0} \cup DOMAIN batch
    BY <1>1, RequestFacts DEF NoRequest
  <2>4. \A v \in Reviewers : review[v].batch \in {0} \cup DOMAIN batch
    BY <1>1 DEF LedgerInv, BookTypeOK, NoReview
  <2> QED BY <1>1, <2>1, <2>2, <2>3, <2>4 DEF LedgerInv, BookTypeOK, CaseInv, LedgerTypeOK
<1>2. ASSUME LedgerInv, NEW o \in Orders
      PROVE  /\ Debited(o) <= IF HasEarning(o) THEN Payout ELSE 0
             /\ Debits(o) # {} =>
                  /\ Refunded(o) = Price => Debited(o) = Payout
                  /\ Debited(o) * Price <= Payout * Refunded(o)
                  /\ Payout * Refunded(o) < (Debited(o) + 1) * Price
  <2>1. CASE Debits(o) = {} /\ Debited(o) = 0
    BY <2>1, LedgerAssumption, AftercareAssumption
  <2>2. CASE HasEarning(o) /\ IsRefunded(o) /\ Debited(o) = Share(o)
    <3>1. CaseInv /\ StoryTells(o)
      BY <1>2 DEF LedgerInv
    <3>2. Refunded(o) = refunds[o][1].amount
      BY <2>2, <3>1, RefundSums DEF IsRefunded
    <3>3. /\ Share(o) \in 0 .. Payout
          /\ Share(o) * Price <= Payout * refunds[o][1].amount
          /\ Payout * refunds[o][1].amount < (Share(o) + 1) * Price
          /\ refunds[o][1].amount = Price => Share(o) = Payout
      BY <2>2, <3>1, ShareFacts
    <3>4. Share(o) <= Payout
      BY <3>3
    <3> QED BY <2>2, <3>2, <3>3, <3>4
  <2> QED BY <1>2, <2>1, <2>2, DebitsAre
<1>3. LedgerInv => LedgerFits
  BY <1>1, <1>2, FitsOnce DEF LedgerFits
<1> QED BY <1>3, LedgerInvariant, PTL

\* No slower submission reopens a batch that was submitted, settled or given up, no
\* reconciliation settles one that was left to the operator, and what
\* submitSettlement put down as submitted the provider has.
THEOREM SubmittedAlwaysStays == LedgerSpec => SubmittedStays
<1> DEFINE Stays(b) == batch[b].status \notin Submittable =>
       /\ batch'[b].status \notin Submittable
       /\ batch[b].status = "RECONCILIATION_REQUIRED" =>
            batch'[b].status = "RECONCILIATION_REQUIRED"
       /\ batch[b].status \in {"SUBMITTED", "SETTLED"} => b \in paid'
<1>1. ASSUME LedgerInv, [LedgerNext]_ledgerVars, NEW b \in DOMAIN batch PROVE Stays(b)
  <2>1. /\ batch[b].status \in {"SUBMITTED", "SETTLED"} => b \in paid
        /\ batch \in Seq(Batch)
    BY <1>1 DEF LedgerInv, SubmittedIsPaid, BookTypeOK
  <2>2. CASE batch' = batch /\ paid' = paid
    BY <2>1, <2>2
  <2>3. ASSUME NEW cutoff \in DOMAIN ledger, CreateSettlement(cutoff) PROVE Stays(b)
    <3>1. batch'[b] = batch[b] /\ paid' = paid
      BY <2>1, <2>3 DEF CreateSettlement
    <3> QED BY <2>1, <3>1
  <2>4. ASSUME NEW v \in Reviewers, NEW observed, ReviewWrites(v, observed) PROVE Stays(b)
    <3>1. PICK c \in DOMAIN batch, status \in BatchStatus :
            /\ batch' = [batch EXCEPT ![c].status = status]
            /\ \/ status = "RECONCILIATION_REQUIRED" \/ status = batch[c].status
               \/ status = "SETTLED" /\ batch[c].status = "SUBMITTED"
      BY <1>1, <2>4, ReviewWrote
    <3>2. /\ paid' = paid
          /\ b # c => batch'[b] = batch[b]
          /\ b = c => batch'[b].status = status
      BY <2>1, <2>4, <3>1, <1>1, BatchFacts DEF ReviewWrites
    <3>3. \/ batch'[b].status = batch[b].status
          \/ batch'[b].status = "RECONCILIATION_REQUIRED"
          \/ batch'[b].status = "SETTLED" /\ batch[b].status = "SUBMITTED"
      BY <3>1, <3>2
    <3> QED BY <2>1, <3>2, <3>3 DEF Submittable
  <2>5. ASSUME NEW r \in Requests,
               Submitted(r) \/ \E accepted \in BOOLEAN : SubmitFails(r, accepted)
        PROVE  Stays(b)
    <3>1. request[r] # NoRequest
      BY <2>5 DEF Submitted, SubmitFails
    <3>2. request[r].batch \in DOMAIN batch /\ request[r].status \in Submittable
      BY <1>1, <3>1, RequestFacts
    <3>3. paid \subseteq paid' /\ (b = request[r].batch /\ batch'[b] # batch[b]
                                     => batch[b].status \in Submittable)
      BY <2>1, <2>5, <3>2 DEF Submitted, SubmitFails, Unmoved
    <3>4. b # request[r].batch => batch'[b] = batch[b]
      BY <2>1, <2>5, <3>2 DEF Submitted, SubmitFails, Writes
    <3> QED BY <2>1, <3>3, <3>4
  <2>6. ASSUME NEW w \in Runners, RunStep(w) \/ RunDies(w)
        PROVE  batch' = batch /\ paid' = paid
    BY <2>6 DEF RunStep, RunDies, StartEarning, StartRefunds, Earn, ReadPayment,
                ReadRefunds, Debit, Finish
  <2> QED BY <1>1, <2>2, <2>3, <2>4, <2>5, <2>6
          DEF LedgerNext, ledgerVars, bookVars, SubmitAsked, ReviewReads
<1>2. LedgerInv /\ [LedgerNext]_ledgerVars =>
        [\A b \in DOMAIN batch : Stays(b)]_ledgerVars
  BY <1>1
<1>3. LedgerSpec => [][\A b \in DOMAIN batch : Stays(b)]_ledgerVars
  BY <1>2, LedgerInvariant, PTL DEF LedgerSpec
<1> QED BY <1>3 DEF SubmittedStays
=============================================================================
